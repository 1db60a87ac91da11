------------------------------ MODULE Workspaces ------------------------------
(***************************************************************************)
(* Registered project directories and the Sessions each of them accounts   *)
(* for: the registry (workspace/registry.go) in its actor (workspace/      *)
(* actor), its SQLite store (workspace/persistence/sqlite), the notices    *)
(* clients follow (apiproxy/workspace), and the creation of a Session in a *)
(* Workspace (apiproxy/session/lifecycle.go).                              *)
(*                                                                         *)
(* A directory is named by its canonical path.  Sessions are numbers, a    *)
(* greater one was created later.  The actor executes one command at a     *)
(* time; which of the stashed ones is next is free.                        *)
(***************************************************************************)
EXTENDS Integers, Sequences, FiniteSets

CONSTANTS
  Paths,        \* directories
  Sessions,     \* Session identities, a set of numbers
  Settings      \* bounds of the behaviours, one after another:
                \*   history   Sessions that are durable before the first start, by path
                \*   commands  calls of the registry, of the kinds in ops
                \*   creations  of Sessions in a Workspace
                \*   moves     directories going missing or coming back
                \*   faults    failed writes
                \*   restarts  of the process

VARIABLES
  present,      \* the directories that exist
  headers,      \* what is known of each Session: its directory, whether it is durable
  disk,         \* the store
  registry,     \* DurableRegistry: up, entries, order, archive, canonical paths
  task,         \* the command whose result was not delivered yet
  flow,         \* a Session being created in a Workspace
  seen,         \* ghosts: what clients were told, attachments acknowledged,
                \*   unconfirmed writes, identities used twice
  used          \* the setting, and how much of it is used

spaceVars == <<present, headers, disk, registry, task, flow, seen, used>>

None == "none"
NoSession == [at |-> None, stored |-> FALSE]
NoCommand == [op |-> None, id |-> 0, path |-> None, session |-> 0, before |-> 0, title |-> None]
NoTask == [cmd |-> NoCommand, ok |-> FALSE, notice |-> <<>>]
NoFlow == [pc |-> "idle", id |-> 0, path |-> None, session |-> 0, sound |-> TRUE]
NoUse == [commands |-> 0, creations |-> 0, moves |-> 0, faults |-> 0, restarts |-> 0]
OrderItem == 0     \* what a write may leave unconfirmed, besides a Workspace
ArchiveItem == -1
Down == [up |-> FALSE, entries |-> <<>>, order |-> <<>>, archived |-> <<>>,
         canonical |-> [s \in Sessions |-> None]]

Setting == Settings[used.of]
Uses(what) ==
  /\ used.n[what] < Setting[what]
  /\ used' = [used EXCEPT !.n[what] = @ + 1]

Items(seq) == {seq[i] : i \in DOMAIN seq}
With(f, x, value) == [y \in DOMAIN f \cup {x} |-> IF y = x THEN value ELSE f[y]]
Minus(f, x) == [y \in DOMAIN f \ {x} |-> f[y]]
Greatest(S) == CHOOSE n \in S : \A m \in S : m <= n
Drop(seq, x) == LET other(y) == y # x IN SelectSeq(seq, other)

(* state: members whose directory does not resolve to the Workspace's are  *)
(* not listed.                                                             *)
Valid(canonical, record) ==
  LET here(s) == canonical[s] = record.path IN SelectSeq(record.sessions, here)
State(canonical, record) == [record EXCEPT !.sessions = Valid(canonical, record)]

(* What a client shows that listed the registry.                           *)
Shown(reg) ==
  [entries |-> [id \in DOMAIN reg.entries |-> State(reg.canonical, reg.entries[id])],
   order |-> reg.order, archived |-> reg.archived]

Init ==
  /\ used \in [of : DOMAIN Settings, n : {NoUse}]
  /\ present = Paths
  /\ headers = [s \in Sessions |->
       IF s \in DOMAIN Setting.history THEN [at |-> Setting.history[s], stored |-> TRUE]
       ELSE NoSession]
  /\ disk = [initialized |-> FALSE, records |-> <<>>, order |-> <<>>, archived |-> <<>>]
  /\ registry = Down /\ task = NoTask /\ flow = NoFlow
  /\ seen = [told |-> Shown(Down), sound |-> {}, unconfirmed |-> {},
             reused |-> FALSE, ids |-> 0]

----------------------------------------------------------------------------
(* Starting.                                                               *)

(* validateDurableState.                                                   *)
Loadable ==
  /\ \A a, b \in DOMAIN disk.records :
       a # b => /\ disk.records[a].path # disk.records[b].path
                /\ Items(disk.records[a].sessions) \cap Items(disk.records[b].sessions) = {}
  /\ \A a \in DOMAIN disk.records :
       Cardinality(Items(disk.records[a].sessions)) = Len(disk.records[a].sessions)
  /\ Len(disk.order) = Cardinality(Items(disk.order))
  /\ Items(disk.order) \subseteq DOMAIN disk.records
  /\ disk.initialized => Items(disk.order) = DOMAIN disk.records

(* indexHeaders, at start: durable headers whose directory resolves.       *)
Indexed ==
  [s \in Sessions |->
     IF headers[s].stored /\ headers[s].at \in present THEN headers[s].at ELSE None]

(* bootstrap of a store that holds no record: one Workspace for each       *)
(* directory Sessions ran in, the most recent first.                       *)
Descending(S) ==
  CHOOSE seq \in [1..Cardinality(S) -> S] : \A i, j \in DOMAIN seq : i < j => seq[i] > seq[j]
MembersAt(index, path) == {s \in Sessions : index[s] = path}
Bootstrapped(index) ==
  LET leaders == {Greatest(MembersAt(index, p)) : p \in {index[s] : s \in Sessions} \ {None}}
      groups == Descending(leaders)
  IN [initialized |-> TRUE, archived |-> <<>>, order |-> [i \in DOMAIN groups |-> i],
      records |-> [i \in DOMAIN groups |->
        [path |-> index[groups[i]], title |-> "base",
         sessions |-> Descending(MembersAt(index, index[groups[i]]))]]]

----------------------------------------------------------------------------
(* The process.                                                            *)

Install(stored, index) ==
  /\ registry' = [up |-> TRUE, entries |-> stored.records, order |-> stored.order,
                  archived |-> stored.archived, canonical |-> index]
  /\ seen' =
       LET kept(pairs) == {m \in pairs : index[m[2]] # None}
       IN [seen EXCEPT !.sound = kept(@), !.unconfirmed = {},
                       !.told = Shown(registry'),
                       !.ids = IF DOMAIN stored.records = {} THEN @ ELSE Greatest(DOMAIN stored.records \cup {@})]

(* NewRegistry: headers are not read for an empty store.                   *)
Start ==
  /\ ~registry.up /\ Loadable
  /\ \/ /\ disk.initialized
        /\ Install(disk, IF disk.records = <<>> THEN [s \in Sessions |-> None] ELSE Indexed)
        /\ UNCHANGED <<disk, used>>
     \/ /\ ~disk.initialized
        /\ disk' = Bootstrapped(Indexed) /\ Install(disk', Indexed)
        /\ UNCHANGED used
  /\ UNCHANGED <<present, headers, task, flow>>

(* A Session nobody stored is lost with the process.                       *)
Restarts ==
  /\ registry' = Down /\ task' = NoTask /\ flow' = NoFlow
  /\ headers' = [s \in Sessions |-> IF headers[s].stored THEN headers[s] ELSE NoSession]
  /\ UNCHANGED <<present, disk>>

Crash == registry.up /\ Uses("restarts") /\ Restarts /\ UNCHANGED seen

(* The batch a Session writes in the background.                           *)
Store(s) ==
  /\ headers[s].at # None /\ ~headers[s].stored
  /\ headers' = [headers EXCEPT ![s].stored = TRUE]
  /\ UNCHANGED <<present, disk, registry, task, flow, seen, used>>

Move(p) ==
  /\ Uses("moves")
  /\ present' = IF p \in present THEN present \ {p} ELSE present \cup {p}
  /\ UNCHANGED <<headers, disk, registry, task, flow, seen>>

----------------------------------------------------------------------------
(* Commands.  One is executed by the actor's task; its notice is published *)
(* and its result delivered once the task has finished.                    *)

Answer(cmd, ok) == task' = [NoTask EXCEPT !.cmd = cmd, !.ok = ok]
Refuses(cmd) == Answer(cmd, FALSE) /\ UNCHANGED <<disk, registry, seen, used>>
Accepts(cmd) == Answer(cmd, TRUE) /\ UNCHANGED <<disk, registry, seen, used>>

(* What was acknowledged before a command that takes it back.              *)
Attempted(cmd) ==
  LET kept(pairs) == {m \in pairs : \/ m[1] # cmd.id
                                    \/ cmd.op # "delete" /\ (cmd.op # "detach" \/ m[2] # cmd.session)}
  IN [seen EXCEPT !.sound = kept(@)]

Notice(kind, id, value) == [kind |-> kind, id |-> id, value |-> value]

(* The store is written before memory and the notice are.  A transaction   *)
(* that fails has no effect; a single statement whose context is cancelled *)
(* may have been executed.                                                 *)
Writes(cmd, what, stored, next, notice) ==
  \/ /\ disk' = stored /\ registry' = next
     /\ task' = [NoTask EXCEPT !.cmd = cmd, !.ok = TRUE, !.notice = <<notice>>]
     /\ seen' = [Attempted(cmd) EXCEPT !.unconfirmed = @ \ {what}, !.ids = Greatest({@, cmd.id})]
     /\ UNCHANGED used
  \/ /\ Uses("faults") /\ Answer(cmd, FALSE) /\ UNCHANGED registry
     /\ \/ UNCHANGED disk /\ seen' = Attempted(cmd)
        \/ /\ cmd.op \notin {"create", "delete"}
           /\ disk' = stored /\ seen' = [Attempted(cmd) EXCEPT !.unconfirmed = @ \cup {what}]

Entry(id) == registry.entries[id]
Registered(id) == id \in DOMAIN registry.entries

Create(cmd) ==
  LET record == [path |-> cmd.path, title |-> "base", sessions |-> <<>>]
      order == <<cmd.id>> \o registry.order
  IN CASE cmd.path \notin present -> Refuses(cmd)
       [] \E w \in DOMAIN registry.entries : Entry(w).path = cmd.path -> Accepts(cmd)
       [] OTHER -> Writes(cmd, cmd.id,
                          [disk EXCEPT !.records = With(@, cmd.id, record), !.order = order],
                          [registry EXCEPT !.entries = With(@, cmd.id, record), !.order = order],
                          Notice("changed", cmd.id, record))

Delete(cmd) ==
  LET order == Drop(registry.order, cmd.id)
  IN Writes(cmd, cmd.id, [disk EXCEPT !.records = Minus(@, cmd.id), !.order = order],
            [registry EXCEPT !.entries = Minus(@, cmd.id), !.order = order],
            Notice("removed", cmd.id, None))

(* A zero anchor appends.                                                  *)
Moved(seq, x, before) ==
  LET rest == Drop(seq, x)
      at == IF before = 0 THEN Len(rest)
            ELSE (CHOOSE i \in DOMAIN rest : rest[i] = before) - 1
  IN SubSeq(rest, 1, at) \o <<x>> \o SubSeq(rest, at + 1, Len(rest))

InsertBefore(cmd) ==
  LET order == Moved(registry.order, cmd.id, cmd.before)
  IN IF cmd.before = cmd.id \/ order = registry.order THEN Accepts(cmd)
     ELSE Writes(cmd, OrderItem, [disk EXCEPT !.order = order],
                 [registry EXCEPT !.order = order], Notice("order", 0, order))

(* Variant: memory is changed before the store has answered.               *)
UpdatesEarly(cmd, canonical, record) ==
  LET pruned == State(canonical, record)
      next == [registry EXCEPT !.canonical = canonical, !.entries[cmd.id] = pruned]
  IN /\ registry' = next
     /\ \/ /\ pruned = Entry(cmd.id) /\ Answer(cmd, TRUE) /\ UNCHANGED <<disk, seen, used>>
        \/ /\ disk' = [disk EXCEPT !.records[cmd.id] = pruned] /\ UNCHANGED <<seen, used>>
           /\ task' = [NoTask EXCEPT !.cmd = cmd, !.ok = TRUE,
                                     !.notice = <<Notice("changed", cmd.id, pruned)>>]
        \/ Uses("faults") /\ Answer(cmd, FALSE) /\ UNCHANGED <<disk, seen>>

(* update: every accepted mutation prunes the members that are not valid.  *)
(* A canonical path learned on the way stays, whatever the store answers.  *)
Updates(cmd, canonical, record) ==
  LET pruned == State(canonical, record)
      known == [registry EXCEPT !.canonical = canonical]
  IN IF pruned = Entry(cmd.id)
     THEN registry' = known /\ Answer(cmd, TRUE) /\ UNCHANGED <<disk, seen, used>>
     ELSE \/ /\ disk' = [disk EXCEPT !.records[cmd.id] = pruned]
             /\ registry' = [known EXCEPT !.entries[cmd.id] = pruned]
             /\ task' = [NoTask EXCEPT !.cmd = cmd, !.ok = TRUE,
                                       !.notice = <<Notice("changed", cmd.id, pruned)>>]
             /\ seen' = [Attempted(cmd) EXCEPT !.unconfirmed = @ \ {cmd.id}]
             /\ UNCHANGED used
          \/ /\ Uses("faults") /\ Answer(cmd, FALSE) /\ registry' = known
             /\ \/ UNCHANGED disk /\ seen' = Attempted(cmd)
                \/ /\ disk' = [disk EXCEPT !.records[cmd.id] = pruned]
                   /\ seen' = [Attempted(cmd) EXCEPT !.unconfirmed = @ \cup {cmd.id}]

SetTitle(cmd) ==
  IF Entry(cmd.id).title = cmd.title THEN Accepts(cmd)
  ELSE IF \E w \in DOMAIN registry.entries : w # cmd.id /\ Entry(w).title = cmd.title
  THEN Refuses(cmd)
  ELSE Updates(cmd, registry.canonical, [Entry(cmd.id) EXCEPT !.title = cmd.title])

(* AttachSession: a Session that is accounted already is not looked up.    *)
AttachSession(cmd) ==
  LET s == cmd.session
      path == Entry(cmd.id).path
  IN IF s \in Items(Entry(cmd.id).sessions) THEN Updates(cmd, registry.canonical, Entry(cmd.id))
     ELSE IF headers[s].at # path \/ path \notin present THEN Refuses(cmd)
     ELSE Updates(cmd, [registry.canonical EXCEPT ![s] = path],
                  [Entry(cmd.id) EXCEPT !.sessions = <<s>> \o @])

InsertSessionBefore(cmd) ==
  LET sessions == Entry(cmd.id).sessions
  IN IF {cmd.session, cmd.before} \ {0} \subseteq Items(sessions)
     THEN Updates(cmd, registry.canonical,
            IF cmd.before = cmd.session THEN Entry(cmd.id)
            ELSE [Entry(cmd.id) EXCEPT !.sessions = Moved(sessions, cmd.session, cmd.before)])
     ELSE Refuses(cmd)

DetachSession(cmd) ==
  Updates(cmd, registry.canonical, [Entry(cmd.id) EXCEPT !.sessions = Drop(@, cmd.session)])

ArchiveSession(cmd) ==
  LET archived == Append(registry.archived, cmd.session)
  IN CASE cmd.session \in Items(registry.archived) -> Accepts(cmd)
       [] headers[cmd.session] = NoSession -> Refuses(cmd)
       [] OTHER -> Writes(cmd, ArchiveItem, [disk EXCEPT !.archived = archived],
                          [registry EXCEPT !.archived = archived],
                          Notice("archived", 0, archived))

(* A command that names a Workspace nobody registered is refused.          *)
Execute(cmd) ==
  /\ registry.up /\ task = NoTask
  /\ IF cmd.op \notin {"create", "archive"}
        /\ \/ ~Registered(cmd.id)
           \/ cmd.op = "insert" /\ cmd.before # 0 /\ ~Registered(cmd.before)
     THEN Refuses(cmd)
     ELSE CASE cmd.op = "create" -> Create(cmd)
            [] cmd.op = "delete" -> Delete(cmd)
            [] cmd.op = "insert" -> InsertBefore(cmd)
            [] cmd.op = "rename" -> SetTitle(cmd)
            [] cmd.op = "attach" -> AttachSession(cmd)
            [] cmd.op = "move" -> InsertSessionBefore(cmd)
            [] cmd.op = "detach" -> DetachSession(cmd)
            [] cmd.op = "archive" -> ArchiveSession(cmd)
  /\ UNCHANGED <<present, headers>>

Known == DOMAIN registry.entries
Commands ==
  {[NoCommand EXCEPT !.op = "create", !.id = seen.ids + 1, !.path = p] : p \in Paths} \cup
  {[NoCommand EXCEPT !.op = "delete", !.id = w] : w \in Known} \cup
  {[NoCommand EXCEPT !.op = "insert", !.id = w, !.before = v] : w \in Known, v \in Known \cup {0}} \cup
  {[NoCommand EXCEPT !.op = "rename", !.id = w, !.title = "given"] : w \in Known} \cup
  {[NoCommand EXCEPT !.op = "move", !.id = w, !.session = s, !.before = b] :
     w \in Known, s \in Sessions, b \in Sessions \cup {0}} \cup
  {[NoCommand EXCEPT !.op = "detach", !.id = w, !.session = s] : w \in Known, s \in Sessions} \cup
  {[NoCommand EXCEPT !.op = "archive", !.session = s] : s \in Sessions}

Begin ==
  /\ used.n.commands < Setting.commands
  /\ \E cmd \in {c \in Commands : c.op \in Setting.ops} : Execute(cmd)
  /\ UNCHANGED flow

(* Receive's finished: the notice reaches the clients, then the result is  *)
(* delivered.  A stop waits for it and publishes nothing more.             *)
Applied(told, notice) ==
  LET id == notice.id
  IN CASE notice.kind = "changed" ->
            [told EXCEPT !.entries = With(@, id, notice.value),
                         !.order = IF id \in Items(@) THEN @ ELSE <<id>> \o @]
       [] notice.kind = "removed" -> [told EXCEPT !.entries = Minus(@, id), !.order = Drop(@, id)]
       [] notice.kind = "order" -> [told EXCEPT !.order = notice.value]
       [] OTHER -> [told EXCEPT !.archived = notice.value]

Finish ==
  LET attach == task.cmd.op = "attach"
      pair == {<<task.cmd.id, task.cmd.session>>}
      told == IF task.notice = <<>> THEN seen.told ELSE Applied(seen.told, task.notice[1])
  IN /\ task # NoTask /\ task' = NoTask
     /\ seen' = IF attach /\ task.ok
                THEN [seen EXCEPT !.told = told,
                                  !.sound = IF flow.sound /\ task.cmd.id \notin seen.unconfirmed THEN @ \cup pair ELSE @ \ pair]
                ELSE [seen EXCEPT !.told = told]
     /\ IF attach THEN flow' = NoFlow /\ UNCHANGED used
        ELSE used' = [used EXCEPT !.n.commands = @ + 1] /\ UNCHANGED flow
     /\ UNCHANGED <<present, headers, disk, registry>>

----------------------------------------------------------------------------
(* sessionLifecycle.Create in a Workspace.                                 *)

ReadWorkspace(w, s) ==
  /\ flow = NoFlow /\ registry.up /\ task = NoTask /\ Registered(w) /\ Uses("creations")
  /\ flow' = [NoFlow EXCEPT !.pc = "ensuring", !.id = w, !.path = Entry(w).path, !.session = s]
  /\ UNCHANGED <<present, headers, disk, registry, task, seen>>

(* activation.ensure: a Session nobody knows is created in the directory,  *)
(* which is made if need be; one that is known is adopted if it runs there.*)
Ensure ==
  LET s == flow.session
  IN /\ flow.pc = "ensuring"
     /\ IF headers[s] = NoSession
        THEN /\ present' = present \cup {flow.path}
             /\ headers' = [headers EXCEPT ![s] = [at |-> flow.path, stored |-> FALSE]]
             /\ seen' = [seen EXCEPT !.reused = @ \/ \E w \in DOMAIN disk.records :
                            /\ disk.records[w].path # flow.path
                            /\ s \in Items(disk.records[w].sessions)]
        ELSE UNCHANGED <<present, headers, seen>>
     /\ flow' = IF headers'[s].at = flow.path THEN [flow EXCEPT !.pc = "attaching"] ELSE NoFlow
     /\ UNCHANGED <<disk, registry, task, used>>

Attach ==
  LET w == flow.id s == flow.session
  IN /\ flow.pc = "attaching"
     /\ Execute([NoCommand EXCEPT !.op = "attach", !.id = w, !.session = s])
     /\ flow' = [flow EXCEPT !.pc = "attached", !.sound =
                    Registered(w) /\ (s \in Items(Entry(w).sessions) =>
                                        s \in Items(Valid(registry.canonical, Entry(w))))]

Next ==
  \/ Start \/ Crash \/ Begin \/ Finish \/ Ensure \/ Attach
  \/ \E s \in Sessions : Store(s)
  \/ \E p \in Paths : Move(p)
  \/ \E w \in Known, s \in Sessions : ReadWorkspace(w, s)

Spec == Init /\ [][Next]_spaceVars

----------------------------------------------------------------------------
(* Properties.                                                             *)

(* Memory, the store and the commands keep the shapes of the code.         *)
TypeOK ==
  /\ present \subseteq Paths
  /\ \A s \in Sessions : headers[s].at \in Paths \cup {None} /\ registry.canonical[s] \in Paths \cup {None}
  /\ registry.up => Items(registry.order) = Known /\ Len(registry.order) = Cardinality(Known)
  /\ flow.pc \in {"idle", "ensuring", "attaching", "attached"}

(* What the registry has written can be loaded again (registry.go:665),    *)
(* unless the identity of a Session that was lost is used elsewhere.       *)
StoreIsLoadable == ~seen.reused => Loadable

(* Memory is what the store holds, but for a statement that failed after   *)
(* it was executed.                                                        *)
MemoryIsStored ==
  registry.up =>
    /\ Known = DOMAIN disk.records
    /\ \A w \in Known \ seen.unconfirmed : Entry(w) = disk.records[w]
    /\ OrderItem \notin seen.unconfirmed => registry.order = disk.order
    /\ ArchiveItem \notin seen.unconfirmed => registry.archived = disk.archived

(* A client that listed the registry and follows its notices shows what it *)
(* would list now.                                                         *)
ClientsAreTold == registry.up /\ task = NoTask /\ ~seen.reused => seen.told = Shown(registry)

Listed(w, s) == Registered(w) /\ s \in Items(Valid(registry.canonical, Entry(w)))

(* Members run in the directory of their Workspace and of no other; an     *)
(* acknowledged attachment stays until it is taken back or a start does not*)
(* find the Session or its directory.                                      *)
MembersAreRight ==
  registry.up =>
    /\ \A w \in Known, s \in Sessions : Listed(w, s) => headers[s].at = Entry(w).path
    /\ ~seen.reused => \A m \in seen.sound : Listed(m[1], m[2])

WorkspacesAreTrue ==
  TypeOK /\ StoreIsLoadable /\ MemoryIsStored /\ ClientsAreTold /\ MembersAreRight
=============================================================================
