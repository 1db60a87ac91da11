# A TLA+ model of goren

goren is a Go server for LLM Agents. Sessions are durable event logs in SQLite; an
Agent is a ReAct loop that reads and writes one Session, calls models as streams and
runs tools; an API serves a Web UI. Everything that owns state is a GoAkt actor or
Grain (a virtual actor found by name): it handles one message at a time, and every
call to another owner, to storage or to a provider is a message whose answer is a
later message. Sessions, Agents, tools and models have distinct owners, so almost
every operation of the program is a conversation of several mailboxes that failures,
cancellations and closes can enter anywhere. That is what these modules model.

The modules are translated from the code, and `PROJECT.json` maps each definition to
the lines it stands for (one definition per stretch of code; helpers within a stretch
are not listed again). Sections below: the inventory, the modules and what their
runs show, the proofs, what is assumed, what is left out, and the plan.

## 1. Inventory

| Component | State it keeps | Operations | Talks to | Hard behaviour | What makes it correct |
|---|---|---|---|---|---|
| Session Grain `session/actor` | in-memory log, durable prefix, one write in flight, pending Flush/Close | Initialize, Resume, Commit, Flush, Close, Read | Session Registry (Claim), storage | teardown and crash with tasks still running, uncertain writes, two activations | what is acknowledged as durable is stored; one history |
| Session Registry `session/registry` | reservation per SessionID, lifecycle record, deferred replies | Register, Start, Open, Close, List, Claim | Session Grain, API, Agent Registry | an opening racing a close, a lost activation, a failed deactivation after a good close | one owner; no identity freed before its log is drained |
| Agent Registry `agent`, `agent/registry` | lifecycle, readiness, resource ledger, restarts | Create, CreateChild, Find, Close, StopAdmission, Settings notices | all component owners, Settings | startup against close, failing components, parent and child, replacement of a lifetime | nothing leaks, dependency order, one executor, explicit close wins |
| ReAct loop `agentloop` | Inbox, Turn, Step, tool batch, cancellation | admit, edit, remove, promote, cancel, maintain, drain, close | Session, model router, tools, middleware | commands between any two answers, clears during a cancellation | the log stays well nested and replayable; input enters once |
| Model request `agentloop/internal/modelrequest`, `llm/actor` | attempt, stream, pending requests | start, chunk, retry, cancel, release | LLM Worker, Session | answers after time-outs, closes of calls that never opened | what is recorded is what streamed; every stream is released |
| Middleware `agent/middleware`, LLM retry `llm/retry` | one call, its handlers and their waits; retry facts of the log | run a chain, cancel, retry a request | AgentLoop, handlers, Session | cancellation against answers, a retry whose Step is over | one result; every retry is recorded before it is waited for |
| System prompt `systemprompt` | definitions, configuration, one assembly, tools | register, configure, initialize, assemble, follow tools, close | Agent Registry, AgentLoop, Tool runtime | assembly beside the mailbox, notices read later than announced | a prompt is of current versions; tools catch up |
| Tool runtime `tools/runtime`, `tools/tool`, `tools/registry` | applied tools, unfinished Update, ToolActor lifetimes | configure, refresh, snapshot, close | ToolActors, tool Registry, MCP | an Update that fails or times out half way | no resource leaks; the snapshot is what runs |
| Tool calls `tools/execution`, `tools/tool/actor` | retained calls, policies, bodies | prepare, dispatch, cancel, finalize, release | Agent loop, ToolActor | cancellation against delivery, overlapping calls and refreshes | nothing runs unapproved, twice, or under a changing configuration |
| MCP client `mcpclient` | current and retired transports, tool list | connect, refresh, retry, call, close | external server, Tool runtime | a reconnection during a call, a change during a listing | calls go on where they began; nothing connected is forgotten |
| Projections `session/projection`, caches `session/projectioncache` | folds and their positions, checkpoints | register, fold, read, checkpoint, rebuild | Session log | a live tail against a read of history, a checkpoint of another log | a view equals the fold of a prefix of the log |
| Session title `session/title` | binding per creation, one generation | rename, refresh, generate, ensure, drain | Session log, model | a late generated title against a user's | the user's title wins |
| Compaction `compaction` | invocation, transaction, recovery | pressure, overflow, /compact, cancel, recover | Session, Agent loop, model, pruner | the log moves while the summary is made, lost replies | a compaction replaces exactly what it read |
| Subagents `subagent` | relationships, tasks, child lifetimes | create, configure, remove, restart, close, recover | Agent Registry, Session | a child starting while its parent closes, a crash between record and act | relationships are durable before they act |
| Approval, user questions | pending request, audit | ask, answer, cancel | API, tools | two answerers, closes | one answer, recorded before it takes effect |
| Commands `commands` | definitions, publications, executions | register, advertise, execute, cancel, close | Session log, handlers | a lost answer of a handler, a log lost between run and done | a handler is asked once, for a recorded run |
| Settings `settings` | saved revision, view, edits in order | edit, reset, notify, read, close | SQLite, Agent Registry, tool registry | two processes, uncertain commits | no edit is lost; what is shown was saved |
| Workspace `workspace` | entries, order, archive, members | create, rename, delete, move, attach | SQLite, Sessions, clients | failed writes, missing directories, restarts | memory, store, clients and members agree |
| LLM library `llm` | none (streams) | encode, decode | provider | partial streams | |
| API proxy `apiproxy` | connections, feeds, pending interactions, requests of a Session | subscribe, answer, prompt, edit, select, create | all of the above | order of events after a snapshot, clients too slow, requests that end early | no gap and no repeat in a feed; the selected model can read what is there |

`PROJECT.json` lists every component with its status, and the hazards of each at the
line where they bite.

## 2. Modules and runs

Each component has one module; `MC...` instantiates it. Action names are the
handlers' names. Histories (ghost variables) are marked as such where they are
declared; no guard reads them. Every bound is a constant, or a field of a setting,
with "bound" or "Max" in its comment and appears only in guards of environment steps
(faults, new requests, saves).

Two devices keep many questions in few runs:

* *Settings.* All modules but `SessionGrain`, `SessionRegistry`, `ToolCall` and
  `ToolReplacement` take their inputs and bounds from a constant `Settings`; a
  behaviour keeps to the one chosen in its initial state. A run explores several small
  instances, each large in another dimension, instead of one that is large in all.
* *Parts.* `MCReactLoop`, `MCServices`, `MCProgress`, `MCTools`, `MCToolsLiveness`,
  `MCRegistries` and `MCCompaction` hold components that do not share state; a variable
  `part` fixed by `Init` says which one moves. The others stand still, so the state
  count is the sum, not the product, and a property of one part (`part = ... => ...`)
  holds trivially only in the other parts' behaviours. Each part takes its share of the
  fairness under a guard on `part`.

A compound property is a conjunction of named parts; each part is stated, with the
code behaviour it is about, next to it in its module.

| Run | Modules | Shows | Bounds |
|---|---|---|---|
| `session_grain` | SessionGrain, DurableLog | acknowledged is durable, one history, sealed logs, one writer per creation, every parked request answered, refinement of DurableLog | 2 creations, 2 activations, commits up to a log of 2 events, 1 torn tail |
| `react_loop` | ReactLoop, Titles, Commands, Conversation | the log is readable, Turns settle, work is done once, preserved input waits; titles, commands and clients' requests are true | 2 messages + 1 fault or 1 command; 2 calls + 2 faults + 1 command; 2 messages over 2 Steps + 1 command; small settings of the others |
| `services` | ModelCall, Projection, ProjectionCache, ClientFeed, Workspaces, SessionQuery | a released call leaves no stream, the log describes the request, a cancelled request generates nothing more; folds, cold views, feeds, answers, Workspaces and searches are true | 2 requests with 2 of a fault, a time-out, a cancellation and a foreign write, or 3 chunks; 3 events, 2 registrations; 2 connections; 2 paths, 2 Sessions; 3 Sessions, 2 searches |
| `progress` | ReactLoop, ModelCall, Steward | accepted work settles, requests finish, cancellations are acknowledged; companions are kept and their changes and closes end | 2 Steps, one restored message; 3 edits, or 2 parents and a crash |
| `tools` | ToolCall, ToolReplacement, UserSettings, McpConnection | bodies run once, approved, never under a refresh; resources are owned; Snapshots serve; edits are not lost; connections are true | 2 calls; 3 tools, 3 failures, 2 time-outs; 2 processes, 3 edits; 2 reconnections |
| `tools_liveness` | ToolCall, ToolReplacement | calls are released, closes finish | the same, smaller |
| `agent_registry` | AgentRegistry | nothing is forgotten, dependency order, one executor, closes have a reason | parent and child, or a root with a Settings change and a lost loop; 2 callers |
| `registries` | SessionRegistry, AgentRegistry | one owner per SessionID, closed means gone, callers answered, closes end, Settings take effect | 2 creations, 2 callers, 2 faults |
| `compaction` | Compaction, Hooks, SystemPrompt | the history stays sound, reports are durable, compactions end; hooks and prompts are true | a Turn of up to 2 calls, 2 /compact, 2 crashes, 2 faults; 3 handlers, 3 calls; 2 definitions, 2 assemblies |
| `react_loop_clear`, `tool_replacement_refresh`, `agent_registry_configuration` | | disagreements, section 5 | |

### SessionGrain, DurableLog

`mem`, `durable`, `writing`, `flushes`, `closing` are the fields of `Grain`;
`opening` is its admission, `task` and `rest` the goroutines it started, which outlive
it; `grant` is the authority; `disk` the SQLite header, the rows a `Load` can read, and
whether a torn tail is behind them. `Commit` acknowledges from memory, one detached task
at a time appends the unwritten suffix with a compare-and-append, `Flush` and `Close`
are the acknowledgements of durability. `Deactivate` and `Crash` may come between any
two steps; a storage call may fail, or commit and report a failure.

A *torn tail* is a row that does not decode, directly behind the rows that do, as
`TestAdapterMarksAndRepairsOnlyATornTail` inserts it (`adapter_test.go:73`); nothing in
the code writes one, so `TailTorn` is an action of the environment, `MaxTears` times.
`Load` then returns the readable rows and a marker (`rows.go:81`). A write that must
reconcile reports the marker as an error (`grain_persistence.go:169`), an append collides
with the torn row's primary key, and a recovery repairs on the marker alone
(`grain_recovery.go:160`): `CommitRepair` deletes every event from the marker on
(`adapter.go:302`) and inserts the closers, in one transaction. The marker is from an
earlier transaction and no key refuses the deletion, so what keeps it from removing a row
written since is the revision read in between and the authority, which lets nobody else
write meanwhile. `WritersAreFixed` says that this holds, and so do `AckedIsDurable` and
the refinement: their rows are the readable ones, which no step removes, while the torn
tail is removed. Not modelled is damage to rows that were readable: in an open Turn the
code cuts the log there, and before the last `turn/end` it refuses the log
(`rows.go:96`, `rows.go:106`).

`DurableLog` states what a Session promises without any of this (commit, persist,
acknowledge, lose, repair), and `ImplementsDurableLog` is checked as a property under
the mapping log = the current history, stable = the stored rows, acked = the longest
acknowledged log. Two activations are what a stale task needs to meet a successor.
`MaxLen = 2` bounds the logs that commits make, the seed and its end-seed marker
included, and recovery adds closers and markers beyond it: enough for a suffix in flight
behind a durable prefix, and for an event committed behind a write in flight. One torn
tail meets every stage of a write, a recovery and a crash; `disk.cuts` counts the
removals, which together with the rows stands for the revision.

### SessionRegistry

One SessionID, two competing creations, two callers whose replies the Registry defers
(joining an opening or a close that is already under way), the Session Grain reduced
to what the Registry sees. Faults are lost activations, time-outs of the business
close and framework errors; two of them give a failed close, and its retry with a lost
activation in between. `OneOwner`, `AcknowledgedIsGone`, `FreeIdentityIsQuiet` and
`DeactivatesDrained` are the reasons the reservation exists.

### AgentRegistry

The directory (`reg.of[a]`: lifecycle, readiness, ledger), the opening and closing of
each Agent, its restart, and the callers. `held` is what the component owners really
hold and `loops` the AgentLoop activation at each address; the ledger is compared with
them (`NothingLeaks`, `DependenciesOutlive`, `AvailableIsComplete`, `OneExecutor`).
One handler is one step; a component's work, its answer and the message bringing it
back are separate, so that a close, a Settings notice or another caller falls between.
The liveness part creates each Agent once and leaves the rest to restarts: with a
second explicit creation after a failed restart the retained failure hides the ready
Agent (section 5), and `ConfigurationFollows` does not hold.

### ReactLoop

One `ReactLoopAgent` and the Grain that schedules it. `work.op` is the capability
request the Agent waits for; a delivery resumes it. Session requests stash ordinary
messages, so a command runs only while no Session request is unanswered, or between
an answer and its delivery. The model request is one operation, refined in
`ModelCall`; middleware decides to enter, reject or empty a message. The log is a
sequence of abstract events and `Restore` replays it. Two parts of its properties are
conditional, and say so: `KeptLogRestores` on every Cancel keeping the Inbox and no
lost acknowledgement (the run `react_loop_clear` shows why the first is needed), and
`CompletedTurnHeardItsInput` on hooks that do not empty messages and no lost
acknowledgement (the Inbox the Agent remembers is then behind its log).

### ModelCall

`ModelRequest` and its attempts, the ports, and the LLM client and Worker. Requests to
the Worker are a queue (`mail`), replies an unordered set; the client gives up after a
time-out while the reply may still arrive. Two requests and two attempts are enough
for a late reply of one call to meet the next; three chunks for a stream to be cut at
its first, middle and last.

### ToolReplacement

An Update applies a target to a Toolset with provision, commit, retire and abort
requests, each of which may outlive its time-out; `open` holds the resources really
constructed. Three tools give an unchanged, a replaced and a removed one in the same
Update.

### ToolCall

Two calls of one tool through preparation, policies, dispatch, execution, finalization
and release, with requests in any order, against one refresh and one fault. `bodies`
is what really executes. In `tools` the requests of the loop come in any order its
interface allows; `tools_liveness` drives them as the Agent loop does.
Execution middleware is modelled as what the server wires: it runs the body at most
once and reports what the body did. The interface (`pipeline.go`) would let a middleware
run it again or change its outcome. A call identifier is prepared once; the Runtime
would admit it again after its release, as a new call.

### Compaction

`session` is the log with its Surface and its flushed length, `agent` the Turn that
calls the hooks and the maintenance, `owner` the Compaction Grain: the invocation
(pressure before a Step, overflow after a request, /compact), its transaction and the
recovery of an attempt a crash left open. The Grain awaits one dependency at a time,
so `owner.ask` and `owner.answer` are its whole conversation; a request whose reply is
lost is sent again with the same proposal. `InspectLog` is the rule of
`compaction/invariant.go` for what may stand in a log; `HistoryIsSound` is that rule, that
every call keeps its result and that nothing but what a compaction read is replaced;
`CompactionIsTrue` that a reported success is durable, that an attempt has one owner
and that retries shrink; `CompactionSettles`, under fairness, that invocations end.
While a summary is made inside a Turn, nothing in the model changes the Surface. The
check of `transaction_completion.go` against such a change is part of `Admissible`, but
no run makes it refuse: that hazard is not covered.
Messages and results are priced 1 to 4 tokens against a threshold of 5, so that one
big result makes pressure and a compaction may or may not be enough.

### Hooks

`call` is the call of the middleware Grain: the position and phase of each handler,
the cause it ended with and what it still waits for; `mail` the requests and replies
under way in no order. Handlers run one around another, or one after another at the end
of a Turn. The handler of failed requests (`llm/retry`) reads the Session, commits the
retry fact, waits and asks for the next request, each in a step of its own.
`HooksAreTrue`: the facts of a Step are a history `retry.Inspect` accepts, a request
made by the handler was recorded first, the loop hears one result and only after every
handler let go, and no cancelled caller is forgotten.

### SystemPrompt

`layer` is the registry of shared definitions, `prompt` the Runtime of one Agent,
`inbox` its mailbox, `task` the evaluation of one captured prompt beside that mailbox,
`sub` the subscriber that follows the Tool Runtime's `catalog`. While a request is
outstanding other messages are stashed. `NamesAreOwned`, `VersionsAreTrue`,
`ToolsCatchUp` and `NobodyWaitsForNothing`: no name is defined twice whatever order
registrations and configurations come in, an assembled prompt is of a version that was
current while it was made, the last definitions reach the Runtime however notices and
reads overtake each other, and whoever waits is answered or has an answer under way.

### Steward

The relationships of one parent's Companion as events of the parent's log (`store`),
the Steward of the current parent lifetime and its one `entry`: the relationship, the
change that is being written, the child's start and close. `lives` is what the Agent
Registry was asked for, `slot` the provider's slot. Writes, starts and closes are
tasks, so an edit, a close or a crash falls between. `CompanionsAreKept`: changes fit
what they were decided on, what was reported is durable, no child starts before the
relationship that wants it is durable, one child at a time, none survives its Steward.
`StewardSettles`: edits, stops and activations end under the fairness of the tasks.

### Projection, ProjectionCache

`Projection` folds one log through registrations, commit notices and reads of the
history that a late registration lacks. A Unit's state is the sequence of the events
that changed it, so a skipped, repeated or reordered event is visible.
`ProjectionCache` is the checkpoint of a Session that is not open, its cold rebuild
from pages of a log that a writer appends to meanwhile, and the history page the API
pairs with it. A row is the fold of the first `next` events of the log `of`; a row over
a gap or over two logs is a `Mixture`, which `ColdViewsAreTrue` excludes. Three
settings exercise pages of two and of one event, a restart with another log under the
same identity, and Units whose version changes between checkpoint and read.

### ClientFeed

The subscriber that turns commit notices into frames, the broker with its bounded
deliveries, a connection's baseline and live frames, and the asking tool bodies with
the interaction gateway. `FeedIsTrue`: what a connection was shown continues where its
baseline ended, the queue it shows is the current one, and every interaction that
waits is shown. `AnswersAreTrue`: a body hears the answer that was accepted, and an
approval is committed to the log before the tool hears it. A connection that is too
slow is closed and opens again; capacity 1 makes that happen with two events.

### Workspaces

Commands on the registered directories, the Sessions accounted in them, the SQLite
store with failed writes, directories that go missing and restarts; a creation of a
Session in a Workspace spans three of the owner's commands (`flow`). Memory equals the
store except for what a failed write left unconfirmed (`seen.unconfirmed`), the store
can be loaded again, clients were told what memory holds, and a Session is a member of
the Workspace of its directory. `~seen.reused` names the exception of section 5.

### UserSettings

Two processes with one store. An edit is submitted against what its editor saw, waits
its turn, is checked against the tool registry and committed if the store still has the
revision the process holds; an uncertain commit is verified by reading. `NoLostEdit`
compares every committed edit with what its editor saw; `ViewsWereSaved` and
`NoticesFollow` compare what is shown and published with what was committed.

### Titles

The Title Grain (stashing while it asks the Session, not while the model works), the
worker, the subscriber and the registry entry that starts and stops them for each
creation of an Agent. `requests` is a history: every request with what it read and its
answer. A user's title is not replaced by a generated one, a generated title was made
of messages the log has, no request is forgotten, and a stopped component left nothing.

### Commands

The registry Grain with definitions, overrides and advertisements, the execution Grain
and its invocations, each of which resolves its command, commits its run, asks its
handler, checks what the handler said against the log and commits its done. A lost
answer is asked for again with the same identity; the handler is asked once. A
cancellation may come at any point. The log pairs every done with its run.

### Conversation

What clients ask of one Session: to create or adopt it, to be heard, to edit the Inbox
and to select a model. Prompts with images and selections take turns in the admission
queue, and any wait may end early while the change is still carried out (`posts`).
`ImagesAreReadable`: a selected model that cannot read images is not selected while the
Session or its Inbox has one, in the cases the code promises it.

### McpConnection

The Connection with its current and retired transports (`peers`), the Tool Runtime's
request (`task`), a reconnection beside it (`retry`) and calls. `NothingLeaks`: every
connected transport is held by the Connection or by the task that connects it, and a
closed Connection has freed all of them. `CallsGoOn`: a call ends on the transport it
began on, and installed tools have their Connection. `NewsIsKept`: a change of the
server's tools is applied, or known, or under way. `AnswersAreComplete`: a call is
answered with a result the server completed, by a transport that offered the tool.

### SessionQuery

The Query actor (`query`) takes one request after another and reads its sources anew
for each: the stored headers page by page, then the logs of the Sessions that are
open, preferring a live log over the stored one. `index` is the derived full-text
index, brought up to date before it is searched, with the generation a page token
names. `searches` are the API's `session.search` calls, which page through the answers
for the Sessions the client may list and start again when the index moved under them.
Commits, closes, restarts, cancellations and failures come between any two reads.
`SearchesAreTrue` (with its parts in the module) says that what is shown comes from one
state of an index holding every event there was when the search was asked, ranked, and
only from Sessions that may be listed.

## 3. Proofs

TLC checks small instances; the theorems here hold for every value of the constants.
Each component has its proofs in a module of its own, and each property below is one
that a run checks too.

| Module | Theorems | Of |
|---|---|---|
| SessionGrainProofs | the lemmas of the next: `IInv` action by action | any creations, seeds, plans, lengths, torn tails |
| SessionGrainHistory | `TypeCorrect`, `AcknowledgedIsDurable`, `DurableIsStored`, `NoAbandonedWaiter`, `ClosedLogIsSealed`, `StorageOnlyGrows`, `StorageTellsOneHistory`, `WritersStayFixed`, `GrainImplementsDurableLog` (from `HistoryInvariance`) | the same |
| SessionRegistryProofs | `RegistryOwnsSessions` (from `RegistryInvariance`) | any creations, callers, activations, faults |
| ToolCallProofs | `CallsRunOnceApproved`, `CallResultsAreTrue` (from `CallInvariance`) | any calls, faults, refreshes |
| ModelCallProofs | `NoStreamIsLeft`, `LogTellsTheAnswer`, `CancelledOpensNothing` (from `RequestInvariance`) | any configurations, requests, attempts, chunks, faults, time-outs |
| AgentRegistryProofs | `ResourcesStayListed` (from `ListedInvariance`) | any tree of Agents, components, Settings, callers, faults |
| AgentRegistryNesting | `LifetimesStayNested`, `ClosesStayMeant` (from `NestingInvariance`) | any forest of Agents, otherwise the same |
| PrefixLemmas | facts about prefixes, concatenation and removal in sequences | |

The invariants were found by letting TLC check each candidate on the runs' instances
before it was proved; the names below are the definitions.

**SessionGrain.** `AckedIsDurable` is not inductive. What is acknowledged was durable
for the activation that acknowledged it; that it is stored follows from `LogInv` (the
durable prefix is a prefix of the stored rows and the header is this owner's); that
`durable` may advance when a task reports success follows from `TaskInv` (a task that
succeeded has written the log it was started with, up to the point it was started at,
if the header still was its own) and `WriterInv` (the task in flight belongs to this
activation and to a prefix of this log); `RestInv` does the same for what a recovery
loads, and `PhaseInv` keeps the phases of the Grain apart, so that e.g. no orphan of an
earlier activation is taken for the current writer. `IInv` is their conjunction with the
properties themselves; there is one lemma per action, and the theorems combine them.
`IInv` alone is not inductive, because `CommitRepair` deletes: it is preserved as long as
behind the marker of a repair there is nothing but the torn tail (`TailInv`).

**One history.** `IInv` does not say that nobody else writes the same rows. That rests
on the authority, and `HInv` adds it, and `TailInv`, to `IInv`; `HInv` is inductive
(`HistoryInvariance`), and all theorems about the Grain follow from it. The holder of the registration is the
only activation that ever installed its creation (`HoldInv`), storage calls run for the
holder only and never for a drained creation (`BusyInv`), a registration is released
only when its work is done (`GrantInv`), a header is that of an installed creation
(`HeaderInv`). With one writer, what was last written or read is all that is stored
(`StoreInv`), which is what `OneHistory` needs, an append continues exactly the stored
rows, and what `StorageOnlyGrows` needs, a repair deletes the torn tail and no row
written since its marker was read (`TailInv`, lemma `RepairExtends`). Without `BusyInv`
an append of a former activation could be in flight beside the present one: only the
compare-and-append would be left, and no key at all against the deletion.

**Refinement.** `GrainImplementsDurableLog` maps the initial state to an initial state
of `DurableLog` and each action to one of its steps or to a stutter: an append that was
stored is a `Persist` whether or not its success was reported, a teardown or a crash is a
`Lose` back to what is stored, and an acknowledgement extends what is acknowledged by
something stable. The steps need `HInv`: an append of somebody else would be no step of
`DurableLog` at all.

**SessionRegistry.** `RegistryInv` follows the conversation. `RecordInv`: the reservation
and the lifecycle record belong together, and a record without work has nobody waiting.
`OpeningInv`: an initialization in flight is of the present, unretired reservation.
`GrainInv`: a Grain that holds a log is the one that was granted. `CloseInv`: each
business close in flight is of the present or of an acknowledged creation (`CloseFits`),
closes are taken in the order of their attempts (`InOrder`), and the awaited one is the
last (`AwaitedIsLast`). These three are what makes a late answer harmless: an answer that
arrives after its attempt timed out is of an attempt before the awaited one, and what it
confirms of the present creation is true. `HistoryInv` remembers who ever opened what.

**ToolCall.** What a call's record allows by itself (`CallOK`: where its task stands,
what was decided, whether the body ran, what the outcomes say of it) is separate from
what it says of the ToolActor and the Runtime (`CallFits`, `RuntimeOK`). A handler
changes one record, so `CallOK` is proved for that record and framed for the others; the
relation between a body that still runs and a record that already gave up on it
(`r.failure`) is in `CallFits`.

**ModelCall.** `RequestOK` is about the request alone: a call is the current attempt's,
held from the moment its generation is asked for until its close is confirmed, and
beside cancellations one request is unanswered, that of the present phase. `LogFits`
relates it to the log: what was recorded describes the attempt under way. `WorkerFits`
relates it to messages and Worker: an identity in use anywhere is of one request
(`TokensFit`), only the call that is held may have a stream, opened once (`StreamsFit`),
and after a failed finish a stream has nothing but its end (`FinishFits`; without it a
late chunk could follow the failure into a message). The handlers are functions of the
request, nested several deep; `Good(v, w, log)` says that `w` is a proper continuation of
`v`, each handler is shown to give one, and `AgentStep` shows once that a proper
continuation, whatever handler made it, leaves messages and Worker as they must be.
`WorkerStep` does the same from the Worker's side. That `CHOOSE` finds a fresh identity
is a lemma too: what is in use is finite. `History` (chunks follow their header,
messages are what streamed, one per request) needs only that the log grows as
`MayAppend` says.

**AgentRegistry.** `NothingLeaks` and `AvailableIsComplete` need each other's reasons.
`Sound` is about one lifetime: it waits for one component at a time and never while a
release is asked for, what it waits for is already on its list, and the Session is the
first component. `Holding` relates it to what the owners hold: all of it listed, all that
is ready held, and nothing held that the last answer calls refused or released; so
striking a resource off after a confirmed release, or after the Session Registry refused,
forgets nothing. `Within` bounds lifetimes: callers may create only so many, and each
replacement is asked for by a revision newer than the one it replaces, so that drawing
another identity for it stays in type. A handler is a composition of functions on the
Registry's memory, so the lemmas are of the form "`Kept` before, `Kept` after" for each
function, and a step is a line or two above them. That `NextRelease` and `NextComponent`
exist at all (a smallest priority, a first component that is not ready) is proved from
the release order and the declared components.

**Nesting.** `LifetimesNest` and `ClosesAreMeant` relate several Agents, so `NestedInv`
adds to `ListedInv` what one Agent needs of others. `Ordered` is about one lifetime: a
user is held beside what it uses (`Beside`), which holds after an acquisition because
what starts late starts after the Session, the tools and the prompt (`Starting`), and
after a release because nothing it owns had to go first (`Releasing`); the AgentLoop that
executes for it is on its list until it is released (`Executing`). `Inside` relates a
registered child to its parent: the parent that admitted it is still that lifetime,
holds what they share, and releases none of it; the release order puts a child before
them, and a child begins only under a published parent, which holds them all.
`Meant` follows a replacement from the close it sends: it belongs to a root, its lifetime
was closed by nobody else, and a close that is still on its way either is the
replacement's own, or somebody asked for it too, or its lifetime is gone. `Reason` keeps
why a closing lifetime closes, and is not lost when its replacement moves on, because a
replacement forgets what it replaces only after that is closed. `Settles` says that
between two handlers no start waits for nothing and what was asked to close closes; a
handler may leave it open for its own Agent until it ends, which is the second parameter
of `Tidy`. The lemmas follow the functions of which a handler is composed, as above.

**Assumptions.** Only those named in the modules, which TLC evaluates in every run:
`ConstantsAssumption` (SessionGrain: the absent value is no creation, seeds and plans are
sequences of event kinds, bounds are natural numbers), `RegistryAssumption`
(SessionRegistry: bounds are natural numbers, the absent creation is none),
`BoundsAssumption` (ToolCall) and `SettingsAssumption` (ModelCall: bounds are natural
numbers), `RegistryAssumption` (AgentRegistry: parents are Agents or none, requests are of
callers about Agents, bounds are natural numbers, at least one revision of the Settings
is configured) and `ForestAssumption` (AgentRegistry: parents form a forest, so that
`Ancestors` is what its definition says and nobody is its own ancestor; whoever creates a
child names an Agent that exists).

**Model-checked only.** Every liveness property: liveness under fairness, and `ENABLED`,
are out of the prover's reach. The safety of ReactLoop (its central property is that a
recursive replay of the log succeeds, which is induction over data), and the safety of
the smaller modules (Compaction, Hooks, SystemPrompt, Titles, Commands, Conversation,
Projection, ProjectionCache, ClientFeed, Workspaces, Steward, ToolReplacement,
UserSettings, McpConnection, SessionQuery), each of which TLC explores in full for its
settings.

## 4. Fairness

A goroutine that was started runs until its call returns, a message that was sent is
delivered (GoAkt mailboxes drop nothing while both ends live), and an owner answers
what it was asked: weak fairness of tasks, completions, deliveries and answers, never
of a caller's decision, a fault, a time-out or a save. Further assumptions, each where
it is declared:

* ToolReplacement and AgentRegistry: whoever closes asks again until it succeeds.
  `internal/server/agents.go` says that storage must not stop before; the strong
  fairness there is of the repeated request, not of its success.
* ToolCall: the Agent loop dispatches a prepared call, finalizes one that was
  dispatched, and releases both (`agentloop/internal/toolbatch`).
* Steward: tasks return and their results are handled; `Stop` is fair only while the
  Steward shuts down, which its provider repeats.
* Compaction: the Agent, the Session and the Grain take the messages they owe an answer
  to; a request whose reply was lost is sent again, and losses are bounded by `faults`.

## 5. Where the code and its documents disagree

Each of these runs checks a sentence of a document or comment, and TLC finds it
violated by what the code does; `PROJECT.json` quotes the lines.

| Run | What happens |
|---|---|
| `react_loop_clear` | a Cancel that clears the Inbox prepares its splices before the worker acknowledges and writes them after it; a Remove in between makes them stale, and the log no longer replays |
| `tool_replacement_refresh` | an Update whose release failed once is never resumed by a refresh; the Runtime has no Snapshot until it is closed |
| `agent_registry_configuration` | a creation that fails takes in a Settings revision and so silences the notice that would have replaced another root |

Observed while modelling, kept in the modules as the code has them, and without a run
of their own:

* a tool that returns context messages while the loop drains leaves the Agent with
  a call it can neither continue nor release (`agentloop/agent_tools.go`);
* a command can run between the answer of a Session commit and its delivery to the
  Agent, with the Inbox of before the commit (`agentloop/actor/services.go`);
* a call that the LLM Worker no longer knows is never confirmed closed, so the model
  request that owns it waits for a confirmation that cannot come (`llm/actor/worker.go`):
  the liveness part of `ModelCall` therefore has no expired requests;
* a cancellation during the lookup of a ToolActor leaves the call unconfirmed for good
  (`tools/runtime/actor/bodies.go`);
* a retained failure of a replacement answers `Find` although a later creation is
  ready (`agent/registry/grain_find.go`), and a lifetime whose AgentLoop activation was
  lost cannot be released by asking again (`agentloop/actor/grain_close.go`): no
  AgentLoop is lost in the liveness part.
* System prompt: a Runtime that starts without a configuration of its own keeps the
  process's configuration of that moment (`systemprompt/actor/runtime_configuration.go:84`),
  so `ApplyBaseline` does not reach a running Agent, although
  `systemprompt/actor/client.go:129` says the shared configuration is consumed at
  subsequent Turn boundaries. `CloseRuntime` does not look at an initialization under way;
  only its caller's order keeps a closed Runtime from being installed again.
* MCP: after a subscription ended, a refresh keeps the dead Connection in `servers`
  (`tools/runtime/actor/connections.go:58`) although it closes it, so every later
  RetryConnection fails with "connection is unavailable". A failing close of a transport
  is remembered (`closeErr`), so one failure makes every later close fail.
* Hooks: a stopped middleware Grain leaves handlers working; their next invocation is
  refused, and a late retry fact is refused because its Step is over.
* Conversation: an image the Turn has claimed but not written is neither pending nor in
  the derived messages, so a text-only model can be selected
  (`apiproxy/session/models.go:109`; the property excludes exactly these moments). A
  request that timed out can still be carried out after its place in the queue is free.
* Event feed: an event whose queue read fails is logged and skipped. At the close of the
  server a body cancelled after its answer was accepted hears "cancelled".
* Compaction: `CompleteTransaction` goes back to measuring without looking at a
  cancellation (`compaction/basic/compaction.go:289`); an admission or release of
  maintenance that is never confirmed leaves the owner busy, and its Close refused.
* Projections: a read that overtakes pending notices swallows their ChangeNotice, and a
  late fold reports no changes for what it caught up with. A cached Snapshot may hold
  values of different cuts, labelled with the lowest.
* Workspaces: a Session whose directory is missing at the start is pruned durably by the
  next update of its Workspace, also when it was attached in between
  (`workspace/registry.go:466`); an identity that is lost before its first store and
  created again elsewhere is stored in two Workspaces, which the next start refuses
  (`seen.reused`).
* Session query: `session.list` adds the open Sessions to page one only but computes
  which are open for every page, so a Session that opens between two pages is missed and
  one that closes in between is listed twice (`apiproxy/session`). An event cursor uses
  the generation of the Session's row, which starts again at 1 when the row is made
  anew. That an answer belongs to its request rests on GoAkt's `Unstash` delivering the
  stashed request before those queued behind it, which is assumed.
* Settings: after an uncertain commit that could not be verified the old view is shown,
  and submitting the old value is answered as unchanged although the store holds the
  new one.
* Titles: a refresh can be answered as superseded by a notice it has already seen; a
  second prompt cancels the generation of the first and is not eligible itself in
  first-prompt mode.
* Commands: a handler that stays unconfirmed, or a refused done, keeps its invocation,
  so Close is refused; a default that replaced an advertisement and was withdrawn leaves
  the advertisement unresolvable.

## 6. Not modelled

Encodings, prompts, provider wire formats, SQL, HTTP, files and images are data to
every property here. The GoAkt framework is external: its mailboxes are queues or sets
of messages, its activations are identities, and what it may lose is stated by the
actions named `...Lost`, `Deactivate`, `Crash` and `Timeout`.

Without a module: the visible context of a prompt and the token meter (functions of a
log or a text without state of their own), the LLM adapters and their configuration,
the bodies of the bundled tools, Agent messages and the Session vocabulary (values and
codecs), credentials and attachments (one owner, files),
JSON-RPC framing, assembly and shutdown of the server beyond `closeAgents`.

Left out of modelled components: of the exact queries over one Session, the reads by
sequence, lineage and `SearchEvents` (reads without state; the last is not wired). What
`exact.go` derives from a log, the replacement and the placement of each event and the
chain `TraceEvent` follows, is modelled: the full-text index derives the same in SQL,
and the two are compared. Also left out: restarts of managed children and deactivation of the
Agent Registry; one-shot children, the child policy and messages between Agents
(`subagent`), which nothing in the server imports yet or which only route; inspection
and migration of stores; parsing and merging of Settings; registration of middleware
handlers; translation of frames in the API. Operations that the server never calls but
tests do (title Refresh, command Register, projection Subscriber, MCP Drain) are
modelled where the component they belong to is, except Drain and Resume of an MCP
Connection.

Components are modelled one by one, each with its neighbours as an environment that may
do whatever their module's contract allows. Composed are SessionGrain with its
authority, ReactLoop with the Grain that runs it, ToolCall with the refresh of its
Runtime, Compaction with the Session and the Agent that call it, ClientFeed with the
interactions of tools, Titles and Commands with the owners of their components.

## 7. Plan

Written so far, in this order: SessionGrain with DurableLog and its proofs, ReactLoop,
ModelCall, ToolReplacement, ToolCall, SessionRegistry, AgentRegistry; then Compaction,
Steward, Projection, ProjectionCache, ClientFeed, Workspaces, UserSettings, Titles,
Commands, Conversation, McpConnection, Hooks, SystemPrompt, SessionQuery; then the proofs
about SessionGrain's history, ToolCall, SessionRegistry, ModelCall, AgentRegistry and its
nesting.

Next:

1. Theorems: `NoLostEdit` of UserSettings, the parts of ReactLoop's invariants that need
   no replay.
2. Pure algorithms against a reference: visible context, retry schedules.
3. Subagents beyond the Companion, once the server uses them.
