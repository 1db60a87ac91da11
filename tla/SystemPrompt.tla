---------------------------- MODULE SystemPrompt ----------------------------
(***************************************************************************)
(* The system prompt of one Agent: the registry that owns the shared       *)
(* definitions, the Runtime that combines them with the Agent's own        *)
(* configuration, sections and tools and assembles one prompt at a time    *)
(* beside its mailbox, and the subscriber that keeps its tools current     *)
(* (systemprompt, systemprompt/actor).                                     *)
(***************************************************************************)
EXTENDS Integers, Sequences, FiniteSets, SequencesExt

CONSTANTS
  Settings   \* bounds of the behaviours, one after another:
             \*   defs      the definitions that may be registered
             \*   configs   configurations, the first one is the process's
             \*   own       the Agent's: its sections, and its configuration if it has one
             \*   catalogs  what the Agent's tools may be
             \*   changes, updates, assemblies, subscribers, faults, closes   how often
             \*             each may happen

VARIABLES
  layer,    \* the registry: version, configuration, registrations
  prompt,   \* the Runtime Grain
  inbox,    \* the mailbox of the Runtime
  task,     \* the evaluation of one captured prompt
  catalog,  \* the Tool Runtime's definitions, which the topic announces
  sub,      \* the subscriber to that topic
  turns,    \* the Agent: what it waits for and what it was told
  quota     \* the setting, and how much of it is used

promptVars == <<layer, prompt, inbox, task, catalog, sub, turns, quota>>

None == "none"
Setting == Settings[quota.of]
Spends(what) == quota.n[what] < Setting[what] /\ quota' = [quota EXCEPT !.n[what] = @ + 1]

----------------------------------------------------------------------------
(* Definitions (layer.go, store.go, snapshot.go, assembly.go).  One is     *)
(* [kind, name, complete, needs], needs the variable its text refers to.   *)

Section(name) == [kind |-> "section", name |-> name, complete |-> FALSE, needs |-> None]
Baseline(config) ==
  {Section("persona")} \cup (IF config.identity THEN {Section("identity")} ELSE {})
Clashes(d, e) == d.kind = e.kind /\ d.name = e.name
Names(defs, kind) == {d.name : d \in {e \in defs : e.kind = kind}}
Registered(l) == {l.entries[i] : i \in DOMAIN l.entries}

(* A registration is refused beside one of its name and beside the         *)
(* configuration's own sections.                                           *)
MayRegister(l, d) == \A e \in Registered(l) \cup Baseline(l.config) : ~Clashes(d, e)
MayConfigure(root, config) == Names(Baseline(config), "section") \cap Names(root, "section") = {}

Capture(l) == [version |-> l.version, config |-> l.config, root |-> Registered(l)]

(* The definitions of a captured prompt, the inner layer last.             *)
Layers(p) == <<Baseline(p.config), p.root, Setting.own.sections>>
Visible(p, kind) ==
  UNION {{d \in Layers(p)[i] : d.kind = kind /\ \A j \in (i + 1)..3 : \A e \in Layers(p)[j] : ~Clashes(d, e)} :
           i \in 1..3}
Contexts(p) ==
  IF ~p.config.context \/ (\E d \in p.root : d.kind = "suppressor") THEN {} ELSE Visible(p, "context")
Texts(p) == Visible(p, "section") \cup Contexts(p)
Whole(p) == {d \in Visible(p, "section") : d.complete}

Variables(p) == {d \in p.root : d.kind = "variable"}
(* The configured order may name known tools only.                         *)
Orders(p) == p.config.order \subseteq p.tools.known

Failed == [ok |-> FALSE, texts |-> {}, tools |-> {}, version |-> 0]
(* One complete section replaces the others.  Every text and variable that *)
(* is asked for must resolve, and every variable a text refers to exist.   *)
Assembled(p, failing) ==
  IF failing \cap (Texts(p) \cup Variables(p)) # {} \/ Cardinality(Whole(p)) > 1 \/ ~Orders(p)
  THEN Failed
  ELSE [ok |-> TRUE, version |-> p.version, tools |-> p.tools.shown,
        texts |-> IF Whole(p) = {} THEN Texts(p) ELSE Whole(p) \cup Contexts(p)]
Rendered(p, texts) == \A d \in texts : d.needs = None \/ d.needs \in Names(Variables(p), "variable")

----------------------------------------------------------------------------

NoTask == [id |-> 0, of |-> Failed, at |-> None, cancelled |-> FALSE, heard |-> Failed]
NoTools == [number |-> 0, known |-> {}, shown |-> {}]
Empty == [version |-> 0, config |-> Setting.configs[1], root |-> {}, tools |-> NoTools]

Init ==
  /\ quota \in [of : DOMAIN Settings,
                n : {[changes |-> 0, updates |-> 0, assemblies |-> 0, subscribers |-> 0, faults |-> 0, closes |-> 0]}]
  /\ layer = [version |-> 1, config |-> Setting.configs[1], entries |-> <<>>, given |-> 0,
              past |-> <<[config |-> Setting.configs[1], root |-> {}]>>]
  /\ prompt = [at |-> "new", has |-> Empty, asks |-> None, input |-> Empty, closing |-> FALSE]
  /\ inbox = <<>> /\ task = NoTask
  /\ catalog \in {[number |-> 1, known |-> c, shown |-> c] : c \in Setting.catalogs}
  /\ sub = [at |-> "off", member |-> FALSE, pending |-> FALSE, stopping |-> FALSE, mail |-> <<>>,
            view |-> NoTools, ok |-> FALSE]
  /\ turns = [at |-> "creating", owed |-> {"initialize"}, prompts |-> {}, since |-> 1,
            heard |-> Failed, asked |-> 0]

(* The registry (grain.go, client.go).  A version names its content; the   *)
(* identity of a registration is never used again.                         *)

Versioned(l) ==
  [l EXCEPT !.version = @ + 1, !.past = Append(@, [config |-> l.config, root |-> Registered(l)])]

Register ==
  /\ Spends("changes")
  /\ \E d \in Setting.defs :
       /\ MayRegister(layer, d)
       /\ layer' = Versioned([layer EXCEPT !.given = @ + 1,
                                !.entries = [i \in DOMAIN @ \cup {layer.given + 1} |->
                                               IF i \in DOMAIN @ THEN @[i] ELSE d]])
  /\ UNCHANGED <<prompt, inbox, task, catalog, sub, turns>>

(* An identity that is not registered any more removes nothing.            *)
Unregister ==
  /\ Spends("changes")
  /\ \E i \in 1..layer.given :
       layer' = IF i \notin DOMAIN layer.entries THEN layer
                ELSE Versioned([layer EXCEPT !.entries = [j \in DOMAIN @ \ {i} |-> @[j]]])
  /\ UNCHANGED <<prompt, inbox, task, catalog, sub, turns>>

ApplyBaseline ==
  /\ Spends("changes")
  /\ \E config \in ToSet(Setting.configs) :
       /\ MayConfigure(Registered(layer), config)
       /\ layer' = Versioned([layer EXCEPT !.config = config])
  /\ UNCHANGED <<prompt, inbox, task, catalog, sub, turns>>

----------------------------------------------------------------------------
(* The Runtime (runtime_initialize.go, runtime_configuration.go,           *)
(* runtime_grain.go).  While a request of its own is under way, its        *)
(* mailbox waits.                                                          *)

Msg(kind, of, tools) == [kind |-> kind, of |-> of, tools |-> tools]
Free == prompt.asks = None /\ prompt.at \in {"new", "ready", "closed"}
Open == prompt.at = "ready" /\ ~prompt.closing
Answers(who) == [turns EXCEPT !.owed = @ \ {who}]
Configured(p, captured, config) ==
  [p EXCEPT !.version = captured.version, !.root = captured.root, !.config = config]

Initialize ==
  /\ Free /\ turns.at = "creating"
  /\ prompt' = [prompt EXCEPT !.asks = "prepare"] /\ turns' = [turns EXCEPT !.at = "created"]
  /\ UNCHANGED <<layer, inbox, task, catalog, sub, quota>>

(* The definitions of the registry, in the Agent's configuration.          *)
InitializeTools ==
  LET config == IF Setting.own.config = {} THEN layer.config ELSE CHOOSE c \in Setting.own.config : TRUE
  IN /\ prompt.asks = "prepare"
     /\ IF MayConfigure(Registered(layer), config)
        THEN prompt' = [prompt EXCEPT !.asks = "tools",
                                      !.input = Configured(@, Capture(layer), config)] /\ UNCHANGED turns
        ELSE prompt' = [prompt EXCEPT !.asks = None] /\ turns' = Answers("initialize")
     /\ UNCHANGED <<layer, inbox, task, catalog, sub, quota>>

FinishInitialization ==
  /\ prompt.asks = "tools" /\ turns' = Answers("initialize")
  /\ \/ /\ prompt' = [prompt EXCEPT !.asks = None, !.at = "ready",
                                    !.has = [prompt.input EXCEPT !.tools = catalog]]
        /\ UNCHANGED quota
     \/ Spends("faults") /\ prompt' = [prompt EXCEPT !.asks = None]
  /\ UNCHANGED <<layer, inbox, task, catalog, sub>>

(* A Turn begins: the tools are changed and announced, and their new       *)
(* definitions are carried to the Runtime, unless the Turn is cancelled.   *)
Configure ==
  /\ turns.at = "created" /\ "initialize" \notin turns.owed /\ "configure" \notin turns.owed
  /\ Spends("updates")
  /\ \E known \in Setting.catalogs, shown \in Setting.catalogs \cup {{}}, carried \in BOOLEAN :
       LET next == [number |-> catalog.number + 1, known |-> known, shown |-> shown]
       IN /\ shown \subseteq known /\ catalog' = next
          /\ IF carried
             THEN /\ inbox' = Append(inbox, Msg("configure", 0, next))
                  /\ turns' = [turns EXCEPT !.owed = @ \cup {"configure"}]
             ELSE UNCHANGED <<inbox, turns>>
  /\ sub' = IF sub.member THEN [sub EXCEPT !.mail = Append(@, "notice")] ELSE sub
  /\ UNCHANGED <<layer, prompt, task>>

First(kind) == inbox # <<>> /\ Head(inbox).kind = kind /\ Free /\ inbox' = Tail(inbox)

ApplyConfiguration ==
  /\ First("configure")
  /\ IF Open
     THEN prompt' = [prompt EXCEPT !.asks = "snapshot",
                                   !.input = [prompt.has EXCEPT !.tools = Head(inbox).tools]] /\ UNCHANGED turns
     ELSE turns' = Answers("configure") /\ UNCHANGED prompt
  /\ UNCHANGED <<layer, task, catalog, sub, quota>>

(* The registry's snapshot arrives.  Tools and definitions are installed   *)
(* together or not at all.                                                 *)
Adopt ==
  /\ prompt.asks = "snapshot"
  /\ \/ /\ MayConfigure(Registered(layer), prompt.has.config) /\ layer.version >= prompt.has.version
        /\ prompt' = [prompt EXCEPT !.asks = None,
                                    !.has = Configured(prompt.input, Capture(layer), @.config)]
        /\ turns' = [Answers("configure") EXCEPT !.since = layer.version]
        /\ UNCHANGED quota
     \/ /\ IF MayConfigure(Registered(layer), prompt.has.config) THEN Spends("faults") ELSE UNCHANGED quota
        /\ prompt' = [prompt EXCEPT !.asks = None] /\ turns' = Answers("configure")
  /\ UNCHANGED <<layer, inbox, task, catalog, sub>>

Ask ==
  /\ turns.at = "created" /\ "initialize" \notin turns.owed /\ Spends("assemblies")
  /\ turns' = [turns EXCEPT !.asked = @ + 1, !.prompts = @ \cup {turns.asked + 1}]
  /\ inbox' = Append(inbox, Msg("assemble", turns.asked + 1, NoTools))
  /\ UNCHANGED <<layer, prompt, task, catalog, sub>>

(* One assembly at a time, of what is installed now.                       *)
StartAssembly ==
  /\ First("assemble")
  /\ IF Open /\ task = NoTask
     THEN /\ task' = [NoTask EXCEPT !.id = Head(inbox).of, !.of = prompt.has, !.at = "running"]
          /\ UNCHANGED turns
     ELSE turns' = [turns EXCEPT !.prompts = @ \ {Head(inbox).of}] /\ UNCHANGED task
  /\ UNCHANGED <<layer, prompt, catalog, sub, quota>>

Evaluate ==
  /\ task.at = "running"
  /\ \/ /\ task' = [task EXCEPT !.at = "done", !.heard = IF task.cancelled THEN Failed ELSE Assembled(task.of, {})]
        /\ UNCHANGED quota
     \/ /\ Spends("faults")
        /\ \E d \in Setting.defs :
             task' = [task EXCEPT !.at = "done",
                                  !.heard = IF task.cancelled THEN Failed ELSE Assembled(task.of, {d})]
  /\ inbox' = Append(inbox, Msg("finished", task.id, NoTools))
  /\ UNCHANGED <<layer, prompt, catalog, sub, turns>>

Dropped(p) == [p EXCEPT !.at = "closed", !.has = Empty, !.closing = FALSE]
(* The answer of an assembly lets a waiting close end.                     *)
AssemblyFinished ==
  /\ First("finished") /\ task' = NoTask
  /\ turns' = [turns EXCEPT !.prompts = @ \ {task.id}, !.owed = IF prompt.closing THEN @ \ {"close"} ELSE @,
                            !.heard = [task.heard EXCEPT !.ok = @ /\ Rendered(task.of, task.heard.texts)]]
  /\ prompt' = IF prompt.closing THEN Dropped(prompt) ELSE prompt
  /\ UNCHANGED <<layer, catalog, sub, quota>>

CancelAssembly ==
  /\ Free /\ task.id > 0 /\ ~task.cancelled
  /\ task' = [task EXCEPT !.cancelled = TRUE]
  /\ UNCHANGED <<layer, prompt, inbox, catalog, sub, turns, quota>>

Close ==
  /\ turns.at = "created" /\ "initialize" \notin turns.owed /\ Spends("closes")
  /\ inbox' = Append(inbox, Msg("close", 0, NoTools))
  /\ turns' = [turns EXCEPT !.at = "closing", !.owed = @ \cup {"close"}]
  /\ UNCHANGED <<layer, prompt, task, catalog, sub>>

CloseRuntime ==
  /\ First("close")
  /\ IF task = NoTask
     THEN prompt' = Dropped(prompt) /\ turns' = Answers("close") /\ UNCHANGED task
     ELSE /\ prompt' = [prompt EXCEPT !.closing = TRUE] /\ task' = [task EXCEPT !.cancelled = TRUE]
          /\ UNCHANGED turns
  /\ UNCHANGED <<layer, catalog, sub, quota>>

(* A forced stop answers what the Runtime holds; what still waits in the   *)
(* mailbox is answered by the framework, and a late result is nobody's.    *)
Deactivate ==
  /\ prompt.at \in {"new", "ready"} /\ turns.at # "creating" /\ Spends("faults")
  /\ prompt' = [prompt EXCEPT !.at = "stopped", !.asks = None, !.has = Empty, !.closing = FALSE]
  /\ task' = NoTask /\ inbox' = <<>> /\ turns' = [turns EXCEPT !.owed = {}, !.prompts = {}, !.at = "stopped"]
  /\ sub' = IF sub.at = "applying" THEN [sub EXCEPT !.at = "refused"] ELSE sub
  /\ UNCHANGED <<layer, catalog>>

----------------------------------------------------------------------------
(* The subscriber (tools_subscriber.go, tools_subscriber_baseline.go).     *)

(* Variant: what is announced during a refresh is forgotten.               *)
RefreshOnce(s) == IF s.at = "idle" THEN [s EXCEPT !.at = "reading"] ELSE s
Refresh(s) == IF s.at = "idle" THEN [s EXCEPT !.at = "reading"] ELSE [s EXCEPT !.pending = TRUE]

Subscribe ==
  /\ sub.at = "off" /\ prompt.at = "ready" /\ Spends("subscribers")
  /\ sub' = [sub EXCEPT !.at = "idle", !.member = TRUE, !.mail = Append(@, "ack")]
  /\ UNCHANGED <<layer, prompt, inbox, task, catalog, turns>>

(* Membership is confirmed, or a change announced: read the definitions.   *)
Noticed ==
  /\ sub.mail # <<>>
  /\ sub' = [IF sub.stopping THEN sub ELSE Refresh(sub) EXCEPT !.mail = Tail(@)]
  /\ UNCHANGED <<layer, prompt, inbox, task, catalog, turns, quota>>

ReadDefinitions ==
  /\ sub.at = "reading"
  /\ \/ sub' = [sub EXCEPT !.at = "read", !.view = catalog] /\ UNCHANGED quota
     \/ Spends("faults") /\ sub' = [sub EXCEPT !.at = "refused"]
  /\ UNCHANGED <<layer, prompt, inbox, task, catalog, turns>>

Forward ==
  /\ sub.at = "read" /\ ~sub.stopping
  /\ IF prompt.at = "stopped"
     THEN sub' = [sub EXCEPT !.at = "refused"] /\ UNCHANGED inbox
     ELSE /\ sub' = [sub EXCEPT !.at = "applying"]
          /\ inbox' = Append(inbox, Msg("apply", 0, sub.view))
  /\ UNCHANGED <<layer, prompt, task, catalog, turns, quota>>

ApplyTools ==
  /\ First("apply")
  /\ prompt' = IF Open THEN [prompt EXCEPT !.has.tools = Head(inbox).tools] ELSE prompt
  /\ sub' = IF sub.at = "applying" THEN [sub EXCEPT !.at = IF Open THEN "applied" ELSE "refused"] ELSE sub
  /\ UNCHANGED <<layer, task, catalog, turns, quota>>

(* The request is given up; the Runtime may still carry it out.            *)
ForwardFails ==
  /\ sub.at = "applying" /\ Spends("faults")
  /\ sub' = [sub EXCEPT !.at = "refused"]
  /\ UNCHANGED <<layer, prompt, inbox, task, catalog, turns>>

FinishRefresh ==
  LET s == [sub EXCEPT !.at = "idle", !.ok = sub.at = "applied"]
  IN /\ sub.at \in {"applied", "refused"}
     /\ sub' = IF sub.pending /\ ~sub.stopping THEN Refresh([s EXCEPT !.pending = FALSE]) ELSE s
     /\ UNCHANGED <<layer, prompt, inbox, task, catalog, turns, quota>>

Unsubscribe ==
  /\ sub.at # "off" /\ ~sub.stopping /\ Spends("closes")
  /\ sub' = [sub EXCEPT !.stopping = TRUE, !.member = FALSE]
  /\ UNCHANGED <<layer, prompt, inbox, task, catalog, turns>>

Next ==
  \/ Register \/ Unregister \/ ApplyBaseline
  \/ Initialize \/ InitializeTools \/ FinishInitialization
  \/ Configure \/ ApplyConfiguration \/ Adopt
  \/ Ask \/ StartAssembly \/ Evaluate \/ AssemblyFinished \/ CancelAssembly
  \/ Close \/ CloseRuntime \/ Deactivate
  \/ Subscribe \/ Noticed \/ ReadDefinitions \/ Forward \/ ApplyTools \/ ForwardFails \/ FinishRefresh
  \/ Unsubscribe

Spec == Init /\ [][Next]_promptVars

----------------------------------------------------------------------------
(* Properties.                                                             *)

(* No two registrations share a name and none hides the configuration's    *)
(* own sections, in the registry and in every Runtime, whose configuration *)
(* is another one.                                                         *)
NamesAreOwned ==
  /\ \A i, j \in DOMAIN layer.entries : i # j => ~Clashes(layer.entries[i], layer.entries[j])
  /\ MayConfigure(Registered(layer), layer.config)
  /\ prompt.at = "ready" => MayConfigure(prompt.has.root, prompt.has.config)

(* What a version of the registry holds never changes, a Runtime's         *)
(* definitions are those of its version, and no version is older than one  *)
(* the Agent was told of.  A prompt is of one version, whatever was         *)
(* registered while it was assembled.                                      *)
VersionsAreTrue ==
  /\ layer.past[layer.version] = [config |-> layer.config, root |-> Registered(layer)]
  /\ prompt.at = "ready" =>
       /\ prompt.has.root = layer.past[prompt.has.version].root
       /\ prompt.has.version \in turns.since..layer.version
  /\ turns.heard.ok =>
       \A d \in turns.heard.texts \ Setting.own.sections :
         \/ d \in layer.past[turns.heard.version].root
         \/ d.name \in {"persona", "identity"}

(* Once everything announced is handled and the last refresh was applied,  *)
(* the Agent's tools are the Tool Runtime's, although refreshes and        *)
(* configurations overtake one another.                                    *)
ToolsCatchUp ==
  (sub.at = "idle" /\ sub.member /\ sub.mail = <<>> /\ sub.ok /\ prompt.at = "ready"
     /\ prompt.asks = None /\ inbox = <<>>)
  => prompt.has.tools = catalog

(* Whoever waits for the Runtime waits for something under way: its        *)
(* message is in the mailbox, or the Runtime works for it; a close waits   *)
(* for an assembly; and a closed Runtime shows nothing.                    *)
NobodyWaitsForNothing ==
  /\ turns.owed =
       {m.kind : m \in {n \in ToSet(inbox) : n.kind \in {"configure", "close"}}}
       \cup (CASE turns.at = "creating" \/ prompt.asks \in {"prepare", "tools"} -> {"initialize"}
               [] prompt.asks = "snapshot" -> {"configure"}
               [] OTHER -> {})
       \cup (IF prompt.closing THEN {"close"} ELSE {})
  /\ turns.prompts = {m.of : m \in {n \in ToSet(inbox) : n.kind = "assemble"}} \cup ({task.id} \ {0})
  /\ prompt.closing => task # NoTask /\ task.cancelled
  /\ prompt.at = "closed" => task = NoTask

(* The prompt of an Agent is true to its owners.                           *)
PromptsAreTrue == NamesAreOwned /\ VersionsAreTrue /\ ToolsCatchUp /\ NobodyWaitsForNothing
=============================================================================
