---------------------------- MODULE AgentRegistry ----------------------------
(***************************************************************************)
(* The Agent Registry: the business directory of Agents (agent/registry.go *)
(* and its components, resources and lifecycles) and the Grain that starts *)
(* their components one by one, releases them in dependency order, and     *)
(* replaces a root Agent when the saved Settings change (agent/registry).  *)
(*                                                                         *)
(* One mailbox owns all of it: every handler is one step on reg.  What     *)
(* runs outside (a component owner, an AgentLoop, the Settings owner, a    *)
(* storage task) is a step of its own, and so is the message that brings   *)
(* its result back.                                                        *)
(*                                                                         *)
(* Agents and their parents are fixed.  Root Agents take their             *)
(* configuration from the Settings owner, as the API server creates them;  *)
(* children carry their own (an unnamed child does not follow Settings).   *)
(***************************************************************************)
EXTENDS Integers, FiniteSets, Sequences, SequencesExt, FiniteSetsExt

CONSTANTS
  Agents,        \* Agent identities, each equal to its Session's
  NoAgent,       \* the parent of a root Agent
  Parent,        \* the parent of every Agent
  Callers,       \* requests whose reply the Registry may defer
  Commands,      \* whether the Agents own a command runtime
  Capabilities,  \* additional components of each Agent
  Configured,    \* the values of each Settings revision, the first one saved
  Settings       \* bounds; a behaviour keeps to one of them:
                 \*   creations  lifetimes of one Agent
                 \*   lost       AgentLoop activations lost by the framework
                 \*   faults     failing components, releases, reads and notices
                 \*   asks       who sends requests about which Agent

Ancestors[a \in Agents] ==
  IF Parent[a] = NoAgent THEN {} ELSE {Parent[a]} \cup Ancestors[Parent[a]]

ASSUME RegistryAssumption ==
  /\ NoAgent \notin Agents
  /\ Parent \in [Agents -> Agents \cup {NoAgent}]
  /\ Capabilities \in Nat
  /\ \A s \in Settings : /\ {s.creations, s.lost, s.faults} \subseteq Nat
                         /\ s.asks \subseteq Callers \X Agents
  /\ Commands \in BOOLEAN
  /\ Configured \in Seq(ToSet(Configured)) /\ Configured # <<>>

\* The parents form a forest: whoever creates a child names an Agent that exists.
ASSUME ForestAssumption ==
  /\ Ancestors = [a \in Agents |-> IF Parent[a] = NoAgent THEN {}
                                   ELSE {Parent[a]} \cup Ancestors[Parent[a]]]
  /\ \A a \in Agents : a \notin Ancestors[a]

Roots == {a \in Agents : Parent[a] = NoAgent}

VARIABLES
  reg,     \* the memory of the Registry Grain
  saved,   \* revision of the Settings owner
  notices, \* change notices on their way to the Registry, oldest first
  held,    \* resources the component owners really hold
  loops,   \* the AgentLoop activation at each Agent's address
  spent,   \* the setting, the lifetimes, lost activations and faults so far
  asked    \* lifetimes somebody asked to close, or found lost

vars == <<reg, saved, notices, held, loops, spent, asked>>

-----------------------------------------------------------------------------
(* Components and the resources they own.                                  *)

\* Each component needs the ones before it; the order is the one in which
\* NextComponent finds the first that is not ready.
Required ==
  <<<<"session", 0>>, <<"tools", 0>>, <<"prompt", 0>>, <<"model", 0>>, <<"agent", 0>>>>
    \o (IF Commands THEN <<<<"commands", 0>>>> ELSE <<>>)
    \o [i \in 1 .. Capabilities |-> <<"capability", i>>]

Components == ToSet(Required)

Owns(component) ==
  CASE component[1] = "session"  -> {<<"conversation", 0>>}
    [] component[1] = "tools"    -> {<<"tools", 0>>}
    [] component[1] = "prompt"   -> {<<"prompt", 0>>}
    [] component[1] = "model"    -> {}
    [] component[1] = "agent"    -> {<<"loop", 0>>}
    [] component[1] = "commands" -> {<<"commands", 0>>}
    [] OTHER                     -> {component}

\* Children close after the tools and the prompt they share with their parent.
ReleaseOrderChildrenLate ==
  <<"work", "capability", "commands", "execution", "tools", "prompt", "child",
    "conversation", "loop">>

ReleaseOrder ==
  <<"work", "capability", "child", "commands", "execution", "tools", "prompt",
    "conversation", "loop">>

Claimed == {<<"work", 0>>, <<"execution", 0>>, <<"loop", 0>>}
Resources == (UNION {Owns(c) : c \in Components}) \cup Claimed
Duties == Resources \cup {<<"child", a>> : a \in Agents}

Priority(kind) == CHOOSE i \in DOMAIN ReleaseOrder : ReleaseOrder[i] = kind

\* releaseBefore: capabilities close in descending order.  Children close in
\* the order of their names, here in any fixed one.
Before(left, right) ==
  \/ Priority(left[1]) < Priority(right[1])
  \/ left[1] = "capability" /\ right[1] = "capability" /\ left[2] > right[2]

Revisions == 1 .. Len(Configured)

-----------------------------------------------------------------------------
(* The initial state: an empty directory.                                  *)

\* wait: what the activation waits for; answer: how that stands.
NoOpening == [on |-> FALSE, wait |-> "none", component |-> <<"session", 0>>,
              answer |-> "none", read |-> 0, revision |-> 0]

\* stage: none, asked, joined (a child's close), ok, failed.
NoClosing == [on |-> FALSE, resource |-> <<"work", 0>>, stage |-> "none"]

\* of: the lifetime being replaced; stage "failed" retains the failure.
NoRestart == [stage |-> "none", of |-> 0]

NoAsk == [on |-> "none", agent |-> NoAgent, id |-> 0, got |-> "none"]

NewLife(a, life, id, parent) ==
  [life |-> life, failed |-> FALSE, ready |-> {}, owned |-> {},
   id |-> id, parent |-> parent, instance |-> 0,
   opening |-> NoOpening, closing |-> NoClosing]

Init ==
  /\ reg = [stopped |-> FALSE, seen |-> 0, observing |-> FALSE,
            of |-> [a \in Agents |-> NewLife(a, "absent", 0, 0)],
            restarts |-> [a \in Agents |-> NoRestart],
            selfCloses |-> {},
            calls |-> [c \in Callers |-> NoAsk]]
  /\ saved = 1
  /\ notices = <<>>
  /\ held = {}
  /\ loops = [a \in Agents |-> [instance |-> 1, creation |-> 0]]
  /\ spent \in [of : Settings, created : {[a \in Agents |-> 0]}, lost : {0}, faults : {0}]
  /\ asked = {}

Fault ==
  /\ spent.faults < spent.of.faults
  /\ spent' = [spent EXCEPT !.faults = @ + 1]

-----------------------------------------------------------------------------
(* The directory (agent/registry*.go).  w is a state of the Registry.      *)

Registered(w, a) == w.of[a].life \notin {"absent", "closed"}
Open(w, a) == w.of[a].life \in {"initializing", "available"}

Admitted(w, a) == ~w.stopped /\ \A b \in {a} \cup Ancestors[a] : Open(w, b)

Children(w, a) == {b \in Agents : Registered(w, b) /\ Parent[b] = a}

Unready(w, a) == {i \in DOMAIN Required : Required[i] \notin w.of[a].ready}
NextComponent(w, a) == Required[Min(Unready(w, a))]

Obligations(w, a) == w.of[a].owned \cup {<<"child", b>> : b \in Children(w, a)}
NextRelease(w, a) ==
  CHOOSE r \in Obligations(w, a) : \A other \in Obligations(w, a) : ~Before(other, r)

Current(w, a, id) == id # 0 /\ w.of[a].id = id /\ w.of[a].life # "closed"

BeginClose(w, a) == [w EXCEPT !.of[a].life = "closing"]

\* FailInitialization leaves an available Agent alone.
FailInitialization(w, a) ==
  IF w.of[a].life \in {"closed", "available"} THEN w
  ELSE [w EXCEPT !.of[a].failed = TRUE, !.of[a].life = "closing"]

-----------------------------------------------------------------------------
(* Replies.                                                                *)

Answer(w, who, got) ==
  [w EXCEPT !.calls = [c \in Callers |->
     IF c \in who THEN [NoAsk EXCEPT !.got = got] ELSE @[c]]]

Waiting(w, on, a) == {c \in Callers : w.calls[c].on = on /\ w.calls[c].agent = a}

Park(w, c, on, a, id) ==
  [w EXCEPT !.calls[c] = [on |-> on, agent |-> a, id |-> id, got |-> "none"]]

\* Who waits for the close of a: callers, the close of its parent, its restart.
AnswerClose(w, a, done) ==
  LET joined(p) == /\ w.of[p].closing.stage = "joined"
                   /\ w.of[p].closing.resource = <<"child", a>>
  IN [Answer(w, Waiting(w, "close", a), IF done THEN "closed" ELSE "refused") EXCEPT
       !.of = [p \in Agents |->
          IF joined(p) THEN [@[p] EXCEPT !.closing.stage = IF done THEN "ok" ELSE "failed"]
          ELSE @[p]],
       !.restarts[a].stage = IF @ # "joined" THEN @
                             ELSE IF done THEN "closed" ELSE "closeFailed"]

\* Who waits for the start of a: callers and, when it started it, its restart.
AnswerStart(w, a, ready) ==
  [Answer(w, Waiting(w, "start", a), IF ready THEN "ready" ELSE "refused") EXCEPT
     !.restarts[a].stage = IF @ # "creating" THEN @
                           ELSE IF ready THEN "created" ELSE "createFailed"]

-----------------------------------------------------------------------------
(* Closing (grain_close.go).                                               *)

FinishClose(w, a) ==
  AnswerClose([w EXCEPT !.of[a].life = "closed", !.of[a].closing = NoClosing,
                        !.of[a].opening = NoOpening],
              a, TRUE)

\* A start whose component still owes its answer resumes the close itself.
RunClose(w, a) ==
  IF w.of[a].opening.wait # "none" THEN w
  ELSE IF Obligations(w, a) = {} THEN FinishClose(w, a)
  ELSE [w EXCEPT !.of[a].closing = [@ EXCEPT !.resource = NextRelease(w, a), !.stage = "asked"]]

\* A second close of an Agent only joins the first, even when that one failed.
ScheduleCloseOnce(w, a) ==
  LET begun == [BeginClose(w, a) EXCEPT !.of[a].closing.on = TRUE]
  IN IF w.of[a].closing.on THEN begun ELSE RunClose(begun, a)

\* Waiting callers are parked before.
ScheduleClose(w, a) ==
  LET begun == [BeginClose(w, a) EXCEPT !.of[a].closing.on = TRUE]
  IN IF begun.of[a].closing.stage = "none" THEN RunClose(begun, a) ELSE begun

\* An explicit close ends the restart of the Agent and of its descendants;
\* a closed descendant is no longer found under its parent.
CancelRestarts(w, a) ==
  LET under == {b \in Agents : b = a \/ (a \in Ancestors[b] /\ Registered(w, b))}
  IN [Answer(w, UNION {Waiting(w, "restart", b) : b \in under}, "refused") EXCEPT
        !.restarts = [b \in Agents |-> IF b \in under THEN NoRestart ELSE @[b]]]

-----------------------------------------------------------------------------
(* Configuration restarts (grain_configuration.go).                        *)

\* The closes that restarts send the Registry itself are messages of their own.
RestartAgents(w, which) ==
  LET start == {a \in which : w.restarts[a].stage = "none"}
  IN [w EXCEPT
       !.restarts = [a \in Agents |-> IF a \in start
                       THEN [stage |-> "close", of |-> w.of[a].id] ELSE @[a]],
       !.selfCloses = @ \cup {<<a, w.of[a].id>> : a \in start}]

Outdated(w, a) ==
  /\ Registered(w, a)
  /\ w.of[a].opening.on /\ w.of[a].opening.revision # 0
  /\ Configured[w.of[a].opening.revision] # Configured[w.seen]

RestartChanged(w) ==
  IF w.seen = 0 THEN w
  ELSE RestartAgents(w, {a \in Agents : Outdated(w, a) /\ Admitted(w, a)})

FailRestart(w, a) ==
  Answer([w EXCEPT !.restarts[a].stage = "failed"], Waiting(w, "restart", a), "refused")

-----------------------------------------------------------------------------
(* Starting (grain_create.go).                                             *)

FinishCreation(w, a, failed) ==
  LET settled  == [w EXCEPT !.of[a].opening.wait = "none", !.of[a].opening.answer = "none"]
      bad      == failed \/ ~Admitted(w, a) \/ ~Open(w, a) \/ Unready(w, a) # {}
      ended    == IF bad THEN FailInitialization(settled, a)
                  ELSE [settled EXCEPT !.of[a].life = "available"]
      answered == AnswerStart(ended, a, ~bad)
      changed  == IF bad THEN answered ELSE RestartChanged(answered)
  IN IF changed.of[a].life = "closing" THEN ScheduleClose(changed, a) ELSE changed

\* AcquireComponent records the responsibility before the owner is asked.
RunCreation(w, a) ==
  IF ~Admitted(w, a) THEN FinishCreation(w, a, TRUE)
  ELSE IF Unready(w, a) = {} THEN FinishCreation(w, a, FALSE)
  ELSE LET component == NextComponent(w, a)
           waiting == [w.of[a].opening EXCEPT !.wait = "component", !.component = component,
                                             !.answer = "asked"]
       IN [w EXCEPT !.of[a].owned = @ \cup Owns(component), !.of[a].opening = waiting]

\* Roots read the Settings first; the observer is subscribed before they do.
PrepareCreation(w, a) ==
  IF a \in Roots
  THEN [w EXCEPT !.observing = TRUE, !.of[a].opening.wait = "settings",
                 !.of[a].opening.answer = "asked"]
  ELSE RunCreation(w, a)

ReserveRefused(w, a, id, parent) ==
  \/ w.stopped
  \/ w.of[a].life = "closed" /\ w.of[a].id = id
  \/ a \notin Roots /\ ~(Current(w, Parent[a], parent) /\ Admitted(w, Parent[a]))

Start(w, a, id, parent) ==
  PrepareCreation(
    [w EXCEPT !.of[a] = [NewLife(a, "initializing", id, parent) EXCEPT !.opening.on = TRUE]],
    a)

-----------------------------------------------------------------------------
(* Requests of callers: CreateAgent, FindAgent, CloseAgent.                *)

\* owner.ready
Ready(w, a) ==
  /\ w.of[a].life = "available" /\ Admitted(w, a)
  /\ w.of[a].opening.on /\ w.of[a].opening.wait = "none"

Verify(w, c, a) ==
  IF Ready(w, a) THEN Park(w, c, "verify", a, w.of[a].id) ELSE Answer(w, {c}, "refused")

\* reuseCreation: a repeated creation shares the start, or finds its result.
Reuse(w, c, a, id, parent) ==
  IF w.of[a].id # id \/ w.of[a].parent # parent \/ ~Admitted(w, a)
  THEN Answer(w, {c}, "refused")
  ELSE IF w.of[a].opening.wait = "none" THEN Verify(w, c, a)
  ELSE Park(w, c, "start", a, id)

CreateAgent(w, c, a, id, parent) ==
  IF Registered(w, a) THEN Reuse(w, c, a, id, parent)
  ELSE IF ReserveRefused(w, a, id, parent) THEN Answer(w, {c}, "refused")
  ELSE Start(Park(w, c, "start", a, id), a, id, parent)

\* createChildAgent: the parent must have finished its own start.
CreateChildAgent(w, c, a, id, parent) ==
  IF Current(w, Parent[a], parent) /\ Admitted(w, Parent[a]) /\
     w.of[Parent[a]].opening.on /\ w.of[Parent[a]].opening.wait = "none"
  THEN CreateAgent(w, c, a, id, parent)
  ELSE Answer(w, {c}, "refused")

\* FindAgent with WaitReady.
Resolve(w, c, a) ==
  IF w.restarts[a].stage = "failed" THEN Answer(w, {c}, "refused")
  ELSE IF w.restarts[a].stage # "none" THEN Park(w, c, "restart", a, 0)
  ELSE IF ~Registered(w, a) \/ w.of[a].opening.wait = "none" THEN Verify(w, c, a)
  ELSE IF Admitted(w, a) THEN Park(w, c, "start", a, w.of[a].id)
  ELSE Answer(w, {c}, "refused")

\* An explicit close leaves the replacement of the Agent running.
CancelNamedNever(w, a, id) == w

CancelNamed(w, a, id) == IF w.of[a].id = id THEN CancelRestarts(w, a) ELSE w

CloseAgent(w, c, a, id) ==
  IF w.of[a].id = id /\ w.of[a].life = "closed" THEN Answer(w, {c}, "closed")
  ELSE IF ~Current(w, a, id) THEN Answer(w, {c}, "refused")
  ELSE ScheduleClose(Park(w, c, "close", a, id), a)

Free(c) == reg.calls[c].on = "none"
Outside == <<saved, notices, held, loops>>

\* A caller names a fresh lifetime, or repeats the one it knows.
Identities(a) ==
  {id \in {reg.of[a].id} : id # 0} \cup
  (IF spent.created[a] < spent.of.creations THEN {spent.created[a] + 1} ELSE {})

Drawn(a, id) == spent' = [spent EXCEPT !.created[a] = IF id > @ THEN id ELSE @]

Create(c, a, id) ==
  /\ Free(c) /\ a \in Roots
  /\ reg' = CreateAgent(reg, c, a, id, 0)
  /\ Drawn(a, id)
  /\ UNCHANGED <<Outside, asked>>

CreateChild(c, a, id, parent) ==
  /\ Free(c) /\ a \notin Roots
  /\ reg' = CreateChildAgent(reg, c, a, id, parent)
  /\ Drawn(a, id)
  /\ UNCHANGED <<Outside, asked>>

Find(c, a, wait) ==
  /\ Free(c)
  /\ reg' = IF wait THEN Resolve(reg, c, a) ELSE Verify(reg, c, a)
  /\ UNCHANGED <<Outside, spent, asked>>

Close(c, a, id) ==
  /\ Free(c)
  /\ reg' = CloseAgent(CancelNamed(reg, a, id), c, a, id)
  /\ asked' = IF Current(reg, a, id) THEN asked \cup {<<a, id, "close">>} ELSE asked
  /\ UNCHANGED <<Outside, spent>>

StopAdmission ==
  /\ ~reg.stopped
  /\ reg' = [Answer(reg, {c \in Callers : reg.calls[c].on = "restart"}, "refused") EXCEPT
               !.stopped = TRUE,
               !.restarts = [a \in Agents |-> NoRestart]]
  /\ UNCHANGED <<Outside, spent, asked>>

\* The AgentLoop at the address answers for itself.
Executes(a, id) == loops[a] = [instance |-> reg.of[a].instance, creation |-> id]

VerifyAnswers(c) ==
  /\ reg.calls[c].on = "verify"
  /\ \/ /\ reg' = [reg EXCEPT !.calls[c].on =
                     IF Executes(reg.calls[c].agent, reg.calls[c].id) THEN "verified" ELSE "stale"]
        /\ UNCHANGED spent
     \/ Fault /\ reg' = [reg EXCEPT !.calls[c].on = "undelivered"]
  /\ UNCHANGED <<Outside, asked>>

\* A confirmed mismatch revokes admission; a failed delivery proves nothing.
Verified(c) ==
  LET a == reg.calls[c].agent
      current == Current(reg, a, reg.calls[c].id)
      stale == current /\ reg.calls[c].on = "stale"
      next == IF stale THEN BeginClose(reg, a) ELSE reg
  IN /\ reg.calls[c].on \in {"verified", "stale", "undelivered"}
     /\ reg' = Answer(next, {c},
                 IF current /\ reg.calls[c].on = "verified" /\ Ready(reg, a)
                 THEN "ready" ELSE "refused")
     /\ asked' = IF stale THEN asked \cup {<<a, reg.of[a].id, "lost">>} ELSE asked
     /\ UNCHANGED <<Outside, spent>>

-----------------------------------------------------------------------------
(* Starting: the Settings snapshot, then one component after the other.    *)

Save ==
  /\ saved < Len(Configured)
  /\ saved' = saved + 1
  /\ notices' = IF reg.observing THEN Append(notices, saved + 1) ELSE notices
  /\ UNCHANGED <<reg, held, loops, spent, asked>>

Opening(a) == reg.of[a].opening
Awaits(a, wait, answers) == Opening(a).wait = wait /\ Opening(a).answer \in answers
Lifetime(a) == reg.of[a].id

ReadSettings(a) ==
  /\ Awaits(a, "settings", {"asked"})
  /\ \/ /\ reg' = [reg EXCEPT !.of[a].opening.answer = "ok", !.of[a].opening.read = saved]
        /\ UNCHANGED spent
     \/ Fault /\ reg' = [reg EXCEPT !.of[a].opening.answer = "failed"]
  /\ UNCHANGED <<Outside, asked>>

\* configurationPrepared: an older snapshot than one already seen is read again.
ConfigurationPrepared(a) ==
  LET read == Opening(a).read
      settled == [reg EXCEPT !.of[a].opening.wait = "none", !.of[a].opening.answer = "none"]
      installed == [settled EXCEPT !.seen = read, !.of[a].opening.revision = read]
  IN /\ Awaits(a, "settings", {"ok", "failed"})
     /\ reg' = IF Opening(a).answer = "failed" \/ ~Admitted(reg, a)
               THEN FinishCreation(settled, a, TRUE)
               ELSE IF reg.seen > read THEN PrepareCreation(settled, a)
               ELSE RunCreation(installed, a)
     /\ UNCHANGED <<Outside, spent, asked>>

ChangeNotice ==
  /\ notices # <<>>
  /\ notices' = Tail(notices)
  /\ reg' = IF Head(notices) <= reg.seen THEN reg
            ELSE RestartChanged([reg EXCEPT !.seen = Head(notices)])
  /\ UNCHANGED <<saved, held, loops, spent, asked>>

Claiming == {"tools", "agent"}
Asking(a) == Opening(a).component[1]

\* The activation of the Tools Runtime or of the AgentLoop asks for authority
\* before it acquires anything.
Claim(a) ==
  LET allowed == /\ Admitted(reg, a)
                 /\ Asking(a) = "agent" => /\ loops[a].creation = 0
                                           /\ reg.of[a].instance \in {0, loops[a].instance}
      granted == [reg EXCEPT !.of[a].opening.answer = "claimed"]
  IN /\ Awaits(a, "component", {"asked"}) /\ Asking(a) \in Claiming
     /\ reg' = IF ~allowed THEN [reg EXCEPT !.of[a].opening.answer = "failed"]
               ELSE IF Asking(a) = "tools" THEN granted
               ELSE [granted EXCEPT !.of[a].owned = @ \cup Claimed,
                                    !.of[a].instance = loops[a].instance]
     /\ UNCHANGED <<Outside, spent, asked>>

Holds(a, resources) == held \cup {<<a, Lifetime(a), r>> : r \in resources}
Drops(a, resources) == held \ {<<a, Lifetime(a), r>> : r \in resources}

Acquired(a) == IF Asking(a) = "agent" THEN Claimed ELSE Owns(Opening(a).component)

Acquire(a) ==
  /\ held' = Holds(a, Acquired(a))
  /\ loops' = IF Asking(a) = "agent" THEN [loops EXCEPT ![a].creation = Lifetime(a)] ELSE loops

\* The owner answers, well or not; one that fails may have acquired or not, and
\* only the Session Registry says that it refused.
ComponentAnswers(a) ==
  /\ Awaits(a, "component", {IF Asking(a) \in Claiming THEN "claimed" ELSE "asked"})
  /\ \E answer \in {"ok", "failed", "unowned"} :
       /\ answer = "unowned" => Asking(a) = "session"
       /\ reg' = [reg EXCEPT !.of[a].opening.answer = answer]
       /\ IF answer = "ok" THEN UNCHANGED spent ELSE Fault
       /\ \/ Acquire(a) /\ answer # "unowned"
          \/ answer # "ok" /\ (answer = "failed" => Asking(a) # "agent") /\ UNCHANGED <<held, loops>>
  /\ UNCHANGED <<saved, notices, asked>>

\* Every failed component is taken to own nothing.
StartupResultDrops(a) ==
  LET answer == Opening(a).answer
      component == Opening(a).component
      settled == [reg EXCEPT !.of[a].opening.wait = "none", !.of[a].opening.answer = "none",
                    !.of[a].owned = IF answer # "ok" THEN @ \ Owns(component) ELSE @]
  IN /\ Awaits(a, "component", {"ok", "failed", "unowned"})
     /\ reg' = IF answer = "ok" /\ Admitted(reg, a)
               THEN RunCreation([settled EXCEPT !.of[a].ready = @ \cup {component}], a)
               ELSE FinishCreation(settled, a, TRUE)
     /\ UNCHANGED <<Outside, spent, asked>>

\* handleStartupResult: a failure keeps the responsibility, unless it was refused.
StartupResult(a) ==
  LET answer == Opening(a).answer
      component == Opening(a).component
      settled == [reg EXCEPT !.of[a].opening.wait = "none", !.of[a].opening.answer = "none",
                    !.of[a].owned = IF answer = "unowned" THEN @ \ Owns(component) ELSE @]
  IN /\ Awaits(a, "component", {"ok", "failed", "unowned"})
     /\ reg' = IF answer = "ok" /\ Admitted(reg, a)
               THEN RunCreation([settled EXCEPT !.of[a].ready = @ \cup {component}], a)
               ELSE FinishCreation(settled, a, TRUE)
     /\ UNCHANGED <<Outside, spent, asked>>

-----------------------------------------------------------------------------
(* Closing: one resource after the other.                                  *)

Closing(a) == reg.of[a].closing
Releases(a, kinds) == Closing(a).stage = "asked" /\ Closing(a).resource[1] \in kinds

Released(a, ok) == [reg EXCEPT !.of[a].closing.stage = IF ok THEN "ok" ELSE "failed"]

Fresh(a) == [loops EXCEPT ![a] = [instance |-> @.instance + 1, creation |-> 0]]

\* The AgentLoop settles its work and closes its resources only for the
\* lifetime it was initialized with.
ReleaseExecution(a) ==
  /\ Releases(a, {"work", "execution"})
  /\ IF loops[a].creation = Lifetime(a)
     THEN /\ held' = Drops(a, {Closing(a).resource})
          /\ \/ reg' = Released(a, TRUE) /\ UNCHANGED spent
             \/ reg' = Released(a, FALSE) /\ Fault
     ELSE reg' = Released(a, FALSE) /\ UNCHANGED <<held, spent>>
  /\ UNCHANGED <<saved, notices, loops, asked>>

\* Deactivation ends whatever the activation still holds.
ReleaseLoop(a) ==
  /\ Releases(a, {"loop"})
  /\ reg' = Released(a, TRUE)
  /\ held' = Drops(a, Claimed)
  /\ loops' = Fresh(a)
  /\ UNCHANGED <<saved, notices, spent, asked>>

\* The other owners; a release that fails may have happened.
ReleaseComponent(a) ==
  /\ Releases(a, {"capability", "commands", "tools", "prompt", "conversation"})
  /\ \/ /\ reg' = Released(a, TRUE) /\ UNCHANGED spent
        /\ held' = Drops(a, {Closing(a).resource})
     \/ /\ reg' = Released(a, FALSE) /\ Fault
        /\ held' \in {held, Drops(a, {Closing(a).resource})}
  /\ UNCHANGED <<saved, notices, loops, asked>>

\* childClient: the Registry asks itself to close the child.
ReleaseChild(a) ==
  LET child == Closing(a).resource[2]
      joined == [CancelRestarts(reg, child) EXCEPT !.of[a].closing.stage = "joined"]
  IN /\ Releases(a, {"child"})
     /\ reg' = IF Registered(reg, child) THEN ScheduleClose(joined, child)
               ELSE Released(a, TRUE)
     /\ UNCHANGED <<Outside, spent, asked>>

\* handleShutdownResult: only a confirmed release lets the next one begin.
ShutdownResult(a) ==
  LET confirmed == [reg EXCEPT !.of[a].closing.stage = "none",
                               !.of[a].owned = @ \ {Closing(a).resource}]
  IN /\ Closing(a).stage \in {"ok", "failed"}
     /\ reg' = IF Closing(a).stage = "ok" THEN RunClose(confirmed, a)
               ELSE AnswerClose([reg EXCEPT !.of[a].closing.stage = "none"], a, FALSE)
     /\ UNCHANGED <<Outside, spent, asked>>

\* The framework loses the activation of an AgentLoop; the next message makes
\* a new one, which knows no lifetime.
LoopLost(a) ==
  /\ spent.lost < spent.of.lost
  /\ loops[a].creation # 0 \/ (Asking(a) = "agent" /\ Awaits(a, "component", {"claimed"}))
  /\ spent' = [spent EXCEPT !.lost = @ + 1]
  /\ loops' = Fresh(a)
  /\ held' = Drops(a, Claimed)
  /\ reg' = IF Asking(a) = "agent" /\ Awaits(a, "component", {"claimed"})
            THEN [reg EXCEPT !.of[a].opening.answer = "failed"] ELSE reg
  /\ UNCHANGED <<saved, notices, asked>>

-----------------------------------------------------------------------------
(* Replacing a lifetime: close it, load its Session, create the next one.  *)

Restarts(a, stages) == reg.restarts[a].stage \in stages
AtStage(w, a, stage) == [w EXCEPT !.restarts[a].stage = stage]

\* restartClose is a message of its own; it outlives a cancelled restart.
RestartClose(a, id) ==
  LET sent == [reg EXCEPT !.selfCloses = @ \ {<<a, id>>}]
      own == reg.restarts[a] = [stage |-> "close", of |-> id]
      Told(stage) == IF own THEN AtStage(sent, a, stage) ELSE sent
  IN /\ <<a, id>> \in reg.selfCloses
     /\ reg' = IF reg.of[a].id = id /\ reg.of[a].life = "closed" THEN Told("closed")
               ELSE IF ~Current(reg, a, id) THEN Told("closeFailed")
               ELSE ScheduleClose(Told("joined"), a)
     /\ UNCHANGED <<Outside, spent, asked>>

RestartClosed(a) ==
  /\ Restarts(a, {"closed", "closeFailed"})
  /\ reg' = IF Restarts(a, {"closed"}) THEN AtStage(reg, a, "loading") ELSE FailRestart(reg, a)
  /\ UNCHANGED <<Outside, spent, asked>>

LoadSession(a) ==
  /\ Restarts(a, {"loading"})
  /\ \/ reg' = AtStage(reg, a, "loaded") /\ UNCHANGED spent
     \/ reg' = AtStage(reg, a, "loadFailed") /\ Fault
  /\ UNCHANGED <<Outside, asked>>

RestartPrepared(a) ==
  /\ Restarts(a, {"loaded", "loadFailed"})
  /\ reg' = IF Restarts(a, {"loaded"}) THEN AtStage(reg, a, "create") ELSE FailRestart(reg, a)
  /\ UNCHANGED <<Outside, spent, asked>>

\* restartCreate: CreateAgent of a fresh lifetime.  Somebody may have created
\* one meanwhile.
RestartCreate(a) ==
  LET id == spent.created[a] + 1
  IN /\ Restarts(a, {"create"})
     /\ IF Registered(reg, a) \/ ReserveRefused(reg, a, id, reg.of[a].parent)
        THEN reg' = AtStage(reg, a, "createFailed") /\ UNCHANGED spent
        ELSE /\ reg' = Start(AtStage(reg, a, "creating"), a, id, reg.of[a].parent)
             /\ Drawn(a, id)
     /\ UNCHANGED <<Outside, asked>>

RestartCreated(a) ==
  LET done == [reg EXCEPT !.restarts[a] = NoRestart]
  IN /\ Restarts(a, {"created", "createFailed"})
     /\ reg' = IF Restarts(a, {"createFailed"}) THEN FailRestart(reg, a)
               ELSE RestartChanged(Answer(done, Waiting(reg, "restart", a), "ready"))
     /\ UNCHANGED <<Outside, spent, asked>>

-----------------------------------------------------------------------------
Lifetimes == 0 .. spent.of.creations + Len(Configured)

Requests ==
  \E ask \in spent.of.asks : LET c == ask[1] a == ask[2] IN
    \/ \E id \in Identities(a) : \/ Create(c, a, id)
                                 \/ \E parent \in 1 .. spent.of.creations : CreateChild(c, a, id, parent)
    \/ \E wait \in BOOLEAN : Find(c, a, wait)
    \/ \E id \in 1 .. spent.created[a] : Close(c, a, id)

Verifications == \E c \in Callers : VerifyAnswers(c) \/ Verified(c)
Starts(a) == ReadSettings(a) \/ ConfigurationPrepared(a) \/ Claim(a) \/
             ComponentAnswers(a) \/ StartupResult(a)
Closes(a) == ReleaseExecution(a) \/ ReleaseLoop(a) \/ ReleaseComponent(a) \/
             ReleaseChild(a) \/ ShutdownResult(a)
Replaces(a) == (\E id \in Lifetimes : RestartClose(a, id)) \/ RestartClosed(a) \/
               LoadSession(a) \/ RestartPrepared(a) \/ RestartCreate(a) \/ RestartCreated(a)

Next ==
  \/ Requests \/ StopAdmission \/ Save \/ ChangeNotice \/ Verifications
  \/ \E a \in Agents : Starts(a) \/ Closes(a) \/ Replaces(a) \/ LoopLost(a)

Spec == Init /\ [][Next]_vars

\* Messages are delivered, owners answer, and whoever closes Agents asks again
\* until it succeeds (internal/server/agents.go: it must not stop storage before).
AsksAgain(a) ==
  /\ Closing(a).stage = "none" /\ reg.of[a].life = "closing"
  /\ \E c \in Callers : Close(c, a, Lifetime(a))

FairSpec ==
  /\ Spec
  /\ \A a \in Agents : /\ WF_vars(Starts(a))
                       /\ WF_vars(Closes(a))
                       /\ WF_vars(Replaces(a))
                       /\ SF_vars(AsksAgain(a))
  /\ \A c \in Callers : WF_vars(VerifyAnswers(c) \/ Verified(c))
  /\ WF_vars(ChangeNotice)

-----------------------------------------------------------------------------
(* Properties.                                                             *)

Answers == {"none", "asked", "claimed", "ok", "failed", "unowned"}
RestartStages ==
  {"none", "close", "joined", "closed", "closeFailed", "loading", "loaded", "loadFailed",
   "create", "creating", "created", "createFailed", "failed"}

\* Every variable keeps its type.
TypeOK ==
  /\ reg.stopped \in BOOLEAN /\ reg.observing \in BOOLEAN /\ reg.seen \in 0 .. saved
  /\ \A a \in Agents : LET e == reg.of[a] IN
       /\ e.life \in {"absent", "initializing", "available", "closing", "closed"}
       /\ e.failed \in BOOLEAN /\ e.ready \subseteq Components /\ e.owned \subseteq Resources
       /\ {e.id, e.parent} \subseteq Lifetimes /\ e.instance \in Nat
       /\ e.opening.on \in BOOLEAN /\ e.opening.wait \in {"none", "settings", "component"}
       /\ e.opening.answer \in Answers /\ e.opening.component \in Components
       /\ {e.opening.read, e.opening.revision} \subseteq 0 .. saved
       /\ e.closing.on \in BOOLEAN /\ e.closing.resource \in Duties
       /\ e.closing.stage \in {"none", "asked", "joined", "ok", "failed"}
  /\ \A a \in Agents : reg.restarts[a].stage \in RestartStages /\ reg.restarts[a].of \in Lifetimes
  /\ reg.selfCloses \subseteq Agents \X Lifetimes
  /\ \A c \in Callers :
       /\ reg.calls[c].on \in {"none", "start", "close", "restart", "verify", "verified",
                               "stale", "undelivered"}
       /\ reg.calls[c].agent \in Agents \cup {NoAgent} /\ reg.calls[c].id \in Lifetimes
       /\ reg.calls[c].got \in {"none", "ready", "closed", "refused"}
  /\ saved \in Revisions /\ notices \in Seq(Revisions)
  /\ held \subseteq Agents \X Lifetimes \X Resources
  /\ \A a \in Agents : loops[a].instance \in Nat /\ loops[a].creation \in Lifetimes
  /\ spent.created \in [Agents -> Lifetimes]
  /\ spent.lost \in 0 .. spent.of.lost /\ spent.faults \in 0 .. spent.of.faults
  /\ asked \subseteq Agents \X Lifetimes \X {"close", "lost"}

HeldBy(a) == {h[3] : h \in {x \in held : x[1] = a}}

\* Whatever a component owner holds, however its start or release failed, is a
\* responsibility of the lifetime the Registry still lists: nothing is forgotten
\* by a close, a failed start or a replacement (TrackResource, ConfirmRelease).
NothingLeaks ==
  \A h \in held : Current(reg, h[1], h[2]) /\ h[3] \in reg.of[h[1]].owned

\* Work, capabilities and commands never outlive the Session, tools and prompt
\* they use, and a child never outlives those of its parent (releasePriority).
DependenciesOutlive ==
  \A a \in Agents :
    LET kinds == {r[1] : r \in HeldBy(a)} IN
    /\ kinds \cap {"work", "capability", "commands", "execution"} # {} =>
         {"tools", "prompt", "conversation"} \subseteq kinds
    /\ kinds # {} => "conversation" \in kinds \/ kinds = {"loop"}
    /\ a \notin Roots /\ kinds # {} =>
         {<<"tools", 0>>, <<"prompt", 0>>, <<"conversation", 0>>} \subseteq HeldBy(Parent[a])

\* A published Agent holds every component it was declared with.
AvailableIsComplete ==
  \A a \in Agents :
    reg.of[a].life = "available" =>
      (Resources \ Claimed) \subseteq HeldBy(a) /\ reg.of[a].ready = Components

\* An AgentLoop activation executes only for the listed lifetime that it
\* claimed; no activation takes over another's claim (Grain.claim).
OneExecutor ==
  \A a \in Agents :
    loops[a].creation # 0 =>
      Current(reg, a, loops[a].creation) /\ reg.of[a].instance = loops[a].instance

\* A registered child lives inside the lifetime of its parent that admitted it.
ChildInsideParent ==
  \A a \in Agents \ Roots :
    Registered(reg, a) =>
      Registered(reg, Parent[a]) /\ reg.of[a].parent = reg.of[Parent[a]].id

\* An Agent closes because its start failed, because somebody asked, because it
\* is being replaced, because its parent closes, or at the server's shutdown;
\* a request that names another lifetime closes nothing.
ClosesForAReason ==
  \A a \in Agents :
    reg.of[a].life = "closing" =>
      \/ reg.of[a].failed \/ reg.stopped \/ asked \cap {<<a, Lifetime(a), "close">>, <<a, Lifetime(a), "lost">>} # {}
      \/ reg.restarts[a].stage # "none" /\ reg.restarts[a].of = Lifetime(a)
      \/ \E b \in Ancestors[a] : reg.of[b].life = "closing"

\* An explicit close is final: no replacement of that lifetime goes on, nor of
\* any after the server stopped admission (cancelRestarts).
ExplicitCloseIsFinal ==
  \A a \in Agents :
    ~Restarts(a, {"none", "failed"}) =>
      <<a, reg.restarts[a].of, "close">> \notin asked /\ ~reg.stopped

\* Every CreateAgent, FindAgent and CloseAgent is answered.
CallersAnswered == \A c \in Callers : reg.calls[c].on # "none" ~> reg.calls[c].on = "none"

\* A close that is asked for again until it succeeds ends: a failed release
\* is retried and a failed start is cleaned up.
ClosingEnds == \A a \in Agents : reg.of[a].life = "closing" ~> reg.of[a].life # "closing"

\* A root Agent that runs other values than the saved ones is replaced.
ConfigurationFollows ==
  \A a \in Roots :
    LET current == reg.of[a].life = "available" /\ ~reg.stopped
    IN (current /\ Configured[Opening(a).revision] # Configured[saved]) ~>
         (~current \/ Configured[Opening(a).revision] = Configured[saved])

\* What is held and what is listed agree: nothing forgotten, nothing missing.
ResourcesAreListed == TypeOK /\ NothingLeaks /\ AvailableIsComplete

\* Lifetimes nest: users inside what they use, children inside their parents.
LifetimesNest == DependenciesOutlive /\ ChildInsideParent /\ OneExecutor

\* Nothing closes without a reason, and what was closed on purpose stays so.
ClosesAreMeant == ClosesForAReason /\ ExplicitCloseIsFinal

\* Whoever waits is answered, closes end and Settings take effect.
AgentsProgress == CallersAnswered /\ ClosingEnds /\ ConfigurationFollows
=============================================================================
