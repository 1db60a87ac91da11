----------------------------- MODULE UserSettings -----------------------------
(***************************************************************************)
(* The user's saved configuration: settings.Service, the Grain that        *)
(* serializes it (settings/actor), its SQLite store (settings/internal/    *)
(* sqlite) and the Host's edits (apiproxy/settings).  Several processes    *)
(* may have one store open; each keeps what it read and compares the       *)
(* store's revision when it commits.                                       *)
(*                                                                         *)
(* A directory holds one named group of each capability; prompts are edited*)
(* as providers are.  A Companion may refer to the named Agent.            *)
(***************************************************************************)
EXTENDS Integers, Sequences, TLC

CONSTANTS
  Owners,    \* processes
  Settings   \* bounds of the behaviours, one after another:
             \*   bases    the configurations a process may be started with
             \*   groups, values  what is edited, and to what
             \*   edits    submitted
             \*   starts   of processes
             \*   faults   failed exchanges with the store or the tool registry,
             \*            and publications
             \*   closes   of processes

VARIABLES
  disk,   \* the store: settings_state and settings_sections
  node,   \* Provider, Grain and Service of each process
  seen,   \* ghosts: committed edits in order, answers, notices
  used    \* the setting, and how much of it is used

settingsVars == <<disk, node, seen, used>>

None == "none"
Groups == {"agent", "companion", "provider", "mcp", "tool"}
Empty == [g \in Groups |-> None]

(* settings.State.                                                         *)
Unsaved == [revision |-> 0, versions |-> [g \in Groups |-> 0], user |-> Empty]

Off == [up |-> FALSE]
Opened(base, state) ==
  [up |-> TRUE, closing |-> FALSE, base |-> base, state |-> state, view |-> state,
   published |-> state.revision, queue |-> <<>>, pc |-> "idle", next |-> Unsaved, answer |-> None]

Setting == Settings[used.of]
Uses(what) == used.n[what] < Setting[what] /\ used' = [used EXCEPT !.n[what] = @ + 1]

Init ==
  /\ used \in [of : DOMAIN Settings, n : {[edits |-> 0, starts |-> 0, faults |-> 0, closes |-> 0]}]
  /\ disk = Unsaved
  /\ node = [o \in Owners |-> Off]
  /\ seen = [history |-> <<>>, answers |-> <<>>, notices |-> [o \in Owners |-> <<>>], lost |-> {}]

----------------------------------------------------------------------------
(* Configuration.                                                          *)

(* Resolve replaces complete groups; providers and tools must be installed.*)
Target(base, user) == [g \in Groups |-> IF user[g] # None THEN user[g] ELSE base[g]]
Resolves(base, user) ==
  /\ \A g \in {"provider", "tool"} : user[g] # None => base[g] # None
  /\ Target(base, user)["companion"] = "named" => Target(base, user)["agent"] # None

(* ValidateMCP: a name that is reserved, or used by the deployment.        *)
Reserved(value) == value = "reserved"

(* State.Validate: what a start checks.                                    *)
Valid(state) ==
  \A g \in Groups : /\ state.versions[g] \in 0..state.revision
                    /\ state.user[g] # None => state.versions[g] > 0

Overrides(state, edit) == [state.user EXCEPT ![edit.group] = edit.value]
Committed(state, edit) ==
  [revision |-> state.revision + 1,
   versions |-> [state.versions EXCEPT ![edit.group] = state.revision + 1],
   user |-> Overrides(state, edit)]

----------------------------------------------------------------------------
(* A process.                                                              *)

(* Provider.Open and Bind.                                                 *)
Start(o) ==
  /\ ~node[o].up /\ Uses("starts")
  /\ \E base \in Setting.bases :
       /\ Valid(disk) /\ Resolves(base, disk.user)
       /\ node' = [node EXCEPT ![o] = Opened(base, disk)]
  /\ seen' = [seen EXCEPT !.notices[o] = <<>>, !.lost = @ \ {o}]
  /\ UNCHANGED disk

(* Provider.Close refuses new edits and waits for the admitted ones.       *)
Close(o) ==
  /\ node[o].up /\ ~node[o].closing /\ Uses("closes")
  /\ node' = [node EXCEPT ![o].closing = TRUE]
  /\ UNCHANGED <<disk, seen>>

Closed(o) ==
  /\ node[o].up /\ node[o].closing /\ node[o].queue = <<>>
  /\ node' = [node EXCEPT ![o] = Off]
  /\ UNCHANGED <<disk, seen, used>>

Crash(o) ==
  /\ node[o].up /\ Uses("closes")
  /\ node' = [node EXCEPT ![o] = Off]
  /\ UNCHANGED <<disk, seen>>

(* An edit names the version its editor has seen; no value is a reset.     *)
Submit(o, edit) ==
  /\ node[o].up /\ ~node[o].closing /\ Uses("edits")
  /\ edit.value = None => edit.group # "agent"
  /\ node' = [node EXCEPT ![o].queue = Append(@, edit)]
  /\ seen' = [seen EXCEPT !.answers = Append(@, edit @@ [answer |-> None])]
  /\ UNCHANGED disk

Answers(o, what) == node' = [node EXCEPT ![o].pc = "answering", ![o].answer = what]

(* Service.update and commit, up to the store.                             *)
Apply(o) ==
  LET n == node[o]
      edit == Head(n.queue)
      version == n.state.versions[edit.group]
      overrides == Overrides(n.state, edit)
  IN /\ n.up /\ n.pc = "idle" /\ n.queue # <<>>
     /\ UNCHANGED <<disk, seen>>
     /\ IF \/ /\ edit.value = None /\ version = 0
              /\ Target(n.base, n.state.user)[edit.group] = None
           \/ version = edit.expected /\ ~Resolves(n.base, overrides)
        THEN Answers(o, "invalid") /\ UNCHANGED used
        ELSE IF version # edit.expected THEN Answers(o, "conflict") /\ UNCHANGED used
        ELSE IF overrides = n.state.user THEN Answers(o, "unchanged") /\ UNCHANGED used
        ELSE IF edit.group = "mcp" /\ Reserved(overrides["mcp"]) THEN Answers(o, "invalid") /\ UNCHANGED used
        ELSE \/ /\ node' = [node EXCEPT ![o].pc = "committing",
                                        ![o].next = Committed(n.state, edit)]
                /\ UNCHANGED used
             \/ edit.group = "tool" /\ Uses("faults") /\ Answers(o, "invalid")

Adopt(o, state) ==
  node' = [node EXCEPT ![o].state = state, ![o].pc = "answering", ![o].answer = "saved"]

Writes(o) ==
  /\ disk' = node[o].next
  /\ seen' = [seen EXCEPT !.history = Append(@, Head(node[o].queue) @@ [base |-> node[o].base])]

(* Variant: the revision is not compared.                                  *)
CommitBlind(o) ==
  /\ node[o].up /\ node[o].pc = "committing"
  /\ Adopt(o, node[o].next) /\ Writes(o) /\ UNCHANGED used

(* Adapter.Commit: one transaction, conditional on the revision.           *)
Commit(o) ==
  /\ node[o].up /\ node[o].pc = "committing"
  /\ \/ /\ disk.revision # node[o].state.revision
        /\ node' = [node EXCEPT ![o].pc = "reloading"] /\ UNCHANGED <<disk, seen, used>>
     \/ /\ disk.revision = node[o].state.revision
        /\ \/ Adopt(o, node[o].next) /\ Writes(o) /\ UNCHANGED used
           \/ /\ Uses("faults") /\ node' = [node EXCEPT ![o].pc = "verifying"]
              /\ Writes(o) \/ UNCHANGED <<disk, seen>>
     \/ Uses("faults") /\ Answers(o, "failed") /\ UNCHANGED <<disk, seen>>

(* An uncertain commit is verified by reading the store again.             *)
Verify(o) ==
  /\ node[o].up /\ node[o].pc = "verifying"
  /\ \/ /\ IF disk = node[o].next THEN Adopt(o, disk) ELSE Answers(o, "uncertain")
        /\ UNCHANGED used
     \/ Uses("faults") /\ Answers(o, "uncertain")
  /\ UNCHANGED <<disk, seen>>

(* Another process has committed: its state is taken over, the edit not.   *)
Reload(o) ==
  /\ node[o].up /\ node[o].pc = "reloading"
  /\ \/ /\ IF Valid(disk) /\ Resolves(node[o].base, disk.user)
           THEN node' = [node EXCEPT ![o].state = disk, ![o].pc = "answering", ![o].answer = "conflict"]
           ELSE Answers(o, "failed")
        /\ UNCHANGED used
     \/ Uses("faults") /\ Answers(o, "failed")
  /\ UNCHANGED <<disk, seen>>

(* The response of the task: the view is replaced, a revision nobody was   *)
(* told of is published, and the editor answered.  A publication that fails*)
(* is tried again after the next edit.                                     *)
Respond(o) ==
  LET n == node[o]
      news == n.state.revision > n.published
      notice == [revision |-> n.state.revision, target |-> Target(n.base, n.state.user)]
      id == Head(n.queue).id
      done(published) ==
        node' = [node EXCEPT ![o].view = n.state, ![o].queue = Tail(@), ![o].pc = "idle",
                             ![o].answer = None, ![o].next = Unsaved, ![o].published = published]
  IN /\ n.up /\ n.pc = "answering"
     /\ \/ /\ done(IF news THEN n.state.revision ELSE n.published) /\ UNCHANGED used
           /\ seen' = [seen EXCEPT !.answers[id].answer = n.answer, !.lost = @ \ {o},
                         !.notices[o] = IF news THEN Append(@, notice) ELSE @]
        \/ /\ news /\ Uses("faults") /\ done(n.published)
           /\ seen' = [seen EXCEPT !.answers[id].answer = n.answer, !.lost = @ \cup {o}]
     /\ UNCHANGED disk

Edits ==
  {[id |-> used.n.edits + 1, group |-> g, value |-> v, expected |-> e] :
     g \in Setting.groups, v \in Setting.values \cup {None}, e \in 0..disk.revision}

Next ==
  \E o \in Owners :
    \/ Start(o) \/ Close(o) \/ Closed(o) \/ Crash(o)
    \/ Apply(o) \/ Commit(o) \/ Verify(o) \/ Reload(o) \/ Respond(o)
    \/ \E edit \in Edits : Submit(o, edit)

Spec == Init /\ [][Next]_settingsVars

----------------------------------------------------------------------------
(* Properties.                                                             *)

(* What the store held after the first r committed edits.                  *)
Version(r, g) ==
  LET of == {i \in 1..r : seen.history[i].group = g}
  IN IF of = {} THEN 0 ELSE CHOOSE i \in of : \A j \in of : j <= i
SavedAt(r) ==
  [revision |-> r, versions |-> [g \in Groups |-> Version(r, g)],
   user |-> [g \in Groups |-> IF Version(r, g) = 0 THEN None
                              ELSE seen.history[Version(r, g)].value]]

TypeOK ==
  /\ disk = SavedAt(Len(seen.history)) /\ Valid(disk)
  /\ \A o \in Owners : node[o].up /\ node[o].pc # "idle" => node[o].queue # <<>>

(* No accepted edit replaces one its editor has not seen, in this process  *)
(* or another (store.go:6, "Commit must atomically compare the revision"). *)
NoLostEdit ==
  \A r \in DOMAIN seen.history : seen.history[r].expected = Version(r - 1, seen.history[r].group)

(* An edit that was saved is in the store (its own, or the same one of     *)
(* another process), one that was refused never is; only an uncertain or   *)
(* unanswered one may be either.                                           *)
AnswersAreTrue ==
  \A id \in DOMAIN seen.answers :
    LET edit == seen.answers[id]
        same(r) == /\ seen.history[r].group = edit.group /\ seen.history[r].value = edit.value
                   /\ seen.history[r].expected = edit.expected
    IN /\ edit.answer = "saved" => \E r \in DOMAIN seen.history : same(r)
       /\ edit.answer \in {"invalid", "conflict", "failed", "unchanged"} =>
            \A r \in DOMAIN seen.history : seen.history[r].id # id

(* What a process reads, shows and publishes was saved as a whole, and is  *)
(* one the configuration it was saved under can start with.                *)
ViewsWereSaved ==
  /\ \A o \in Owners : node[o].up =>
       /\ \A state \in {node[o].state, node[o].view} :
            state.revision <= Len(seen.history) /\ state = SavedAt(state.revision)
       /\ node[o].view.revision <= node[o].state.revision
  /\ \A r \in DOMAIN seen.history : Resolves(seen.history[r].base, SavedAt(r).user)

(* Consumers hear of saved revisions in order, of the latest one at last.  *)
NoticesFollow ==
  \A o \in Owners :
    LET notices == seen.notices[o] n == node[o]
    IN n.up => /\ \A i \in DOMAIN notices :
                    /\ notices[i].target = Target(n.base, SavedAt(notices[i].revision).user)
                    /\ i > 1 => notices[i].revision > notices[i - 1].revision
               /\ o \notin seen.lost => n.published = n.view.revision

SettingsAreTrue == TypeOK /\ NoLostEdit /\ AnswersAreTrue /\ ViewsWereSaved /\ NoticesFollow
=============================================================================
