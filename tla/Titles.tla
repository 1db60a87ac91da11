-------------------------------- MODULE Titles --------------------------------
(***************************************************************************)
(* Session titles: the Title Grain and its policy (session/title), the     *)
(* worker that calls the model, the subscriber that reports what a Session *)
(* appends, and the registry Grain that starts and stops these for each    *)
(* creation of an Agent (session/title/registry).                          *)
(*                                                                         *)
(* While a request to the Session, or a drain, is outstanding, the Grain's *)
(* messages are stashed; a model call does not stash.  The stages of a     *)
(* generation come back as messages of their own, in no order with others. *)
(***************************************************************************)
EXTENDS Integers, Sequences, FiniteSets, FiniteSetsExt, TLC

CONSTANTS
  Settings   \* bounds of the behaviours, one after another:
             \*   provider  "none", "first-prompt" or "all-prompts"
             \*   child     the Session has a parent
             \*   creations, stops  of the component
             \*   prompts   human messages
             \*   asks      requests, of the kinds
             \*   kinds     "rename", "ensure", "generate", "refresh"
             \*   faults    failed requests, calls and framework errors

VARIABLES
  chat,    \* the Session: its open creation (or 0) and its log
  title,   \* the Grain
  worker,  \* of each creation: its mailbox
  feed,    \* of each creation: the subscriber's
  owner,   \* the registry's entry
  requests,    \* ghost: every request of the Grain, with what it read and its answer
  used     \* the setting, and how much of it is used

titlesVars == <<chat, title, worker, feed, owner, requests, used>>

None == "none"
Setting == Settings[used.of]
Creations == 1..Setting.creations
Spend(what) == used' = [used EXCEPT !.n[what] = @ + 1]
Uses(what) == used.n[what] < Setting[what] /\ Spend(what)

Nothing == [what |-> None, plan |-> None, of |-> 0, creation |-> 0]
Quiet == [bindings |-> <<>>, pending |-> <<>>, inbox |-> <<>>, asked |-> Nothing, piped |-> {}]
Stopped == [up |-> FALSE, queue |-> <<>>]
NoEntry ==
  [creation |-> 0, phase |-> "stopped", endpoint |-> FALSE, drained |-> FALSE, stopping |-> FALSE,
   cancelled |-> FALSE, task |-> None, started |-> {}, stopped |-> {}]
Activated(t) ==
  [t EXCEPT !.bindings = [c \in Creations |-> "absent"], !.pending = [c \in Creations |-> 0]]

Init ==
  /\ used \in [of : DOMAIN Settings,
               n : {[prompts |-> 0, asks |-> 0, stops |-> 0, faults |-> 0]}]
  /\ chat = [creation |-> 0, last |-> 0, log |-> <<>>]
  /\ title = Activated(Quiet)
  /\ worker = [c \in Creations |-> Stopped] /\ feed = [c \in Creations |-> Stopped]
  /\ owner = NoEntry /\ requests = <<>>

----------------------------------------------------------------------------
(* What a log says (fold.go, automatic.go, policy.go).                     *)

Event(kind, source, id) == [kind |-> kind, source |-> source, by |-> id]
Now == Len(chat.log)
Prompts(n) == {i \in 1..n : chat.log[i].kind = "prompt"}
TitleAt(n) == Max({0} \cup {i \in 1..n : chat.log[i].kind = "title"})
Pinned(n) == TitleAt(n) # 0 /\ chat.log[TitleAt(n)].source = "user"

ShouldGenerate(w) ==
  /\ ~Pinned(w.read) /\ w.seq = Max({0} \cup Prompts(w.read))
  /\ \/ Setting.provider = "all-prompts"
     \/ ~Setting.child /\ Cardinality(Prompts(w.read)) = 1 /\ TitleAt(w.seq - 1) = 0

(* resultPlan.Build: neither the title nor the messages have changed.      *)
(* Variant: the messages are not compared.                                 *)
FitsTitle(w) == TitleAt(Now) = TitleAt(w.read)
Fits(w) == TitleAt(Now) = TitleAt(w.read) /\ Prompts(Now) = Prompts(w.read)

(* What a plan appends to the log as it is when the Session commits it.    *)
Superseded == [kind |-> "superseded"]
Built(plan, id) ==
  CASE plan = "user" -> <<Event("title", "user", id)>>
    [] plan = "fallback" -> IF TitleAt(Now) = 0 /\ Prompts(Now) # {}
                            THEN <<Event("title", "fallback", id)>> ELSE <<>>
    [] plan = "request" -> <<Event("request", None, id)>>
    [] plan = "provider" -> IF Fits(requests[id]) THEN <<Event("title", "provider", id)>>
                            ELSE <<Superseded>>
    [] plan = "refreshed" -> IF ~Fits(requests[id]) THEN <<Superseded>>
                             ELSE IF Prompts(Now) = {} \/ (TitleAt(Now) # 0 /\ ~Pinned(Now)) THEN <<>>
                             ELSE <<Event("title", "fallback", id)>>

----------------------------------------------------------------------------
(* The Session, and what its topic tells the subscriber.                   *)

Told(feeds, events) ==
  [c \in Creations |->
     IF feeds[c].up /\ c = chat.creation
     THEN [feeds[c] EXCEPT !.queue = @ \o [i \in 1..Len(events) |-> Now + i]]
     ELSE feeds[c]]
Heard(events) == SelectSeq(events, LAMBDA e : e.kind = "prompt" \/ e.source = "user")
Appends(events) ==
  /\ chat' = [chat EXCEPT !.log = @ \o events]
  /\ feed' = IF Heard(events) = <<>> THEN feed ELSE Told(feed, events)

Open ==
  /\ chat.creation = 0 /\ chat.last < Setting.creations
  /\ chat' = [chat EXCEPT !.creation = chat.last + 1, !.last = @ + 1]
  /\ UNCHANGED <<title, worker, feed, owner, requests, used>>

Shut ==
  /\ chat.creation # 0
  /\ chat' = [chat EXCEPT !.creation = 0]
  /\ feed' = IF feed[chat.creation].up THEN [feed EXCEPT ![chat.creation].queue = Append(@, 0)] ELSE feed
  /\ UNCHANGED <<title, worker, owner, requests, used>>

Prompt ==
  /\ chat.creation # 0 /\ Uses("prompts") /\ Appends(<<Event("prompt", None, 0)>>)
  /\ UNCHANGED <<title, worker, owner, requests>>

(* Subscriber.Receive: notices are passed on in order.                     *)
Forward(c) ==
  /\ feed[c].up /\ feed[c].queue # <<>>
  /\ LET seq == Head(feed[c].queue)
     IN title' = [title EXCEPT !.inbox = Append(@, IF seq = 0
                    THEN [type |-> "close", from |-> "feed", creation |-> c, of |-> 0]
                    ELSE [type |-> "event", from |-> "feed", creation |-> c, of |-> seq])]
  /\ feed' = [feed EXCEPT ![c].queue = Tail(@)]
  /\ UNCHANGED <<chat, worker, owner, requests, used>>

----------------------------------------------------------------------------
(* The registry's entry.                                                   *)

Halted(o) == [o EXCEPT !.phase = "stopped", !.endpoint = FALSE, !.task = None, !.stopping = FALSE,
                       !.stopped = @ \cup {o.creation}]
RunStop(o) == IF o.endpoint THEN [o EXCEPT !.phase = "stopping", !.task = "killing"] ELSE Halted(o)
FinishStart(o, phase) ==
  LET done == [o EXCEPT !.phase = phase, !.task = None,
                        !.started = IF phase = "available" THEN @ \cup {o.creation} ELSE @]
  IN IF o.stopping THEN RunStop(done) ELSE done
StopFails(o) == [o EXCEPT !.task = None, !.stopping = FALSE]

(* Grain.start, for a new creation.                                        *)
Start ==
  /\ owner.phase = "stopped" /\ chat.last > owner.creation
  /\ owner' = [NoEntry EXCEPT !.creation = chat.last, !.phase = "starting", !.task = "reading",
                              !.started = owner.started, !.stopped = owner.stopped]
  /\ UNCHANGED <<chat, title, worker, feed, requests, used>>

Stop ==
  /\ owner.phase # "stopped" /\ Uses("stops")
  /\ owner' = IF owner.phase = "starting" THEN [owner EXCEPT !.stopping = TRUE, !.cancelled = TRUE]
              ELSE IF owner.task = None THEN RunStop([owner EXCEPT !.stopping = TRUE])
              ELSE [owner EXCEPT !.stopping = TRUE]
  /\ UNCHANGED <<chat, title, worker, feed, requests>>

ReadHeader ==
  /\ owner.task = "reading"
  /\ \/ /\ chat.creation = owner.creation /\ UNCHANGED used
        /\ owner' = [owner EXCEPT !.task = "initializing", !.endpoint = TRUE]
        /\ title' = [title EXCEPT !.inbox = Append(@,
             [type |-> "initialize", from |-> "registry", creation |-> owner.creation, of |-> 0])]
     \/ /\ \/ (owner.cancelled \/ chat.creation # owner.creation) /\ UNCHANGED used
           \/ Uses("faults")
        /\ \E found \in BOOLEAN : owner' = FinishStart([owner EXCEPT !.endpoint = found], "failed")
        /\ UNCHANGED title
  /\ UNCHANGED <<chat, worker, feed, requests>>

Subscribe ==
  /\ owner.task = "subscribing"
  /\ \/ /\ owner' = FinishStart(owner, "available") /\ UNCHANGED used
        /\ feed' = [feed EXCEPT ![owner.creation].up = TRUE]
     \/ /\ (owner.cancelled /\ UNCHANGED used) \/ Uses("faults")
        /\ owner' = FinishStart(owner, "failed")
        /\ \E spawned \in BOOLEAN : feed' = [feed EXCEPT ![owner.creation].up = spawned]
  /\ UNCHANGED <<chat, title, worker, requests>>

(* A start or a stop stops waiting for the Grain, which may still act.     *)
GiveUp ==
  /\ \/ /\ owner.task = "initializing" /\ owner' = FinishStart(owner, "failed")
        /\ (owner.cancelled /\ UNCHANGED used) \/ Uses("faults")
     \/ owner.task = "closing" /\ Uses("faults") /\ owner' = StopFails(owner)
  /\ UNCHANGED <<chat, title, worker, feed, requests>>

Poisoned(t) == [t EXCEPT !.inbox = Append(@, [type |-> "pill", from |-> "registry",
                                              creation |-> owner.creation, of |-> 0])]

(* runStop: the subscriber first, then the Grain, unless it has drained.   *)
KillSubscriber ==
  /\ owner.task = "killing"
  /\ \/ /\ feed' = [feed EXCEPT ![owner.creation] = Stopped] /\ UNCHANGED used
        /\ IF owner.drained
           THEN owner' = Halted(owner) /\ title' = Poisoned(title)
           ELSE /\ owner' = [owner EXCEPT !.task = "closing"]
                /\ title' = [title EXCEPT !.inbox = Append(@,
                     [type |-> "close", from |-> "registry", creation |-> owner.creation, of |-> 0])]
     \/ Uses("faults") /\ owner' = StopFails(owner) /\ UNCHANGED <<feed, title>>
  /\ UNCHANGED <<chat, worker, requests>>

(* The Grain has closed a creation: who asked hears so.                    *)
CloseAnswered(from, c, t) ==
  \/ /\ from = "feed" /\ feed' = [feed EXCEPT ![c] = Stopped]
     /\ title' = t /\ UNCHANGED <<owner, used>>
  \/ /\ from = "registry" /\ UNCHANGED feed
     /\ IF owner.task # "closing" \/ owner.creation # c
        THEN title' = t /\ UNCHANGED <<owner, used>>
        ELSE \/ owner' = Halted(owner) /\ title' = Poisoned(t) /\ UNCHANGED used
             \/ /\ Uses("faults") /\ owner' = StopFails([owner EXCEPT !.drained = TRUE])
                /\ title' = t

----------------------------------------------------------------------------
(* The Grain.                                                              *)

Request(kind, c, seq) ==
  [kind |-> kind, creation |-> c, seq |-> seq, read |-> 0, answer |-> None]
Answered(ws, id, what) == [ws EXCEPT ![id].answer = what]
(* finish *)
Finished(t, id) == [t EXCEPT !.pending[requests[id].creation] = IF @ = id THEN 0 ELSE @]
Current(id) ==
  LET c == requests[id].creation IN title.bindings[c] = "open" /\ title.pending[c] = id
Asks(t, what, plan, id, c) ==
  [t EXCEPT !.asked = [what |-> what, plan |-> plan, of |-> id, creation |-> c]]

(* A client of a component that has started.                               *)
Submit(kind) ==
  /\ owner.started # {} /\ Uses("asks")
  /\ LET c == Max(owner.started)
     IN /\ requests' = Append(requests, Request(kind, c, 0))
        /\ title' = [title EXCEPT !.inbox = Append(@,
             [type |-> "ask", from |-> "client", creation |-> c, of |-> Len(requests) + 1])]
  /\ UNCHANGED <<chat, worker, feed, owner>>

Taken(t) == [t EXCEPT !.inbox = Tail(@)]

Initialize(m) ==
  LET c == m.creation
      fresh == title.bindings[c] = "absent"
      heard == owner.task = "initializing" /\ owner.creation = c
  IN /\ m.type = "initialize"
     /\ title' = IF fresh THEN [Taken(title) EXCEPT !.bindings[c] = "open"] ELSE Taken(title)
     /\ worker' = IF fresh THEN [worker EXCEPT ![c].up = TRUE] ELSE worker
     /\ owner' = IF ~heard THEN owner
                 ELSE IF fresh THEN [owner EXCEPT !.task = "subscribing"]
                 ELSE FinishStart(owner, "failed")
     /\ UNCHANGED <<chat, feed, requests, used>>

Begun(t, c, id) == Asks([t EXCEPT !.pending[c] = id], "stage", "fallback", id, c)

(* Rename, EnsureFallback and Generate.                                    *)
Admit(m) ==
  LET id == m.of
      c == m.creation
      kind == requests[id].kind
      t == Taken(title)
      refused == \/ title.bindings[c] # "open"
                 \/ kind = "generate" /\ Setting.provider = "none"
  IN /\ m.type = "ask"
     /\ IF refused THEN title' = t /\ requests' = Answered(requests, id, "failed")
        ELSE /\ UNCHANGED requests
             /\ title' = CASE kind = "rename" ->
                               Asks([t EXCEPT !.pending[c] = 0], "write", "user", id, c)
                           [] kind = "ensure" -> Asks(t, "write", "fallback", id, c)
                           [] OTHER -> Begun(t, c, id)
     /\ UNCHANGED <<chat, worker, feed, owner, used>>

(* observeEvent: a user's title cancels, a human message begins anew.      *)
Observe(m) ==
  LET c == m.creation
      t == Taken(title)
      automatic == chat.log[m.of].kind = "prompt"
  IN /\ m.type = "event"
     /\ IF title.bindings[c] # "open" THEN title' = t /\ UNCHANGED requests
        ELSE IF ~automatic
        THEN /\ title' = IF chat.log[m.of].source = "user" THEN [t EXCEPT !.pending[c] = 0] ELSE t
             /\ UNCHANGED requests
        ELSE /\ requests' = Append(requests, Request(IF Setting.provider = "none" THEN "ensure" ELSE "auto",
                                             c, m.of))
             /\ title' = IF Setting.provider = "none"
                         THEN Asks(t, "write", "fallback", Len(requests) + 1, c)
                         ELSE Begun(t, c, Len(requests) + 1)
     /\ UNCHANGED <<chat, worker, feed, owner, used>>

Close(m) ==
  LET c == m.creation
  IN /\ m.type = "close"
     /\ IF title.bindings[c] # "open"
        THEN /\ CloseAnswered(m.from, c, [Taken(title) EXCEPT !.bindings[c] = "closed"])
             /\ UNCHANGED worker
        ELSE /\ title' = Asks([Taken(title) EXCEPT !.pending[c] = 0], "drain", m.from, 0, c)
             /\ worker' = [worker EXCEPT ![c].queue = Append(@, 0)]
             /\ UNCHANGED <<feed, owner, used>>
     /\ UNCHANGED <<chat, requests>>

(* A PoisonPill; the next message activates the Grain again.               *)
Deactivate(m) ==
  /\ m.type = "pill" /\ title' = Activated(Taken(title))
  /\ worker' = [c \in Creations |-> Stopped]
  /\ UNCHANGED <<chat, feed, owner, requests, used>>

Receive ==
  /\ title.asked = Nothing /\ title.inbox # <<>>
  /\ LET m == Head(title.inbox)
     IN Initialize(m) \/ Admit(m) \/ Observe(m) \/ Close(m) \/ Deactivate(m)

(* The Session answers a request of the Grain.                             *)
Comes(t, stage, id, ok) ==
  [t EXCEPT !.asked = Nothing, !.piped = @ \cup {[stage |-> stage, of |-> id, ok |-> ok]}]

Fails ==
  LET a == title.asked
  IN /\ a.what # None /\ a.what # "drain"
     /\ (chat.creation # a.creation /\ UNCHANGED used) \/ Uses("faults")
     /\ IF a.what \in {"write", "commit"}
        THEN /\ title' = [Finished(title, a.of) EXCEPT !.asked = Nothing]
             /\ requests' = Answered(requests, a.of, "failed")
        ELSE title' = Comes(title, a.plan, a.of, FALSE) /\ UNCHANGED requests
     /\ UNCHANGED <<chat, worker, feed, owner>>

Reads ==
  LET a == title.asked
  IN /\ a.what # None /\ a.plan = "read" /\ chat.creation = a.creation
     /\ requests' = [requests EXCEPT ![a.of].read = Now]
     /\ title' = Comes(title, "read", a.of, TRUE)
     /\ UNCHANGED <<chat, worker, feed, owner, used>>

Commits ==
  LET a == title.asked
      events == Built(a.plan, a.of)
  IN /\ a.what # None /\ a.what # "drain" /\ a.plan # "read" /\ chat.creation = a.creation
     /\ IF events = <<Superseded>> THEN UNCHANGED <<chat, feed>> ELSE Appends(events)
     /\ IF a.what = "stage" THEN title' = Comes(title, a.plan, a.of, TRUE) /\ UNCHANGED requests
        ELSE /\ title' = [Finished(title, a.of) EXCEPT !.asked = Nothing]
             /\ requests' = Answered(requests, a.of, CASE events = <<>> -> "unchanged"
                                               [] events = <<Superseded>> -> "superseded"
                                               [] OTHER -> "saved")
     /\ UNCHANGED <<worker, owner, used>>

(* The stages of a generation: readGeneration, prepareGeneration,          *)
(* runGeneration and acceptGeneration.                                     *)
Ends(id, what, t) ==
  /\ title' = Finished(t, id) /\ requests' = Answered(requests, id, what)
  /\ UNCHANGED <<worker, used>>
Goes(t) == title' = t /\ UNCHANGED <<requests, worker, used>>

Prepare(id, t) ==
  LET w == requests[id]
      c == w.creation
  IN \/ Pinned(w.read) /\ w.kind # "refresh" /\ Ends(id, "superseded", t)
     \/ /\ ~(Pinned(w.read) /\ w.kind # "refresh")
        /\ IF w.kind = "refresh" /\ (Setting.provider = "none" \/ Prompts(w.read) = {})
           THEN Goes(Asks(t, "commit", "refreshed", id, c))
           ELSE IF w.kind = "auto" /\ ~ShouldGenerate(w) THEN Ends(id, "unchanged", t)
           ELSE IF Prompts(w.read) = {} THEN Ends(id, "failed", t)
           ELSE Goes(Asks(t, "stage", "request", id, c))

Continue ==
  /\ title.asked = Nothing
  /\ \E p \in title.piped :
       LET id == p.of
           c == requests[id].creation
           t == [title EXCEPT !.piped = @ \ {p}]
       IN CASE ~Current(id) -> Ends(id, "superseded", t)
            [] Current(id) /\ ~p.ok -> Ends(id, "failed", t)
            [] OTHER ->
                 \/ p.stage = "fallback" /\ Goes(Asks(t, "stage", "read", id, c))
                 \/ p.stage = "read" /\ Prepare(id, t)
                 \/ /\ p.stage = "request" /\ title' = t
                    /\ worker' = [worker EXCEPT ![c].queue = Append(@, id)]
                    /\ UNCHANGED <<requests, used>>
                 \/ p.stage = "generated" /\ Goes(Asks(t, "commit", "provider", id, c))
  /\ UNCHANGED <<chat, feed, owner>>

(* The worker: one call at a time; a cancelled one gives nothing.          *)
Generate(c) ==
  /\ worker[c].up /\ worker[c].queue # <<>> /\ Head(worker[c].queue) # 0
  /\ LET id == Head(worker[c].queue)
     IN \E ok \in BOOLEAN :
          /\ ok => title.pending[c] = id
          /\ title' = [title EXCEPT !.piped = @ \cup {[stage |-> "generated", of |-> id, ok |-> ok]}]
  /\ worker' = [worker EXCEPT ![c].queue = Tail(@)]
  /\ UNCHANGED <<chat, feed, owner, requests, used>>

Drain(c) ==
  /\ worker[c].up /\ worker[c].queue # <<>> /\ Head(worker[c].queue) = 0
  /\ \/ /\ worker' = [worker EXCEPT ![c] = Stopped]
        /\ CloseAnswered(title.asked.plan, c, [title EXCEPT !.asked = Nothing, !.bindings[c] = "closed"])
     \/ /\ Uses("faults")
        /\ worker' = [worker EXCEPT ![c].queue = Tail(@)]
        /\ title' = [title EXCEPT !.asked = Nothing] /\ UNCHANGED feed
        /\ owner' = IF title.asked.plan = "registry" /\ owner.task = "closing" /\ owner.creation = c
                    THEN StopFails(owner) ELSE owner
  /\ UNCHANGED <<chat, requests>>

Next ==
  \/ Open \/ Shut \/ Prompt \/ Start \/ Stop \/ ReadHeader \/ Subscribe \/ GiveUp \/ KillSubscriber
  \/ \E kind \in Setting.kinds : Submit(kind)
  \/ Receive \/ Fails \/ Reads \/ Commits \/ Continue
  \/ \E c \in Creations : Forward(c) \/ Generate(c) \/ Drain(c)

Spec == Init /\ [][Next]_titlesVars

----------------------------------------------------------------------------
(* Properties.                                                             *)

Titles == {i \in 1..Now : chat.log[i].kind = "title"}

(* A user's title is replaced by another, or by a refresh that has seen it *)
(* (policy.go, "a later rename is never replaced"); a fallback that was    *)
(* not asked for fills only an absent title.                               *)
UserTitlesStay ==
  \A i \in Titles :
    LET e == chat.log[i]
        before == TitleAt(i - 1)
        w == requests[e.by]
    IN /\ e.source # "user" /\ Pinned(i - 1) => w.kind = "refresh" /\ w.read >= before
       /\ e.source = "fallback" /\ before # 0 => w.kind = "refresh"

(* A generated title is of the messages the log has, and was asked for in  *)
(* the log before the model was called (llm_provider.go:43).               *)
TitlesDescribe ==
  /\ \A i \in Titles :
       LET e == chat.log[i] w == requests[e.by]
       IN e.source = "provider" =>
            /\ Prompts(i) = Prompts(w.read) /\ TitleAt(i - 1) = TitleAt(w.read)
            /\ \E j \in w.read..i : chat.log[j].kind = "request" /\ chat.log[j].by = e.by
  /\ \A c \in Creations : \A k \in DOMAIN worker[c].queue :
       LET id == worker[c].queue[k]
       IN id # 0 => \E j \in 1..Now : chat.log[j].kind = "request" /\ chat.log[j].by = id

(* A request is answered for what it did, and none is forgotten.           *)
RequestsAreTrue ==
  \A id \in DOMAIN requests :
    LET w == requests[id]
        made == {i \in Titles : chat.log[i].by = id /\ i > w.read}
        began == w.kind \in {"auto", "generate", "refresh"} /\ w.read = 0
        mine(x) == x.of = id
    IN /\ w.answer = "saved" => Cardinality(made) = 1
       /\ w.answer \in {"failed", "superseded", "unchanged"} /\ ~began => made = {}
       /\ w.answer = None =>
            \/ title.asked.what # None /\ mine(title.asked)
            \/ \E p \in title.piped : mine(p)
            \/ \E k \in DOMAIN title.inbox : title.inbox[k].type = "ask" /\ mine(title.inbox[k])
            \/ worker[w.creation].up /\ \E k \in DOMAIN worker[w.creation].queue : worker[w.creation].queue[k] = id

(* A component that is available serves its Session until that closes; one *)
(* that was stopped has left nothing behind, and will write nothing.       *)
ComponentsAreWhole ==
  /\ owner.phase = "available" /\ chat.creation = owner.creation /\ ~owner.stopping =>
       /\ title.bindings[owner.creation] = "open" /\ worker[owner.creation].up /\ feed[owner.creation].up
  /\ \A c \in owner.stopped :
       /\ ~worker[c].up /\ ~feed[c].up /\ title.pending[c] = 0
       /\ title.bindings[c] # "open" /\ (title.asked.what # None => title.asked.creation # c)

TitlesAreTrue == UserTitlesStay /\ TitlesDescribe /\ RequestsAreTrue /\ ComponentsAreWhole
=============================================================================
