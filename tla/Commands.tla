------------------------------- MODULE Commands -------------------------------
(***************************************************************************)
(* Slash commands: the registry of command definitions and of the Grains   *)
(* that serve them, the Grain that executes the commands of one Session    *)
(* (commands, commands/actor), the client of the API that waits for a      *)
(* command, and the publication of /compact by the Compaction Grain.       *)
(*                                                                         *)
(* A command is resolved, its run is committed to the Session's log, its   *)
(* handler is asked, what the handler said is checked against the log, and *)
(* its done is committed; a cancellation may come at any point.  One       *)
(* Session and one command name; a request asked again after its pause of  *)
(* 100 ms is asked again at once.                                          *)
(***************************************************************************)
EXTENDS Integers, Sequences, FiniteSets, SequencesExt

CONSTANTS
  Settings   \* bounds of the behaviours, one after another:
             \*   creations  of the Agent, whose components start and close
             \*   calls      executions of the command
             \*   images     whether a line may come with images
             \*   cancels    cancellations
             \*   configured publications by others: subset of {"global", "override"}
             \*   faults     lost or refused requests, lost Session, unconfirmed handler

VARIABLES
  chat,       \* the Session: its open creation (or 0) and the command events of its log
  owner,      \* the execution Grain: its creation (0: fresh), and whether it is open
  calls,      \* every invocation, with its requests and what became of its handler
  names,      \* the registry Grain
  publisher,  \* phase of every publication
  posts,      \* messages to the registry Grain
  used        \* the setting, and how much of it is used

commandsVars == <<chat, owner, calls, names, publisher, posts, used>>

None == "none"
Setting == Settings[used.of]
Creations == 1..Setting.creations
Configured == {Setting.creations + 1, Setting.creations + 2}
Publications == Creations \cup Configured
Kinds == {"advert", "global", "override"}
Kind(p) == IF p \in Creations THEN "advert"
           ELSE IF p = Setting.creations + 1 THEN "global" ELSE "override"
Uses(what) == used.n[what] < Setting[what] /\ used' = [used EXCEPT !.n[what] = @ + 1]

Init ==
  /\ used \in [of : DOMAIN Settings, n : {[calls |-> 0, cancels |-> 0, faults |-> 0]}]
  /\ chat = [creation |-> 0, last |-> 0, log |-> <<>>]
  /\ owner = [creation |-> 0, open |-> FALSE]
  /\ calls = <<>>
  /\ names = [slot |-> [k \in Kinds |-> 0], default |-> 0, own |-> 0, live |-> {}, retired |-> {}]
  /\ publisher = [p \in Publications |->
                    IF Kind(p) \in Setting.configured THEN "pending" ELSE "absent"]
  /\ posts = {}

----------------------------------------------------------------------------
(* The registry (registry.go, catalog.go): a global default or a Session   *)
(* override with its handler, or a handler that only advertises itself.    *)

Register(n, p) ==
  IF p \in n.retired \cup n.live \/ n.slot[Kind(p)] # 0 THEN n
  ELSE LET named == CASE Kind(p) = "global" -> [n EXCEPT !.default = p]
                      [] Kind(p) = "override" -> [n EXCEPT !.own = p]
                      [] OTHER -> [n EXCEPT !.default = IF @ = 0 THEN p ELSE @]
       IN [named EXCEPT !.slot[Kind(p)] = p, !.live = @ \cup {p}]

Unregister(n, p) ==
  LET m == IF p \notin n.live THEN n
           ELSE LET freed == [n EXCEPT !.slot[Kind(p)] = 0, !.live = @ \ {p}]
                IN CASE Kind(p) = "global" -> [freed EXCEPT !.default = IF @ = p THEN 0 ELSE @]
                     [] Kind(p) = "override" -> [freed EXCEPT !.own = 0]
                     [] OTHER -> freed
  IN [m EXCEPT !.retired = @ \cup {p}]

Listed(n) == n.own # 0 \/ n.default # 0
Resolved(n) ==
  IF ~Listed(n) THEN 0
  ELSE CHOOSE p \in {n.slot[k] : k \in Kinds} :
         p = IF n.slot["override"] # 0 THEN n.slot["override"]
             ELSE IF n.slot["advert"] # 0 THEN n.slot["advert"] ELSE n.slot["global"]

(* A publisher repeats its message until it is confirmed.                  *)
Publish(p) ==
  /\ publisher[p] = "pending" /\ posts' = posts \cup {[op |-> "register", of |-> p]}
  /\ UNCHANGED <<chat, owner, calls, names, publisher, used>>

(* Grain.closeCommand: no invocation of this handler is active.            *)
Withdraw(p) ==
  /\ publisher[p] \in {"pending", "published", "closing"}
  /\ \A i \in DOMAIN calls : calls[i].work = "running" => calls[i].handler # p
  /\ publisher' = [publisher EXCEPT ![p] = "closing"]
  /\ posts' = posts \cup {[op |-> "withdraw", of |-> p]}
  /\ UNCHANGED <<chat, owner, calls, names, used>>

(* A copy of a registration may stay behind, and its answer may be lost.   *)
RegistryReceives ==
  /\ \E m \in posts :
       \/ /\ m.op = "register" /\ names' = Register(names, m.of)
          /\ posts' \in {posts, posts \ {m}}
          /\ publisher' \in {publisher, [publisher EXCEPT ![m.of] =
               IF @ = "pending" /\ m.of \in names'.live THEN "published" ELSE @]}
       \/ /\ m.op = "withdraw" /\ names' = Unregister(names, m.of)
          /\ posts' = posts \ {m}
          /\ publisher' \in {publisher, [publisher EXCEPT ![m.of] = IF @ = "closing" THEN "gone" ELSE @]}
  /\ UNCHANGED <<chat, owner, calls, used>>

----------------------------------------------------------------------------
(* An invocation (command.go, grain.go); each operator gives it as it is   *)
(* after one step of the Grain.                                            *)

Fresh(images) ==
  [kept |-> TRUE, creation |-> owner.creation, stage |-> "new", images |-> images,
   cause |-> FALSE, failure |-> FALSE, outcome |-> None, pending |-> FALSE, write |-> None,
   asks |-> <<>>, replies |-> {}, answer |-> None,
   handler |-> 0, work |-> None, starts |-> 0, stopped |-> FALSE]

(* Only the first answer reaches the client.                               *)
Answer(c, what) == [c EXCEPT !.answer = IF @ = None THEN what ELSE @]
Retire(c) ==
  [c EXCEPT !.kept = ~(c.answer # None /\ ~c.pending /\ c.write = None) /\ @]
Ask(c, kind, result) ==
  [c EXCEPT !.asks = Append(@, [kind |-> kind, result |-> result, heard |-> TRUE])]
Write(c, kind) == Ask([c EXCEPT !.write = kind], kind, None)
WriteDone(c) == IF c.write # None \/ c.stage # "done" THEN c ELSE Write(c, "done")
Conclude(c, what) == IF c.stage = "ready" THEN [c EXCEPT !.stage = "done", !.outcome = what] ELSE c
Invoke(c) == [c EXCEPT !.pending = TRUE, !.work = "sent"]

ResolutionReceived(c, r) ==
  IF r.what = "failed" \/ c.cause THEN Retire(Answer(c, "undelivered"))
  ELSE IF r.of = 0 THEN Retire(Answer(c, "absent"))
  ELSE Write([c EXCEPT !.stage = "run", !.handler = r.of], "run")

(* ConfirmRun: a cancellation, or images, conclude it at once.             *)
ConfirmRun(c) ==
  LET ready == [c EXCEPT !.write = None, !.stage = "ready"]
      d == IF c.failure THEN Conclude(ready, "cancelled")
           ELSE IF c.images THEN Conclude(ready, "error") ELSE ready
  IN IF d.stage = "ready" THEN Invoke(d) ELSE WriteDone(d)
ConfirmDone(c) ==
  Retire(Answer([c EXCEPT !.write = None, !.stage = "finished"], c.outcome))

CommitReceived(c, r) ==
  IF c.write # r.kind THEN c
  ELSE CASE r.what = "failed" -> Ask(c, r.kind, None)
         [] r.what = "refused" -> IF r.kind = "run" THEN Retire(Answer([c EXCEPT !.write = None], "undelivered"))
                                  ELSE Answer(c, "undelivered")
         [] OTHER -> IF r.kind = "run" THEN ConfirmRun(c) ELSE ConfirmDone(c)

HandlerReceived(c, r) ==
  IF r.what = "unconfirmed" THEN Answer(c, "undelivered")
  ELSE LET d == [c EXCEPT !.pending = FALSE]
       IN IF d.answer # None THEN Retire(d)
          ELSE IF d.write # None THEN d
          ELSE IF d.stage # "ready" THEN WriteDone(d)
          ELSE IF r.what = "failed" THEN WriteDone(Conclude(d, "failed"))
          ELSE Ask(d, "history", r.what)

HistoryReceived(c, r) ==
  IF c.write # None \/ c.answer # None THEN Retire(c)
  ELSE WriteDone(Conclude(c, IF r.what = "failed" THEN "failed" ELSE r.result))

(* Grain.cancel: the first cause is kept; what comes after a conclusion    *)
(* changes nothing.                                                        *)
CancelCall(c) ==
  LET d == [c EXCEPT !.cause = TRUE, !.stopped = @ \/ c.stage \in {"new", "run"}]
  IN CASE c.stage = "new" -> d
       [] c.stage = "run" -> [d EXCEPT !.failure = TRUE]
       [] OTHER -> WriteDone(Conclude(d, "cancelled"))

----------------------------------------------------------------------------
(* The execution Grain, its clients, and those it asks.                    *)

Changes(i, c) == calls' = [calls EXCEPT ![i] = c]
Reply(c, kind, what, of, result) ==
  [c EXCEPT !.replies = @ \cup {[kind |-> kind, what |-> what, of |-> of, result |-> result]}]

(* Grain.execute *)
Execute ==
  /\ owner.open /\ Uses("calls")
  /\ \E images \in {FALSE, Setting.images} :
       calls' = Append(calls, Ask(Fresh(images), "resolve", None))
  /\ UNCHANGED <<chat, owner, names, publisher, posts>>

Cancel(i) ==
  /\ calls[i].kept /\ Uses("cancels") /\ Changes(i, CancelCall(calls[i]))
  /\ UNCHANGED <<chat, owner, names, publisher, posts>>

(* Grain.receiveReply *)
Receive(i) ==
  /\ \E r \in calls[i].replies :
       LET c == [calls[i] EXCEPT !.replies = @ \ {r}]
       IN Changes(i, IF ~c.kept THEN c
                     ELSE CASE r.kind = "resolve" -> ResolutionReceived(c, r)
                            [] r.kind \in {"run", "done"} -> CommitReceived(c, r)
                            [] r.kind = "handler" -> HandlerReceived(c, r)
                            [] r.kind = "history" -> HistoryReceived(c, r))
  /\ UNCHANGED <<chat, owner, names, publisher, posts, used>>

Event(kind, i, what) == [kind |-> kind, of |-> i, what |-> what]
(* eventWrite.FindCommit: an earlier delivery of the same write.           *)
(* Variant: a write is not looked for before it is appended.               *)
FoundNever(kind, i) == {}
Found(kind, i) == {k \in DOMAIN chat.log : chat.log[k].kind = kind /\ chat.log[k].of = i}

(* Requests of one kind are served in the order of their attempts.         *)
Serve(i, k) ==
  LET c == calls[i]
      a == c.asks[k]
      d == [c EXCEPT !.asks = RemoveAt(@, k)]
      Heard(what, of) == IF a.heard THEN Reply(d, a.kind, what, of, a.result) ELSE d
      Is(what) == Changes(i, Heard(what, 0)) /\ UNCHANGED <<chat, used>>
      current == chat.creation = c.creation
  IN /\ \A j \in 1..(k - 1) : c.asks[j].kind # a.kind
     /\ CASE a.kind = "resolve" -> Changes(i, Heard("found", Resolved(names))) /\ UNCHANGED <<chat, used>>
          [] a.kind = "history" -> Is(IF current THEN "read" ELSE "failed")
          [] OTHER ->
               \/ ~current /\ Is("refused")
               \/ current /\ Found(a.kind, i) # {} /\ Is("committed")
               \/ /\ current /\ Found(a.kind, i) = {}
                  /\ chat' = [chat EXCEPT !.log = Append(@, Event(a.kind, i, c.outcome))]
                  /\ Changes(i, Heard("committed", 0)) /\ UNCHANGED used
               \/ Uses("faults") /\ Changes(i, Heard("refused", 0)) /\ UNCHANGED chat
     /\ UNCHANGED <<owner, names, publisher, posts>>

(* The wait for an answer ends; a write may be carried out later.          *)
TimesOut(i, k) ==
  LET c == calls[i]
      a == c.asks[k]
  IN /\ a.heard /\ Uses("faults")
     /\ Changes(i, Reply([c EXCEPT !.asks = IF a.kind \in {"run", "done"} THEN [@ EXCEPT ![k].heard = FALSE]
                                            ELSE RemoveAt(@, k)],
                         a.kind, "failed", 0, a.result))
     /\ UNCHANGED <<chat, owner, names, publisher, posts>>

(* The handler: the Compaction Grain, while its command is not withdrawn.  *)
Served(c) ==
  Kind(c.handler) # "advert" \/ publisher[c.creation] \in {"pending", "published"}
Begin(i) ==
  LET c == [calls[i] EXCEPT !.starts = @ + 1]
  IN /\ calls[i].work = "sent"
     /\ IF Served(c)
        THEN \/ Changes(i, [c EXCEPT !.work = "running"])
             \/ Changes(i, Reply([c EXCEPT !.work = "ended"], "handler", "error", 0, None))
        ELSE Changes(i, Reply([c EXCEPT !.work = "ended"], "handler", "failed", 0, None))
     /\ UNCHANGED <<chat, owner, names, publisher, posts, used>>

End(i) ==
  /\ calls[i].work = "running"
  /\ \/ /\ \E what \in {"success", "error", "failed"} :
             Changes(i, Reply([calls[i] EXCEPT !.work = "ended"], "handler", what, 0, None))
        /\ UNCHANGED used
     \/ /\ Uses("faults")
        /\ Changes(i, Reply([calls[i] EXCEPT !.work = "ended"], "handler", "unconfirmed", 0, None))
  /\ UNCHANGED <<chat, owner, names, publisher, posts>>

(* The directory starts the components of a creation of the Agent.         *)
Start ==
  /\ chat.creation = 0 /\ owner.creation = 0 /\ chat.last < Setting.creations
  /\ chat' = [chat EXCEPT !.creation = chat.last + 1, !.last = @ + 1]
  /\ owner' = [creation |-> chat.last + 1, open |-> TRUE]
  /\ publisher' = [publisher EXCEPT ![chat.last + 1] = "pending"]
  /\ UNCHANGED <<calls, names, posts, used>>

(* Close, once no call is kept; its capability has closed before.          *)
Close ==
  /\ owner.open /\ publisher[owner.creation] = "gone" /\ \A i \in DOMAIN calls : ~calls[i].kept
  /\ owner' = [owner EXCEPT !.open = FALSE]
  /\ UNCHANGED <<chat, calls, names, publisher, posts, used>>

(* The Grain stops; the next creation finds a fresh one.                   *)
Deactivate ==
  /\ owner.creation # 0 /\ ~owner.open /\ owner' = [owner EXCEPT !.creation = 0]
  /\ UNCHANGED <<chat, calls, names, publisher, posts, used>>

(* The Session is closed last, or its activation is lost.                  *)
Shut ==
  /\ chat.creation # 0
  /\ (owner.creation = 0 /\ UNCHANGED used) \/ Uses("faults")
  /\ chat' = [chat EXCEPT !.creation = 0]
  /\ UNCHANGED <<owner, calls, names, publisher, posts>>

Next ==
  \/ Start \/ Execute \/ Close \/ Deactivate \/ Shut \/ RegistryReceives
  \/ \E p \in Publications : Publish(p) \/ Withdraw(p)
  \/ \E i \in DOMAIN calls :
       \/ Cancel(i) \/ Receive(i) \/ Begin(i) \/ End(i)
       \/ \E k \in DOMAIN calls[i].asks : Serve(i, k) \/ TimesOut(i, k)

Spec == Init /\ [][Next]_commandsVars

----------------------------------------------------------------------------
(* Properties.                                                             *)

At(kind, i) == {k \in DOMAIN chat.log : chat.log[k].kind = kind /\ chat.log[k].of = i}

(* The log of a Session has at most one run and one done of a command, and *)
(* no done without its run (command.go), however often a write was tried.  *)
LifecyclesPair ==
  \A i \in DOMAIN calls :
    /\ Cardinality(At("run", i)) <= 1 /\ Cardinality(At("done", i)) <= 1
    /\ \A d \in At("done", i) : \E r \in At("run", i) : r < d

(* A handler is asked once at most, after its run is in the log, and never *)
(* when the cancellation came before (command.go:77, 195).                 *)
HandlersAreAdmitted ==
  \A i \in DOMAIN calls :
    LET c == calls[i]
    IN /\ c.starts <= 1 /\ (c.work # None => At("run", i) # {})
       /\ c.stopped => c.work = None /\ \A d \in At("done", i) : chat.log[d].what = "cancelled"

(* A result that is answered is the one in the log; an absent command has  *)
(* left nothing there; no call waits for nobody.                           *)
AnswersAreRecorded ==
  \A i \in DOMAIN calls :
    LET c == calls[i]
    IN /\ c.answer \notin {None, "absent", "undelivered"} =>
            \E d \in At("done", i) : chat.log[d].what = c.answer
       /\ c.answer = "absent" => At("run", i) = {}
       /\ c.answer = None =>
            \/ \E k \in DOMAIN c.asks : c.asks[k].heard
            \/ c.replies # {} \/ c.work \in {"sent", "running"}

(* While a handler may run or a write may still be made, its call is kept, *)
(* so that the Grain of its creation is not closed (grain.go:158).         *)
WorkIsOwned ==
  \A i \in DOMAIN calls :
    LET c == calls[i]
    IN c.work \in {"sent", "running"} \/ (\E k \in DOMAIN c.asks : c.asks[k].kind \in {"run", "done"})
         => c.kept /\ owner.open /\ owner.creation = c.creation

(* A publication that was withdrawn stays so, whatever message of it comes *)
(* late (registry.go:22); every route leads to a live publication.         *)
RoutesAreLive ==
  /\ \A p \in Publications : publisher[p] = "gone" => p \notin names.live
  /\ \A k \in Kinds : names.slot[k] # 0 => names.slot[k] \in names.live /\ Kind(names.slot[k]) = k
  /\ Cardinality({k \in Kinds : names.slot[k] # 0}) = Cardinality(names.live)

CommandsAreTrue ==
  LifecyclesPair /\ HandlersAreAdmitted /\ AnswersAreRecorded /\ WorkIsOwned /\ RoutesAreLive
=============================================================================
