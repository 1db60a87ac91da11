------------------------------ MODULE ClientFeed ------------------------------
(***************************************************************************)
(* What connected clients see of one Session and what they answer: the     *)
(* Subscriber that turns commit notices into frames, the Broker's bounded  *)
(* deliveries and pending interactions (apiproxy/stream), a connection's   *)
(* baseline and live frames (apiproxy/session/events), and the questions   *)
(* and approvals tools ask through the interaction Gateway (apiproxy/      *)
(* interaction, approval, userquestions).                                  *)
(*                                                                         *)
(* Events are numbered from 1.  The Inbox holds the numbers of the events  *)
(* that added its messages.  A body is an asking tool call; its context is *)
(* cancelled by the tool's caller.                                         *)
(***************************************************************************)
EXTENDS Integers, Sequences, FiniteSets

CONSTANTS
  Clients,      \* connections
  Questions,    \* bodies of ask_user_question
  Approvals,    \* bodies of the approval tool
  Settings      \* bounds of the behaviours, one after another:
                \*   events    commits of the Session
                \*   creations, turns  of the Session
                \*   opens     connections opened
                \*   capacity  of a delivery, in batches
                \*   bodies    interactions that may be asked
                \*   cancels   of bodies
                \*   faults    failed or lost replies
                \*   closing   whether the server closes
                \*   policy    the effective approval policy

VARIABLES
  session,      \* the live creation and the open Turn (0: none), both counted; the log
  subscriber,   \* notices waiting, the delivery at work, events given up
  broker,       \* pending interactions in order; closed
  clients,      \* the Mux of each connection and what it has emitted
  asks,         \* the bodies, their gateway entries and audits
  gateway,      \* open, closing or closed
  used          \* the setting, and how much of it is used

feedVars == <<session, subscriber, broker, clients, asks, gateway, used>>

Bodies == Questions \cup Approvals
Unknown == -1
NoQueue == <<0>>
NoDelivery == [seq |-> 0, creation |-> 0, queue |-> NoQueue, read |-> FALSE]
Away == [stage |-> "away", attached |-> FALSE, buffer |-> <<>>, replay |-> {}, creation |-> 0,
         cut |-> Unknown, from |-> Unknown, shown |-> <<>>, queue |-> NoQueue, asks |-> {}]
NoAsk == [pc |-> "idle", cancelled |-> FALSE, response |-> "none", settled |-> FALSE,
          frame |-> "none", turn |-> 0, decided |-> "none", choice |-> "none",
          result |-> "none"]
NoUse == [opens |-> 0, cancels |-> 0, faults |-> 0]

Setting == Settings[used.of]

Init ==
  /\ session = [creation |-> 0, creations |-> 0, log |-> <<>>, turn |-> 0, turns |-> 0]
  /\ subscriber = [mailbox |-> <<>>, active |-> NoDelivery, lost |-> {}]
  /\ broker = [pending |-> <<>>, closed |-> FALSE]
  /\ clients = [c \in Clients |-> Away]
  /\ asks = [b \in Bodies |-> NoAsk]
  /\ gateway = "open"
  /\ used \in [of : DOMAIN Settings, n : {NoUse}]

Uses(what) ==
  /\ used.n[what] < Setting[what]
  /\ used' = [used EXCEPT !.n[what] = @ + 1]

----------------------------------------------------------------------------
(* The Broker.                                                             *)

(* broadcast: a full delivery is disconnected with ErrSlowConsumer; what it*)
(* holds already can still be read.                                        *)
Broadcast(batch) ==
  [c \in Clients |->
     LET to == clients[c]
     IN IF ~to.attached THEN to
        ELSE IF Len(to.buffer) = Setting.capacity THEN [to EXCEPT !.attached = FALSE]
        ELSE [to EXCEPT !.buffer = Append(@, batch)]]

EventBatch(seq, queue) == [kind |-> "event", seq |-> seq, queue |-> queue, of |-> "none"]
Frame(kind, b) == [kind |-> kind, seq |-> 0, queue |-> NoQueue, of |-> b]

PendingBodies == {broker.pending[i] : i \in DOMAIN broker.pending}

(* PublishPending keeps the request for later connections, whoever is slow.*)
PublishPending(b) ==
  /\ broker' = [broker EXCEPT !.pending = Append(@, b)]
  /\ clients' = Broadcast(Frame("requested", b))

(* ResolvePending: nothing is broadcast for a request that is not kept.    *)
ResolvePending(b) ==
  LET others(x) == x # b
  IN IF b \in PendingBodies
     THEN /\ broker' = [broker EXCEPT !.pending = SelectSeq(@, others)]
          /\ clients' = IF broker.closed THEN clients ELSE Broadcast(Frame("resolved", b))
     ELSE UNCHANGED <<broker, clients>>

----------------------------------------------------------------------------
(* The Session and its commit notices.                                     *)

(* projectQueue after the first n events.                                  *)
QueueAt(n) ==
  LET queue[i \in 0..n] ==
        IF i = 0 THEN <<>>
        ELSE CASE session.log[i] = "added" -> Append(queue[i - 1], i)
               [] session.log[i] = "taken" -> Tail(queue[i - 1])
               [] OTHER -> queue[i - 1]
  IN queue[n]
Spliced(seq) == session.log[seq] \in {"added", "taken"}

OpenSession ==
  /\ session.creation = 0 /\ session.creations < Setting.creations
  /\ session' = [session EXCEPT !.creation = session.creations + 1, !.creations = @ + 1]
  /\ UNCHANGED <<subscriber, broker, clients, asks, gateway, used>>

CloseSession ==
  /\ session.creation # 0 /\ session.turn = 0
  /\ session' = [session EXCEPT !.creation = 0]
  /\ UNCHANGED <<subscriber, broker, clients, asks, gateway, used>>

(* A commit publishes its notice; a splice fits the Inbox it meets.        *)
Commit(kind) ==
  /\ session.creation # 0 /\ Len(session.log) < Setting.events
  /\ kind = "taken" => QueueAt(Len(session.log)) # <<>>
  /\ session' = [session EXCEPT !.log = Append(@, kind)]
  /\ subscriber' = [subscriber EXCEPT !.mailbox =
       Append(@, [NoDelivery EXCEPT !.seq = Len(session.log) + 1, !.creation = session.creation])]
  /\ UNCHANGED <<broker, clients, asks, gateway, used>>

(* Subscriber.Receive: one delivery at a time, later notices are stashed.  *)
Receive ==
  /\ subscriber.active = NoDelivery /\ subscriber.mailbox # <<>>
  /\ subscriber' = [subscriber EXCEPT !.active = Head(subscriber.mailbox), !.mailbox = Tail(@)]
  /\ UNCHANGED <<session, broker, clients, asks, gateway, used>>

Active == subscriber.active

(* Committed: the queue a splice leaves is read from the exact creation and*)
(* cut at the event.                                                       *)
ReadSnapshot ==
  /\ Active # NoDelivery /\ Spliced(Active.seq) /\ ~Active.read
  /\ session.creation = Active.creation
  /\ subscriber' = [subscriber EXCEPT !.active.read = TRUE, !.active.queue = QueueAt(Active.seq)]
  /\ UNCHANGED <<session, broker, clients, asks, gateway, used>>

(* The queue frame and the event frame are one batch.                      *)
PublishBatch ==
  /\ Active # NoDelivery /\ Spliced(Active.seq) = Active.read /\ ~broker.closed
  /\ clients' = Broadcast(EventBatch(Active.seq, Active.queue))
  /\ subscriber' = [subscriber EXCEPT !.active = NoDelivery]
  /\ UNCHANGED <<session, broker, asks, gateway, used>>

(* A failed Committed is logged and its event never published: the read    *)
(* failed, its creation is gone, or the Broker is closed.                  *)
DeliveryFails ==
  /\ Active # NoDelivery
  /\ \/ broker.closed /\ UNCHANGED used
     \/ Spliced(Active.seq) /\ ~Active.read
        /\ IF session.creation # Active.creation THEN UNCHANGED used ELSE Uses("faults")
  /\ subscriber' = [subscriber EXCEPT !.active = NoDelivery, !.lost = @ \cup {Active.seq}]
  /\ UNCHANGED <<session, broker, clients, asks, gateway>>

----------------------------------------------------------------------------
(* Connections: Feed.Mux.                                                  *)

Becomes(c, record) == clients' = [clients EXCEPT ![c] = record]

(* OpenMux registers before it captures the pending interactions.          *)
OpenMux(c) ==
  /\ clients[c].stage = "away" /\ ~broker.closed /\ Uses("opens")
  /\ Becomes(c, [Away EXCEPT !.stage = "listing", !.attached = TRUE, !.replay = PendingBodies])
  /\ UNCHANGED <<session, subscriber, broker, asks, gateway>>

(* The baseline of a Session known to be at cut: its subscription, the     *)
(* replayed interactions and a queue that is not empty.                    *)
Based(client, cut) ==
  [client EXCEPT !.stage = "live", !.cut = cut, !.from = cut, !.asks = client.replay,
                 !.queue = IF cut = Unknown THEN NoQueue ELSE QueueAt(cut)]

(* ListSnapshots lists the admitted creations, then reads each of them.    *)
ListSessions(c) ==
  /\ clients[c].stage = "listing"
  /\ Becomes(c, IF session.creation = 0 THEN Based(clients[c], Unknown)
                ELSE [clients[c] EXCEPT !.stage = "reading", !.creation = session.creation])
  /\ UNCHANGED <<session, subscriber, broker, asks, gateway, used>>

(* A creation proven stale during the read is omitted.                     *)
ReadListed(c) ==
  /\ clients[c].stage = "reading"
  /\ Becomes(c, Based(clients[c], IF session.creation = clients[c].creation
                                  THEN Len(session.log) ELSE Unknown))
  /\ UNCHANGED <<session, subscriber, broker, asks, gateway, used>>

(* Known prefixes are duplicates; the first event of a Session that was not*)
(* in the baseline establishes its cut.                                    *)
Duplicate(client, batch) == client.cut # Unknown /\ batch.seq <= client.cut

(* Variant: the queue frame of a duplicate event is emitted.               *)
EmittedByFrame(client, batch) ==
  CASE batch.kind = "requested" -> [client EXCEPT !.asks = @ \cup {batch.of}]
    [] batch.kind = "resolved" -> [client EXCEPT !.asks = @ \ {batch.of}]
    [] Duplicate(client, batch) ->
         [client EXCEPT !.queue = IF batch.queue = NoQueue THEN @ ELSE batch.queue]
    [] OTHER ->
         [client EXCEPT !.cut = batch.seq, !.shown = Append(@, batch.seq),
                        !.queue = IF batch.queue = NoQueue THEN @ ELSE batch.queue]

Emitted(client, batch) ==
  CASE batch.kind = "requested" -> [client EXCEPT !.asks = @ \cup {batch.of}]
    [] batch.kind = "resolved" -> [client EXCEPT !.asks = @ \ {batch.of}]
    [] Duplicate(client, batch) -> client
    [] OTHER ->
         [client EXCEPT !.cut = batch.seq, !.shown = Append(@, batch.seq),
                        !.queue = IF batch.queue = NoQueue THEN @ ELSE batch.queue]

NextBatch(c) ==
  /\ clients[c].stage = "live" /\ clients[c].buffer # <<>>
  /\ Becomes(c, [Emitted(clients[c], Head(clients[c].buffer)) EXCEPT !.buffer = Tail(@)])
  /\ UNCHANGED <<session, subscriber, broker, asks, gateway, used>>

(* Mux ends: its delivery was closed and is drained, a baseline read       *)
(* failed, or the client went away; Release.                               *)
MuxEnds(c) ==
  /\ clients[c].stage # "away"
  /\ Becomes(c, Away)
  /\ UNCHANGED <<session, subscriber, broker, asks, gateway, used>>

----------------------------------------------------------------------------
(* Bodies that ask.                                                        *)

Ask(b, record) == asks' = [asks EXCEPT ![b] = record]
Done(ask, result) == [ask EXCEPT !.pc = "done", !.result = result]

(* CheckCaller: whether the Agent is a live root is the registry's answer. *)
Eligible == BOOLEAN

StartQuestion(q) ==
  /\ q \in Questions \cap Setting.bodies /\ asks[q].pc = "idle"
  /\ \E eligible \in Eligible :
       Ask(q, IF eligible THEN [asks[q] EXCEPT !.pc = "presenting"] ELSE Done(asks[q], "refused"))
  /\ UNCHANGED <<session, subscriber, broker, clients, gateway, used>>

(* The last policy of the Session over the configured one.                 *)
Policy == Setting.policy

(* audit.Build: an audit belongs to the Turn its request was made in.      *)
SameTurn(a) == session.turn # 0 /\ session.turn = asks[a].turn

(* A request outside an open Turn is refused; the asked audit is committed *)
(* before anybody is asked, and a lost reply ends the call.                *)
StartApproval(a) ==
  /\ a \in Approvals \cap Setting.bodies /\ asks[a].pc = "idle"
  /\ \/ /\ session.turn # 0 /\ UNCHANGED used
        /\ Ask(a, [asks[a] EXCEPT !.turn = session.turn, !.pc = "presenting"])
     \/ /\ IF session.turn = 0 THEN UNCHANGED used ELSE Uses("faults")
        /\ \E turn \in {0, session.turn} : Ask(a, Done([asks[a] EXCEPT !.turn = turn], "failed"))
  /\ UNCHANGED <<session, subscriber, broker, clients, gateway>>

Refused(b) ==
  /\ Ask(b, [asks[b] EXCEPT !.pc = "returned", !.choice = "cancelled"])
  /\ UNCHANGED <<broker, clients>>
Published(b) ==
  /\ Ask(b, [asks[b] EXCEPT !.pc = "waiting", !.response = "pending"])
  /\ PublishPending(b)

(* Gateway.Ask.                                                            *)
PresentQuestion(q) ==
  /\ q \in Questions /\ asks[q].pc = "presenting"
  /\ IF gateway # "open" \/ asks[q].cancelled THEN Refused(q) ELSE Published(q)
  /\ UNCHANGED <<session, subscriber, gateway, used>>

(* Gateway.Answer, which a policy of never does not reach.                 *)
PresentApproval(a) ==
  /\ a \in Approvals /\ asks[a].pc = "presenting"
  /\ IF gateway # "open" \/ asks[a].cancelled \/ Policy = "never" THEN Refused(a) ELSE Published(a)
  /\ UNCHANGED <<session, subscriber, gateway, used>>

(* The decoders accept an answer to every question or its cancellation, and*)
(* allowed-once or rejected; any other response leaves the entry pending.  *)
QuestionAnswers == {"yes", "no"}
ApprovalAnswers == {"yes", "no"}

(* Catalog.Respond: the first valid answer claims the entry.               *)
Respond(b, answer) ==
  /\ asks[b].response = "pending"
  /\ answer \in IF b \in Questions THEN QuestionAnswers ELSE ApprovalAnswers
  /\ Ask(b, [asks[b] EXCEPT !.response = answer])
  /\ UNCHANGED <<session, subscriber, broker, clients, gateway, used>>

Cancel(b) ==
  /\ asks[b].pc \notin {"idle", "done"} /\ ~asks[b].cancelled /\ Uses("cancels")
  /\ Ask(b, [asks[b] EXCEPT !.cancelled = TRUE])
  /\ UNCHANGED <<session, subscriber, broker, clients, gateway>>

(* PendingResponse.Wait: the answer that claimed the entry wins, even over *)
(* a cancellation.                                                         *)
WaitReturns(b) ==
  /\ asks[b].pc = "waiting"
  /\ \/ /\ asks[b].response # "pending"
        /\ Ask(b, [asks[b] EXCEPT !.pc = "settling", !.choice = asks[b].response])
     \/ /\ asks[b].response = "pending" /\ asks[b].cancelled
        /\ Ask(b, [asks[b] EXCEPT !.pc = "settling", !.response = "cancelled",
                                  !.choice = "cancelled"])
  /\ UNCHANGED <<session, subscriber, broker, clients, gateway, used>>

(* finish: once, by the asker or by Close, and both wait for it.           *)
Finished(b, ask, outcome) ==
  IF ask.settled THEN Ask(b, ask) /\ UNCHANGED <<broker, clients>>
  ELSE Ask(b, [ask EXCEPT !.settled = TRUE, !.frame = outcome]) /\ ResolvePending(b)

Settle(b) ==
  /\ asks[b].pc = "settling"
  /\ Finished(b, [asks[b] EXCEPT !.pc = "returned"], asks[b].choice)
  /\ UNCHANGED <<session, subscriber, gateway, used>>

(* QuestionService.Ask: a body cancelled meanwhile hears of no answer.     *)
QuestionReturns(q) ==
  /\ q \in Questions /\ asks[q].pc = "returned"
  /\ Ask(q, Done(asks[q], IF asks[q].cancelled THEN "cancelled" ELSE asks[q].choice))
  /\ UNCHANGED <<session, subscriber, broker, clients, gateway, used>>

(* Decision.Resolve: cancellation takes precedence over a late answer.     *)
Resolved(a) ==
  IF asks[a].cancelled THEN "cancelled"
  ELSE IF Policy = "never" THEN "no" ELSE asks[a].choice

Resolve(a) ==
  /\ a \in Approvals /\ asks[a].pc = "returned"
  /\ Ask(a, [asks[a] EXCEPT !.pc = "deciding", !.choice = Resolved(a)])
  /\ UNCHANGED <<session, subscriber, broker, clients, gateway, used>>

(* Variant: an unconfirmed audit is taken for a committed one.             *)
CommitDecidedUnconfirmed(a) ==
  /\ asks[a].pc = "deciding" /\ SameTurn(a)
  /\ \E decided \in {"none", asks[a].choice} :
       Ask(a, Done([asks[a] EXCEPT !.decided = decided], asks[a].choice))
  /\ UNCHANGED <<session, subscriber, broker, clients, gateway, used>>

(* The outcome is exposed once its audit is committed in the same Turn.    *)
CommitDecided(a) ==
  /\ asks[a].pc = "deciding"
  /\ \/ /\ SameTurn(a) /\ UNCHANGED used
        /\ Ask(a, Done([asks[a] EXCEPT !.decided = asks[a].choice], asks[a].choice))
     \/ /\ SameTurn(a) /\ Uses("faults")
        /\ \E decided \in {"none", asks[a].choice} :
             Ask(a, Done([asks[a] EXCEPT !.decided = decided], "failed"))
     \/ ~SameTurn(a) /\ UNCHANGED used /\ Ask(a, Done(asks[a], "failed"))
  /\ UNCHANGED <<session, subscriber, broker, clients, gateway>>

TurnStarts ==
  /\ session.creation # 0 /\ session.turn = 0 /\ session.turns < Setting.turns
  /\ session' = [session EXCEPT !.turn = session.turns + 1, !.turns = @ + 1]
  /\ UNCHANGED <<subscriber, broker, clients, asks, gateway, used>>

(* A Turn may end over bodies whose contexts are cancelled.                *)
TurnEnds ==
  /\ session.turn # 0
  /\ \A b \in Bodies : asks[b].pc \in {"idle", "done"} \/ asks[b].cancelled
  /\ session' = [session EXCEPT !.turn = 0]
  /\ UNCHANGED <<subscriber, broker, clients, asks, gateway, used>>

----------------------------------------------------------------------------
(* Server.Close: interactions settle, then the downlinks close.            *)

StartClose ==
  /\ Setting.closing /\ gateway = "open"
  /\ gateway' = "closing"
  /\ UNCHANGED <<session, subscriber, broker, clients, asks, used>>

Owned(b) == asks[b].response # "none" /\ ~asks[b].settled

(* An entry nobody answered is withdrawn, then every entry is finished.    *)
CloseEntry(b) ==
  /\ gateway = "closing" /\ Owned(b)
  /\ Finished(b, IF asks[b].response = "pending"
                 THEN [asks[b] EXCEPT !.response = "cancelled"] ELSE asks[b], "cancelled")
  /\ UNCHANGED <<session, subscriber, gateway, used>>

FinishClose ==
  /\ gateway = "closing" /\ \A b \in Bodies : ~Owned(b)
  /\ gateway' = "closed" /\ broker' = [pending |-> <<>>, closed |-> TRUE]
  /\ clients' = [c \in Clients |-> [clients[c] EXCEPT !.attached = FALSE]]
  /\ UNCHANGED <<session, subscriber, asks, used>>

Next ==
  \/ OpenSession \/ CloseSession \/ TurnStarts \/ TurnEnds
  \/ \E kind \in {"added", "taken", "other"} : Commit(kind)
  \/ Receive \/ ReadSnapshot \/ PublishBatch \/ DeliveryFails
  \/ \E c \in Clients : OpenMux(c) \/ ListSessions(c) \/ ReadListed(c) \/ NextBatch(c) \/ MuxEnds(c)
  \/ \E b \in Bodies : \/ StartQuestion(b) \/ StartApproval(b) \/ Cancel(b)
                       \/ PresentQuestion(b) \/ PresentApproval(b)
                       \/ \E answer \in QuestionAnswers \cup ApprovalAnswers : Respond(b, answer)
                       \/ WaitReturns(b) \/ Settle(b) \/ QuestionReturns(b)
                       \/ Resolve(b) \/ CommitDecided(b) \/ CloseEntry(b)
  \/ StartClose \/ FinishClose

Spec == Init /\ [][Next]_feedVars

----------------------------------------------------------------------------
(* Properties.                                                             *)

(* The Session, the deliveries and the bodies keep the shapes of the code. *)
TypeOK ==
  /\ \A c \in Clients :
       /\ clients[c].stage \in {"away", "listing", "reading", "live"}
       /\ Len(clients[c].buffer) <= Setting.capacity
       /\ clients[c].cut \in Unknown..Len(session.log)
  /\ \A b \in Bodies :
       asks[b].pc \in {"idle", "presenting", "waiting", "settling", "returned", "deciding", "done"}
  /\ Cardinality(PendingBodies) = Len(broker.pending)

(* The events the Subscriber is done with.                                 *)
Processed ==
  Len(session.log) - Len(subscriber.mailbox) - (IF Active = NoDelivery THEN 0 ELSE 1)

Kept(from, to) ==
  LET kept(seq) == seq \notin subscriber.lost
  IN SelectSeq([i \in 1..(to - from) |-> from + i], kept)

Buffered(client) ==
  LET new(batch) == batch.kind = "event" /\ ~Duplicate(client, batch)
      events == SelectSeq(client.buffer, new)
  IN [i \in DOMAIN events |-> events[i].seq]

(* "Known prefixes are duplicates" (feed.go:114): what a connection was    *)
(* shown and has still to be shown continues its baseline without          *)
(* repetition or gap, up to events whose delivery failed.  A Session that  *)
(* was not in the baseline starts anywhere.                                *)
EventsContinue ==
  \A c \in Clients :
    LET client == clients[c] all == client.shown \o Buffered(client)
        from == IF client.from # Unknown THEN client.from
                ELSE IF all = <<>> THEN Processed ELSE all[1] - 1
    IN client.stage = "live" =>
         /\ client.shown = Kept(from, client.cut)
         /\ client.attached /\ from < Processed => all = Kept(from, Processed)

(* The queue a client shows is the Inbox at the last event it was shown.   *)
QueueIsCurrent ==
  \A c \in Clients :
    LET client == clients[c]
    IN client.stage = "live" /\ client.from # Unknown
       /\ (\A seq \in subscriber.lost : seq \notin (client.from + 1)..client.cut)
         => client.queue = QueueAt(client.cut)

Shown(asked, buffer) ==
  LET shown[i \in 0..Len(buffer)] ==
        IF i = 0 THEN asked
        ELSE CASE buffer[i].kind = "requested" -> shown[i - 1] \cup {buffer[i].of}
               [] buffer[i].kind = "resolved" -> shown[i - 1] \ {buffer[i].of}
               [] OTHER -> shown[i - 1]
  IN shown[Len(buffer)]

(* What a client shows as waiting for an answer, once it has read its      *)
(* buffer, is what is waiting: "closing the replay/live gap" (broker.go:76)*)
InteractionsAreShown ==
  /\ \A c \in Clients :
       clients[c].attached =>
         Shown(IF clients[c].stage = "live" THEN clients[c].asks ELSE clients[c].replay,
               clients[c].buffer) = PendingBodies
  /\ ~broker.closed => PendingBodies = {b \in Bodies : Owned(b)}

FeedIsTrue == TypeOK /\ EventsContinue /\ QueueIsCurrent /\ InteractionsAreShown

(* A body hears a human answer only if one was accepted, and an accepted   *)
(* one is heard unless the body was cancelled or its audit failed.         *)
AnswersAreHeard ==
  \A b \in Bodies :
    LET ask == asks[b]
    IN /\ ask.result \in {"yes", "no"} /\ Policy = "ask" => ask.response = ask.result
       /\ ask.frame \in {"yes", "no"} => ask.response = ask.frame
       /\ ask.pc = "done" /\ ask.response \in {"yes", "no"} /\ ~ask.cancelled =>
            ask.result \in {ask.response, "failed"}
       /\ ask.pc = "done" => ~Owned(b) /\ ask.response # "pending"

(* An approval's outcome is exposed only after its audit, within one Turn, *)
(* was committed; nothing is audited as allowed that nobody allowed        *)
(* (execution.go:16, :58, audit.go:10).                                       *)
ApprovalsAreAudited ==
  \A a \in Approvals :
    LET ask == asks[a]
    IN /\ ask.result \notin {"none", "failed"} => ask.decided = ask.result
       /\ ask.decided # "none" => ask.turn # 0
       /\ ask.decided = "yes" => ask.response = "yes"
       /\ ask.response # "none" => ask.turn # 0 /\ Policy = "ask"

AnswersAreTrue == AnswersAreHeard /\ ApprovalsAreAudited
=============================================================================
