----------------------------- MODULE Conversation -----------------------------
(***************************************************************************)
(* What clients ask of one Session (apiproxy/session): to create or adopt  *)
(* it, to be heard, to change what still waits in the Inbox, and to select *)
(* the model.  Requests run concurrently; each waits for the Agent         *)
(* directory, the Agent, the Session or the model directory, and any wait  *)
(* may end before what was asked is carried out.  Prompts with images and  *)
(* selections of a model take turns in the admission queue.                *)
(***************************************************************************)
EXTENDS Integers, Sequences, FiniteSets, SequencesExt

CONSTANTS
  Settings   \* bounds of the behaviours, one after another:
             \*   asks    requests, of the kinds
             \*   kinds   "create", "text", "image", "remove", "vision", "plain"
             \*   places  working directories that creations name
             \*   stops   waits that end early, closed Agents, failed starts
             \*   exists  whether the Session is stored and its Agent available

VARIABLES
  agent,     \* the Agent directory's entry: its state, creation, and whether of a new Session
  header,    \* the working directory the Session was created in, or None
  items,     \* every message: where it is, and whether it has images
  model,     \* whether the selected model accepts images, and who selected it
  tickets,   \* the admission queue of the Session, and who may proceed
  requests,  \* every request
  posts,     \* changes asked for and not yet carried out
  used       \* the setting, and how much of it is used

conversationVars == <<agent, header, items, model, tickets, requests, posts, used>>

None == "none"
Setting == Settings[used.of]
Uses(what) == used.n[what] < Setting[what] /\ used' = [used EXCEPT !.n[what] = @ + 1]
Selections == {"vision", "plain"}

Init ==
  /\ used \in [of : DOMAIN Settings, n : {[asks |-> 0, stops |-> 0]}]
  /\ agent = [state |-> IF Setting.exists THEN "ready" ELSE "absent", creation |-> 1,
              fresh |-> FALSE]
  /\ header = IF Setting.exists THEN CHOOSE p \in Setting.places : TRUE ELSE None
  /\ items = <<>> /\ model = [images |-> TRUE, by |-> 0]
  /\ tickets = [queue |-> <<>>, ready |-> {}]
  /\ requests = <<>> /\ posts = {}

----------------------------------------------------------------------------
(* The admission queue (admission_queue.go).                               *)

Enter(t, i) ==
  [queue |-> Append(t.queue, i), ready |-> IF t.queue = <<>> THEN t.ready \cup {i} ELSE t.ready]
Leave(t, i) ==
  IF ~Contains(t.queue, i) THEN t
  ELSE LET rest == Remove(t.queue, i)
       IN [queue |-> rest,
           ready |-> IF Head(t.queue) = i /\ rest # <<>> THEN t.ready \cup {Head(rest)} ELSE t.ready]

----------------------------------------------------------------------------
(* Requests, step by step.                                                 *)

Asked(kind, place) ==
  [kind |-> kind, place |-> place, at |-> "resolve", restore |-> FALSE, creation |-> 0,
   seen |-> FALSE, missed |-> {}, item |-> 0, answer |-> None]
Ask ==
  /\ Uses("asks")
  /\ \E kind \in Setting.kinds :
       \E place \in (IF kind = "create" THEN Setting.places ELSE {None}) :
         requests' = Append(requests, Asked(kind, place))
  /\ UNCHANGED <<agent, header, items, model, tickets, posts>>

Goes(i, at) == requests' = [requests EXCEPT ![i].at = at]
(* A request that ends gives its ticket back.                              *)
Ends(i, what) ==
  /\ requests' = [requests EXCEPT ![i].at = "done", ![i].answer = what]
  /\ tickets' = Leave(tickets, i)

(* The Agent that was found may have been replaced since.                  *)
Current(i) == agent.state = "ready" /\ agent.creation = requests[i].creation

(* Directory.Resolve waits for an initialization under way.                *)
Found(i) ==
  LET r == requests[i]
  IN requests' = [requests EXCEPT ![i].creation = agent.creation,
       ![i].at = CASE r.kind = "create" -> "adopt"
                   [] r.kind \in {"image"} \cup Selections -> "enter"
                   [] r.kind = "text" -> "send"
                   [] r.kind = "remove" -> "locate"]
Resolve(i) ==
  LET r == requests[i]
  IN /\ r.at = "resolve" /\ agent.state # "starting"
     /\ \/ agent.state = "ready" /\ Found(i) /\ UNCHANGED tickets
        \/ agent.state = "absent" /\ r.kind = "remove" /\ Ends(i, "missing")
        \/ agent.state = "absent" /\ r.kind # "remove" /\ Goes(i, "inspect") /\ UNCHANGED tickets
     /\ UNCHANGED <<agent, header, items, model, posts, used>>

(* Only a creation makes a Session there has never been.                   *)
Inspect(i) ==
  LET r == requests[i]
  IN /\ r.at = "inspect"
     /\ IF header = None /\ r.kind # "create" THEN Ends(i, "missing")
        ELSE /\ requests' = [requests EXCEPT ![i].at = "admit", ![i].restore = header # None]
             /\ UNCHANGED tickets
     /\ UNCHANGED <<agent, header, items, model, posts, used>>

(* Directory.Create: the winner of a race is adopted, unless it has gone.  *)
Admit(i) ==
  LET r == requests[i]
  IN /\ r.at = "admit"
     /\ \/ /\ agent.state = "absent" /\ (r.restore <=> header # None)
           /\ agent' = [state |-> "starting", creation |-> agent.creation + 1, fresh |-> ~r.restore]
           /\ header' = IF r.restore THEN header ELSE r.place
           /\ Goes(i, "wait") /\ UNCHANGED tickets
        \/ /\ agent.state = "absent" /\ ~(r.restore <=> header # None)
           /\ Ends(i, "failed") /\ UNCHANGED <<agent, header>>
        \/ /\ agent.state # "absent" /\ Goes(i, "wait") /\ UNCHANGED <<agent, header, tickets>>
     /\ UNCHANGED <<items, model, posts, used>>
Wait(i) ==
  /\ requests[i].at = "wait" /\ agent.state # "starting"
  /\ IF agent.state = "ready" THEN Found(i) /\ UNCHANGED tickets ELSE Ends(i, "failed")
  /\ UNCHANGED <<agent, header, items, model, posts, used>>

(* activation.ensure: what is adopted is what was asked for.               *)
Adopt(i) ==
  /\ requests[i].at = "adopt"
  /\ Ends(i, IF agent.state = "ready" /\ header = requests[i].place THEN "created" ELSE "failed")
  /\ UNCHANGED <<agent, header, items, model, posts, used>>

Acquire(i) ==
  /\ \/ requests[i].at = "enter" /\ tickets' = Enter(tickets, i) /\ Goes(i, "queued")
     \/ /\ requests[i].at = "queued" /\ i \in tickets.ready /\ UNCHANGED tickets
        /\ Goes(i, IF requests[i].kind = "image" THEN "check" ELSE "pending")
  /\ UNCHANGED <<agent, header, items, model, posts, used>>

(* Prompt: the model has to accept images before they are saved.           *)
Check(i) ==
  /\ requests[i].at = "check"
  /\ IF model.images THEN Goes(i, "send") /\ UNCHANGED tickets ELSE Ends(i, "refused")
  /\ UNCHANGED <<agent, header, items, model, posts, used>>

(* agentContainsImage: what waits in the Inbox, then what the log derives. *)
In(where) == {m \in DOMAIN items : items[m].image /\ items[m].at \in where}
(* Variant: the log before the Inbox.                                      *)
ReadsOfLogFirst == [pending |-> {"history"}, history |-> {"inbox"}]
Reads == [pending |-> {"inbox"}, history |-> {"history"}]
Read(i) ==
  LET r == requests[i]
      found == In(Reads[r.at]) # {}
  IN /\ r.at \in DOMAIN Reads
     /\ IF IF r.at = "pending" THEN Current(i) ELSE agent.state # "absent"
        THEN /\ requests' = [requests EXCEPT ![i].seen = @ \/ found,
                  ![i].missed = IF r.at = "pending" THEN In({"claimed"}) ELSE @,
                  ![i].at = IF found \/ r.at = "history" THEN "choose" ELSE "history"]
             /\ UNCHANGED tickets
        ELSE Ends(i, "failed")
     /\ UNCHANGED <<agent, header, items, model, posts, used>>

Choose(i) ==
  /\ requests[i].at = "choose"
  /\ IF requests[i].seen /\ requests[i].kind = "plain" THEN Ends(i, "refused")
     ELSE Goes(i, "send") /\ UNCHANGED tickets
  /\ UNCHANGED <<agent, header, items, model, posts, used>>

(* UpdateQueue: what it finds waiting may be claimed when it is changed.   *)
Locate(i) ==
  /\ requests[i].at = "locate"
  /\ \/ /\ Current(i)
        /\ \E m \in DOMAIN items :
             /\ items[m].at = "inbox"
             /\ requests' = [requests EXCEPT ![i].at = "send", ![i].item = m]
        /\ UNCHANGED tickets
     \/ Current(i) /\ (\A m \in DOMAIN items : items[m].at # "inbox") /\ Ends(i, "missing")
     \/ ~Current(i) /\ Ends(i, "failed")
  /\ UNCHANGED <<agent, header, items, model, posts, used>>

Send(i) ==
  /\ requests[i].at = "send" /\ posts' = posts \cup {i} /\ Goes(i, "sent")
  /\ UNCHANGED <<agent, header, items, model, tickets, used>>

(* The Agent, or the model directory, carries out what was asked.          *)
Serve(i) ==
  LET r == requests[i]
      Says(what) == IF r.at = "sent" THEN Ends(i, what) ELSE UNCHANGED <<requests, tickets>>
  IN /\ i \in posts /\ posts' = posts \ {i}
     /\ \/ /\ r.kind \in Selections /\ Says("selected")
           /\ model' = [images |-> r.kind = "vision", by |-> i] /\ UNCHANGED items
        \/ /\ r.kind \in {"text", "image"} /\ Current(i) /\ Says("accepted")
           /\ items' = Append(items, [at |-> "inbox", image |-> r.kind = "image", by |-> i])
           /\ UNCHANGED model
        \/ /\ r.kind = "remove" /\ Current(i) /\ items[r.item].at = "inbox" /\ Says("accepted")
           /\ items' = [items EXCEPT ![r.item].at = "removed"] /\ UNCHANGED model
        \/ /\ r.kind = "remove" /\ Current(i) /\ items[r.item].at # "inbox" /\ Says("missing")
           /\ UNCHANGED <<items, model>>
        \/ /\ r.kind \notin Selections /\ ~Current(i) /\ Says("failed") /\ UNCHANGED <<items, model>>
     /\ UNCHANGED <<agent, header, used>>

(* The client leaves, or the wait is over; what was posted stays posted.   *)
StopsWaiting(i) ==
  /\ requests[i].at # "done" /\ Uses("stops") /\ Ends(i, "failed")
  /\ UNCHANGED <<agent, header, items, model, posts>>

----------------------------------------------------------------------------
(* The Agent's loop and its directory.  A creation that fails may have      *)
(* stored its Session or not; a close waits for the Turn.                   *)

Moves(m, from, to) == items[m].at = from /\ items' = [items EXCEPT ![m].at = to]
Loop(m) ==
  /\ agent.state = "ready"
  /\ \/ Moves(m, "inbox", "claimed") \/ Moves(m, "claimed", "history")
     \/ Moves(m, "claimed", "rejected") \/ Moves(m, "history", "compacted")
  /\ UNCHANGED <<agent, header, model, tickets, requests, posts, used>>

Starts ==
  /\ agent.state = "starting"
  /\ \/ agent' = [agent EXCEPT !.state = "ready"] /\ UNCHANGED <<header, used>>
     \/ /\ Uses("stops") /\ agent' = [agent EXCEPT !.state = "absent"]
        /\ header' \in {header} \cup (IF agent.fresh THEN {None} ELSE {})
  /\ UNCHANGED <<items, model, tickets, requests, posts>>

Closes ==
  /\ agent.state = "ready" /\ \A m \in DOMAIN items : items[m].at # "claimed"
  /\ Uses("stops") /\ agent' = [agent EXCEPT !.state = "absent"]
  /\ UNCHANGED <<header, items, model, tickets, requests, posts>>

Next ==
  \/ Ask \/ Starts \/ Closes
  \/ \E m \in DOMAIN items : Loop(m)
  \/ \E i \in DOMAIN requests :
       \/ Resolve(i) \/ Inspect(i) \/ Admit(i) \/ Wait(i) \/ Adopt(i) \/ Acquire(i) \/ Check(i)
       \/ Read(i) \/ Choose(i) \/ Locate(i) \/ Send(i) \/ Serve(i) \/ StopsWaiting(i)

Spec == Init /\ [][Next]_conversationVars

----------------------------------------------------------------------------
(* Properties.                                                             *)

(* A model that was selected accepts every image that was accepted         *)
(* (models.go:129), unless the Turn that had claimed it when the selection *)
(* looked had not yet written it.  Requests that failed may still be       *)
(* carried out (agents.go:18), and are not spoken for.                     *)
ImagesAreReadable ==
  ~model.images /\ requests[model.by].answer = "selected" =>
    \A m \in In({"inbox", "claimed", "history"}) :
      requests[items[m].by].answer = "accepted" => m \in requests[model.by].missed

(* One request at a time has its turn, and while any waits one has it.     *)
TurnsAreTaken ==
  /\ \A i, j \in DOMAIN requests :
       LET Has(k) == requests[k].at # "done" /\ k \in tickets.ready IN Has(i) /\ Has(j) => i = j
  /\ tickets.queue # <<>> => Head(tickets.queue) \in tickets.ready
  /\ \A i \in DOMAIN requests : Contains(tickets.queue, i) => requests[i].at # "done"

(* Who is told that the Session was created has it where it was asked for, *)
(* whoever won; and a Session is never made by a request to use it.        *)
CreationsAgree ==
  /\ \A i \in DOMAIN requests : requests[i].answer = "created" => header = requests[i].place
  /\ header = None => items = <<>> /\ agent.state = "absent"

ConversationIsTrue == ImagesAreReadable /\ TurnsAreTaken /\ CreationsAgree
=============================================================================
