------------------------------ MODULE ModelCall ------------------------------
(***************************************************************************)
(* The model request of one Step: ModelRequest and its Attempts            *)
(* (agentloop/internal/modelrequest), the ports that carry their           *)
(* operations (agentloop/actor), and the LLM client and Worker that run    *)
(* them against a provider stream (llm/actor, llm/call.go).                *)
(*                                                                         *)
(* ReactLoop sees all of this as one request that finishes.  A Session     *)
(* read or commit and its delivery are one step here: a Cancel that falls  *)
(* between them has the effect of one just before.  A request to the       *)
(* Worker and its reply are messages; the client gives up on each of them  *)
(* after a timeout, and the reply may still arrive.                        *)
(***************************************************************************)
EXTENDS Integers, Sequences, FiniteSets, SequencesExt

CONSTANTS
  Configs,      \* effective model configurations a generation may resolve to
  Settings      \* bounds; a behaviour keeps to one of them:
                \*   requests   model requests (Steps) of the activation
                \*   attempts   over all requests; each opens at most one call
                \*   chunks     of one provider stream
                \*   faults     failed or uncertain Session and provider operations
                \*   timeouts   client requests that expire or cannot be sent
                \*   cancels    Cancel commands
                \*   others     surface entries other owners write meanwhile

ASSUME SettingsAssumption ==
  \A s \in Settings :
    {s.requests, s.attempts, s.chunks, s.faults, s.timeouts, s.cancels, s.others} \subseteq Nat

VARIABLES
  agent,   \* the ModelRequest, its Attempt, the Grain's ports and client
  mail,    \* requests on their way to the Worker, in order
  calls,   \* the Worker's invocations
  replies, \* replies on their way back, in no order
  log,     \* the Session log
  spent    \* the setting and the bounded events so far

vars == <<agent, mail, calls, replies, log, spent>>

Calls == 1..spent.of.attempts

----------------------------------------------------------------------------
(* State.                                                                  *)

NewTry ==
  [st |-> "proposed", first |-> FALSE, base |-> 0, surface |-> 0, config |-> "none",
   context |-> FALSE, header |-> FALSE, closed |-> FALSE, failed |-> FALSE,
   chunks |-> <<>>, pending |-> "none", last |-> "none"]

NewRequest ==
  [phase |-> "unstarted", cancel |-> FALSE, failed |-> FALSE, err |-> FALSE,
   closed |-> TRUE, header |-> FALSE, logged |-> FALSE, requests |-> 0,
   attempts |-> 0, try |-> NewTry, call |-> 0, pending |-> {}, sends |-> <<>>]

NoTask == [k |-> "none", id |-> 0]
NoInvocation ==
  [active |-> FALSE, call |-> "none", task |-> NoTask, closing |-> 0,
   stopped |-> FALSE, pos |-> 0, over |-> FALSE]

Entry(w, kind, value) ==
  [k |-> kind, r |-> w.requests, a |-> w.attempts, c |-> w.try.config, v |-> value]

LatestOf(entries, kind) ==
  LET last == {i \in DOMAIN entries :
                 /\ entries[i].k = kind
                 /\ \A j \in DOMAIN entries : j > i => entries[j].k # kind}
  IN IF last = {} THEN "none" ELSE entries[CHOOSE i \in last : TRUE].c
Surface(entries) == Cardinality({i \in DOMAIN entries : entries[i].k \in {"surface", "message"}})

(* Request identities are unique among those still in use anywhere.        *)
Used ==
  {p.id : p \in agent.pending} \cup {mail[i].id : i \in DOMAIN mail}
    \cup {r.id : r \in replies}
    \cup {calls[c].task.id : c \in Calls} \cup {calls[c].closing : c \in Calls}
FreshID == CHOOSE n \in 1..(Cardinality(Used) + 1) : n \notin Used

Send(w, k) ==
  LET p == [k |-> k, call |-> w.call, id |-> FreshID]
  IN [w EXCEPT !.pending = @ \cup {p}, !.sends = Append(@, p)]
Awaits(w, k) == \E p \in w.pending : p.k = k

----------------------------------------------------------------------------
(* ModelRequest (model_request_flow.go) around one Attempt                 *)
(* (attempt_flow.go).                                                      *)

StartAttempt(w) ==
  [w EXCEPT !.attempts = @ + 1, !.phase = "running", !.closed = FALSE, !.err = FALSE,
            !.try = [NewTry EXCEPT !.st = "readingLog", !.first = ~w.logged /\ ~w.header]]

Finish(w, failed) ==
  [w EXCEPT !.phase = "done", !.failed = failed \/ w.cancel, !.err = failed \/ w.cancel,
            !.logged = @ \/ w.header]

(* acceptAttempt: only a provider's own failed finish asks for recovery.   *)
CompleteAttempt(w, failed) ==
  LET r == [w EXCEPT !.try.st = "completed", !.try.failed = failed,
                     !.header = @ \/ w.try.header, !.closed = w.try.closed]
  IN IF r.phase = "retryingClose" THEN Finish(r, r.failed \/ failed)
     ELSE IF failed \/ ~r.closed \/ r.cancel THEN Finish(r, failed \/ ~r.closed)
     ELSE IF r.try.last # "error" THEN Finish(r, FALSE)
     ELSE [r EXCEPT !.phase = "recovering", !.failed = TRUE]

(* modelPort.Close answers by itself when no call was ever opened.         *)
CloseStream(w) ==
  LET closing == [w EXCEPT !.try.st = "closing"]
  IN IF w.call = 0 THEN closing ELSE Send(closing, "close")

(* Variant: a failed opening is taken to have acquired nothing.            *)
FailOpening(w) ==
  LET failed == [w EXCEPT !.try.failed = TRUE]
  IN IF w.try.closed THEN CompleteAttempt(failed, TRUE)
     ELSE IF w.try.st = "opening"
       THEN CompleteAttempt([failed EXCEPT !.try.closed = TRUE, !.call = 0], TRUE)
     ELSE CloseStream(failed)

FailAttempt(w) ==
  LET failed == [w EXCEPT !.try.failed = TRUE]
  IN IF w.try.closed THEN CompleteAttempt(failed, TRUE) ELSE CloseStream(failed)

(* Variant: cancellation is noticed only when the request finishes.        *)
ProceedAlways(w, next) == next

Proceed(w, next) == IF w.cancel THEN FailAttempt(w) ELSE next

ReadChunk(w) ==
  LET reading == [w EXCEPT !.try.st = "reading"]
  IN Proceed(reading, Send(reading, "read"))

AfterHeader(w) ==
  LET next == [w EXCEPT !.try.st = IF w.try.context THEN "committingContext" ELSE "checking",
                        !.try.context = FALSE]
  IN Proceed(next, next)

(* What each committing phase proposes to the Session.                     *)
Draft(w) ==
  CASE w.try.st = "committingHeader" -> Entry(w, "header", <<>>)
    [] w.try.st = "committingContext" -> Entry(w, "context", <<>>)
    [] w.try.st = "committingChunk" ->
         Entry(w, "chunk", <<Len(w.try.chunks) + 1, w.try.pending>>)
    [] w.try.st = "committingMessage" -> Entry(w, "message", w.try.chunks)

(* A chunk the assembly rejects ("bad") fails the attempt once recorded.   *)
Committed(w, at) ==
  CASE w.try.st = "committingHeader" -> AfterHeader([w EXCEPT !.try.header = TRUE])
    [] w.try.st = "committingContext" ->
         LET next == [w EXCEPT !.try.st = "checking"] IN Proceed(next, next)
    [] w.try.st = "committingChunk" /\ w.try.pending = "bad" -> FailAttempt(w)
    [] w.try.st = "committingChunk" /\ w.try.pending # "bad" ->
         ReadChunk([w EXCEPT !.try.chunks = Append(@, at), !.try.last = w.try.pending,
                             !.try.pending = "none"])
    [] w.try.st = "committingMessage" -> CompleteAttempt(w, w.cancel)

(* GenerationStarted: the facts to record are derived from the baseline.   *)
Started(w, config) ==
  LET baseline == SubSeq(log, 1, w.try.base)
      resolved == [w EXCEPT !.try.config = config,
                            !.try.context = LatestOf(baseline, "context") # config]
  IN IF w.try.first \/ LatestOf(baseline, "header") # config
     THEN LET next == [resolved EXCEPT !.try.st = "committingHeader"] IN Proceed(next, next)
     ELSE AfterHeader(resolved)

ChunkArrived(w, value) ==
  LET next == [w EXCEPT !.try.st = "committingChunk", !.try.pending = value]
  IN Proceed(next, next)
StreamEnded(w) == CloseStream([w EXCEPT !.try.failed = @ \/ w.cancel])

(* Variant: the finish reason of the stream is not looked at.              *)
ClosedIgnoresFinish(w) ==
  LET done == [w EXCEPT !.try.closed = TRUE, !.call = 0]
  IN IF done.try.failed \/ done.cancel THEN {CompleteAttempt(done, TRUE)}
     ELSE {[done EXCEPT !.try.st = "committingMessage"]}

(* A failed finish has no message; a truncated one may not assemble.       *)
Closed(w) ==
  LET done == [w EXCEPT !.try.closed = TRUE, !.call = 0]
  IN IF done.try.failed \/ done.cancel THEN {CompleteAttempt(done, TRUE)}
     ELSE IF done.try.last = "error" THEN {CompleteAttempt(done, FALSE)}
     ELSE {[done EXCEPT !.try.st = "committingMessage"]}
            \cup (IF done.try.last = "stop" THEN {} ELSE {CompleteAttempt(done, TRUE)})
CloseFailed(w) == CompleteAttempt(w, TRUE)

----------------------------------------------------------------------------
Init ==
  /\ spent \in [of : Settings, faults : {0}, timeouts : {0}, cancels : {0}, others : {0}]
  /\ agent = NewRequest /\ mail = <<>> /\ replies = {}
  /\ calls = [c \in Calls |-> NoInvocation]
  /\ log \in {<<>>} \cup
       {<<[k |-> "header", r |-> 0, a |-> 0, c |-> c, v |-> <<>>],
          [k |-> "context", r |-> 0, a |-> 0, c |-> c, v |-> <<>>]>> : c \in Configs}

Becomes(w) ==
  /\ agent' = [w EXCEPT !.sends = <<>>]
  /\ mail' = mail \o w.sends

Fault(happens) ==
  /\ happens => spent.faults < spent.of.faults
  /\ spent' = [spent EXCEPT !.faults = IF happens THEN @ + 1 ELSE @]

(* The next Step of a Turn, or of a later one, asks its own request.       *)
StartRequest ==
  /\ agent.phase = "unstarted" \/ (agent.phase = "done" /\ agent.closed)
  /\ agent.requests < spent.of.requests /\ agent.attempts < spent.of.attempts
  /\ Becomes(StartAttempt([agent EXCEPT !.requests = @ + 1, !.cancel = FALSE,
                                        !.failed = FALSE, !.header = FALSE]))
  /\ UNCHANGED <<calls, replies, log, spent>>

Active == agent.phase \in {"running", "retryingClose"}
At(st) == Active /\ agent.try.st = st

ReadLog ==
  /\ At("readingLog")
  /\ LET read == [agent EXCEPT !.try.st = "opening", !.try.base = Len(log),
                               !.try.surface = Surface(log)]
     IN Becomes(Proceed(read, Send([read EXCEPT !.call = agent.attempts], "start")))
  /\ UNCHANGED <<calls, replies, log, spent>>

(* checkRequest: the history and the header the provider was given must    *)
(* still be what the log derives.                                          *)
CheckRequest ==
  /\ At("checking")
  /\ Becomes(IF Surface(log) = agent.try.surface /\ LatestOf(log, "header") = agent.try.config
             THEN ReadChunk(agent) ELSE FailAttempt(agent))
  /\ UNCHANGED <<calls, replies, log, spent>>

ReadFails ==
  /\ At("readingLog") \/ At("checking")
  /\ Fault(TRUE) /\ Becomes(FailAttempt(agent))
  /\ UNCHANGED <<calls, replies, log>>

Committing == \E st \in {"committingHeader", "committingContext", "committingChunk",
                         "committingMessage"} : At(st)

SessionCommits ==
  /\ Committing
  /\ log' = Append(log, Draft(agent))
  /\ Becomes(Committed(agent, Len(log) + 1))
  /\ UNCHANGED <<calls, replies, spent>>

(* The commit is refused, or the acknowledgement of it is lost.            *)
CommitFails ==
  /\ Committing /\ Fault(TRUE)
  /\ log' \in {log, Append(log, Draft(agent))}
  /\ Becomes(FailAttempt(agent))
  /\ UNCHANGED <<calls, replies>>

NothingToClose ==
  /\ At("closing") /\ agent.call = 0
  /\ \E w \in Closed(agent) : Becomes(w)
  /\ UNCHANGED <<calls, replies, log, spent>>

(* The RequestError hook decides whether to try again.                     *)
RecoveryResolved ==
  /\ agent.phase = "recovering"
  /\ \E retry \in BOOLEAN :
       /\ retry => agent.attempts < spent.of.attempts
       /\ Becomes(IF agent.cancel \/ ~retry THEN Finish(agent, TRUE)
                  ELSE StartAttempt([agent EXCEPT !.failed = FALSE]))
  /\ UNCHANGED <<calls, replies, log, spent>>

(* modelCloseRetry, resumed by the next wake of the Agent.                 *)
RetryClose ==
  /\ agent.phase = "done" /\ ~agent.closed
  /\ Becomes(CloseStream([agent EXCEPT !.phase = "retryingClose"]))
  /\ UNCHANGED <<calls, replies, log, spent>>

(* Cancel reaches the Worker unless a close or an earlier cancellation is  *)
(* already on its way (cancelOperations).                                  *)
Cancel ==
  /\ agent.phase \in {"running", "recovering", "retryingClose"} \/ ~agent.closed
  /\ agent.phase # "unstarted" /\ spent.cancels < spent.of.cancels
  /\ spent' = [spent EXCEPT !.cancels = @ + 1]
  /\ LET stopped == [agent EXCEPT !.cancel = TRUE]
     IN Becomes(IF agent.call = 0 \/ Awaits(agent, "close") \/ Awaits(agent, "cancel")
                THEN stopped ELSE Send(stopped, "cancel"))
  /\ UNCHANGED <<calls, replies, log>>

OtherWrites ==
  /\ spent.others < spent.of.others /\ spent' = [spent EXCEPT !.others = @ + 1]
  /\ log' = Append(log, [k |-> "surface", r |-> 0, a |-> 0, c |-> "none", v |-> <<>>])
  /\ UNCHANGED <<agent, mail, calls, replies>>

----------------------------------------------------------------------------
(* The LLM client (llm/actor/client.go): one reply or one expiry completes *)
(* a request, whatever else arrives is dropped.                            *)

Failed(w, p) ==
  LET rest == [w EXCEPT !.pending = @ \ {p}]
  IN CASE p.k \in {"start", "read"} -> FailAttempt(rest)
       [] p.k = "close" -> CloseFailed(rest)
       [] p.k = "cancel" -> rest

Accepted(w, p, r) ==
  LET rest == [w EXCEPT !.pending = @ \ {p}]
  IN CASE r.err -> {Failed(w, p)}
       [] ~r.err /\ p.k = "start" -> {Started(rest, r.value)}
       [] ~r.err /\ p.k = "read" ->
            {IF r.value = "end" THEN StreamEnded(rest) ELSE ChunkArrived(rest, r.value)}
       [] ~r.err /\ p.k = "close" -> Closed(rest)
       [] ~r.err /\ p.k = "cancel" -> {rest}

ReplyArrives ==
  /\ \E r \in replies :
       /\ replies' = replies \ {r}
       /\ IF \E p \in agent.pending : p.id = r.id /\ p.call = r.call
          THEN \E p \in agent.pending :
                 /\ p.id = r.id /\ p.call = r.call
                 /\ \E w \in Accepted(agent, p, r) : Becomes(w)
          ELSE UNCHANGED <<agent, mail>>
  /\ UNCHANGED <<calls, log, spent>>

RequestExpired ==
  /\ spent.timeouts < spent.of.timeouts /\ spent' = [spent EXCEPT !.timeouts = @ + 1]
  /\ \E p \in agent.pending : Becomes(Failed(agent, p))
  /\ UNCHANGED <<calls, replies, log>>

(* The Router could not be told: the request completes at once.            *)
SendFails ==
  /\ spent.timeouts < spent.of.timeouts /\ spent' = [spent EXCEPT !.timeouts = @ + 1]
  /\ \E i \in DOMAIN mail :
       /\ mail[i] \in agent.pending
       /\ LET w == Failed(agent, mail[i])
          IN /\ agent' = [w EXCEPT !.sends = <<>>]
             /\ mail' = RemoveAt(mail, i) \o w.sends
  /\ UNCHANGED <<calls, replies, log>>

----------------------------------------------------------------------------
(* The Worker (llm/actor/worker.go): one operation per call at a time,     *)
(* off its mailbox; a close waits for the operation in flight.             *)

Reply(p, err, value) == [k |-> p.k, call |-> p.call, id |-> p.id, err |-> err, value |-> value]
Refuse(p) == replies' = replies \cup {Reply(p, TRUE, "none")} /\ UNCHANGED calls

WorkerGenerates(p) ==
  /\ calls' = [calls EXCEPT ![p.call] =
                 [NoInvocation EXCEPT !.active = TRUE, !.task = [k |-> "start", id |-> p.id]]]
  /\ UNCHANGED replies

WorkerReads(p) ==
  LET current == calls[p.call] IN
  IF ~current.active \/ current.call = "none" \/ current.task # NoTask \/ current.closing # 0
  THEN Refuse(p)
  ELSE calls' = [calls EXCEPT ![p.call].task = [k |-> "read", id |-> p.id]] /\ UNCHANGED replies

(* Variant: the operation it interrupts is expected to answer for it.      *)
WorkerCancelsSilently(p) ==
  IF ~calls[p.call].active THEN Refuse(p)
  ELSE /\ calls' = [calls EXCEPT ![p.call].stopped = TRUE]
       /\ replies' = IF calls[p.call].task # NoTask THEN replies
                     ELSE replies \cup {Reply(p, FALSE, "none")}

WorkerCancels(p) ==
  IF ~calls[p.call].active THEN Refuse(p)
  ELSE /\ calls' = [calls EXCEPT ![p.call].stopped = TRUE]
       /\ replies' = replies \cup {Reply(p, FALSE, "none")}

WorkerCloses(p) ==
  LET current == calls[p.call] IN
  IF ~current.active \/ current.closing # 0 THEN Refuse(p)
  ELSE /\ calls' = [calls EXCEPT ![p.call] =
            IF current.task # NoTask THEN [@ EXCEPT !.stopped = TRUE, !.closing = p.id]
            ELSE [@ EXCEPT !.closing = p.id, !.task = [k |-> "close", id |-> p.id]]]
       /\ UNCHANGED replies

WorkerReceives ==
  /\ mail # <<>> /\ mail' = Tail(mail)
  /\ LET p == Head(mail) IN
     CASE p.k = "start" -> WorkerGenerates(p)
       [] p.k = "read" -> WorkerReads(p)
       [] p.k = "cancel" -> WorkerCancels(p)
       [] p.k = "close" -> WorkerCloses(p)
  /\ UNCHANGED <<agent, log, spent>>

(* completed: reply, then the close that waited for this operation.        *)
Completes(c, current, err, value) ==
  LET task == calls[c].task
      next == IF current.closing # 0 THEN [k |-> "close", id |-> current.closing] ELSE NoTask
  IN /\ calls' = [calls EXCEPT ![c] = [current EXCEPT !.task = next]]
     /\ replies' = replies \cup
          {[k |-> task.k, call |-> c, id |-> task.id, err |-> err, value |-> value]}

(* Opening resolves the configuration in force now; a failed opening may   *)
(* have acquired a stream all the same (Call.Open, failedStream).          *)
GenerationCompletes(c) ==
  /\ calls[c].task.k = "start"
  /\ \/ \E config \in Configs :
          Completes(c, [calls[c] EXCEPT !.call = "open"], FALSE, config) /\ UNCHANGED spent
     \/ \E kept \in {"none", "prepared", "open"} :
          /\ Completes(c, [calls[c] EXCEPT !.call = kept], TRUE, "none")
          /\ Fault(~calls[c].stopped)
  /\ UNCHANGED <<agent, mail, log>>

ReadCompletes(c) ==
  /\ calls[c].task.k = "read"
  /\ LET current == calls[c] IN
     \/ /\ current.call # "open" /\ Completes(c, current, TRUE, "none") /\ UNCHANGED spent
     \/ /\ current.call = "open" /\ ~current.over /\ current.pos < spent.of.chunks
        /\ \E value \in {"text", "bad", "stop", "error"} :
             Completes(c, [current EXCEPT !.pos = @ + 1, !.over = value \in {"stop", "error"}], FALSE, value)
        /\ UNCHANGED spent
     \/ /\ current.call = "open"
        /\ Completes(c, [current EXCEPT !.over = TRUE], FALSE, "end") /\ UNCHANGED spent
     \/ /\ current.call = "open" /\ Completes(c, current, TRUE, "none")
        /\ Fault(~current.stopped)
  /\ UNCHANGED <<agent, mail, log>>

CloseCompletes(c) ==
  /\ calls[c].task.k = "close"
  /\ \/ Completes(c, NoInvocation, FALSE, "none") /\ UNCHANGED spent
     \/ Completes(c, [calls[c] EXCEPT !.closing = 0], TRUE, "none") /\ Fault(TRUE)
  /\ UNCHANGED <<agent, mail, log>>

TaskCompletes ==
  \E c \in Calls : GenerationCompletes(c) \/ ReadCompletes(c) \/ CloseCompletes(c)

----------------------------------------------------------------------------
SessionAnswers == ReadLog \/ CheckRequest \/ SessionCommits
Next ==
  \/ StartRequest \/ SessionAnswers \/ ReadFails \/ CommitFails
  \/ NothingToClose \/ RecoveryResolved \/ RetryClose \/ Cancel \/ OtherWrites
  \/ ReplyArrives \/ RequestExpired \/ SendFails \/ WorkerReceives \/ TaskCompletes

(* Mailboxes are drained, the Session and the hook answer, an operation on *)
(* a provider returns, and the Agent is woken while it retains a close.    *)
Fairness ==
  /\ WF_vars(SessionAnswers) /\ WF_vars(NothingToClose) /\ WF_vars(RecoveryResolved)
  /\ WF_vars(RetryClose) /\ WF_vars(WorkerReceives)
  /\ WF_vars(ReplyArrives) /\ WF_vars(TaskCompletes)

Spec == Init /\ [][Next]_vars
FairSpec == Spec /\ Fairness

----------------------------------------------------------------------------
(* Properties.                                                             *)

(* The phases of the request, the Attempt and the Worker's calls.          *)
TypeOK ==
  /\ agent.phase \in {"unstarted", "running", "recovering", "retryingClose", "done"}
  /\ agent.try.st \in {"proposed", "readingLog", "opening", "committingHeader",
                       "committingContext", "checking", "reading", "committingChunk",
                       "closing", "committingMessage", "completed"}
  /\ agent.call \in {0, agent.attempts} /\ agent.sends = <<>>
  /\ \A c \in Calls : calls[c].call \in {"none", "prepared", "open"}

Live(c) == calls[c].active \/ \E i \in DOMAIN mail : mail[i].call = c /\ mail[i].k = "start"

(* A call the Grain no longer holds is released: no provider stream is     *)
(* open for it and no generation of it is still to come, whatever failed,  *)
(* was cancelled or timed out on the way (CallClosed, modelPort.Close).    *)
ClosedMeansReleased ==
  TypeOK /\ \A c \in Calls : c # agent.call => ~Live(c)

Positions(kind) == {i \in DOMAIN log : log[i].k = kind}

(* An assistant message is made of every chunk its attempt committed, in   *)
(* the provider's order, and never of a stream that reported a failure.    *)
MessageIsWhatStreamed ==
  \A i \in Positions("message") :
    LET src == log[i].v IN
    /\ ToSet(src) = {j \in Positions("chunk") : log[j].a = log[i].a}
    /\ \A n \in DOMAIN src : log[src[n]].v[1] = n /\ log[src[n]].v[2] # "error"
    /\ \A n \in 1..(Len(src) - 1) : src[n] < src[n + 1]

(* Nobody streams into a log that does not describe the request: the       *)
(* latest header and context before a chunk are those of its generation,   *)
(* and every activation restates its header before its first chunk.        *)
RequestIsRecorded ==
  \A i \in Positions("chunk") :
    /\ \A kind \in {"header", "context"} : LatestOf(SubSeq(log, 1, i), kind) = log[i].c
    /\ \E j \in Positions("header") : j < i /\ log[j].a # 0

(* A request answers at most once, with its last attempt.                  *)
OneMessagePerRequest ==
  \A i \in Positions("message") :
    \A j \in DOMAIN log : j > i /\ log[j].k \in {"chunk", "message"} => log[j].r > log[i].r

(* The outcome a Step is settled with: success only if the log has the     *)
(* message, and nothing left to release.                                   *)
SuccessIsRecorded ==
  agent.phase = "done" /\ ~agent.err =>
    /\ agent.closed
    /\ \E i \in Positions("message") : log[i].a = agent.attempts

(* Once cancelled, a request opens no further generation.                  *)
CancelStopsGeneration == [][agent'.call > agent.call => ~agent.cancel]_vars

(* A model request finishes, and a cancellation of it is acknowledged.     *)
RequestFinishes ==
  agent.phase \in {"running", "recovering", "retryingClose"} ~> agent.phase = "done"
CancelAcknowledged == Awaits(agent, "cancel") ~> ~Awaits(agent, "cancel")

(* "Close requests release of the same call, including after an uncertain  *)
(* opening" (llm/actor/client.go:132), retried until it is confirmed.      *)
StreamReleased == agent.phase = "done" /\ ~agent.closed ~> agent.closed

(* The log says what was asked and what was answered, once each.           *)
AnswerIsRecorded ==
  RequestIsRecorded /\ OneMessagePerRequest /\ MessageIsWhatStreamed /\ SuccessIsRecorded

(* A request, its cancellation and its release all come to an end.         *)
RequestProgresses == RequestFinishes /\ CancelAcknowledged /\ StreamReleased
=============================================================================
