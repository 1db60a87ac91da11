----------------------------- MODULE Compaction -----------------------------
(***************************************************************************)
(* The compaction of one Agent's history (compaction/, compaction/basic,   *)
(* compaction/basic/actor, compaction/toolresultpruner): under pressure    *)
(* before a Step, after a request that overflowed the context, or on       *)
(* /compact, against the Session log it rewrites and the Agent whose hooks *)
(* and maintenance call it.                                                *)
(*                                                                         *)
(* The Grain awaits one dependency at a time: owner.ask is the request and *)
(* owner.answer its reply, which is a mailbox message of its own.  A       *)
(* Session request whose reply is lost is sent again with the same         *)
(* proposal, and the Session finds what it already committed.  The Token   *)
(* Meter and the model's capacity depend on the snapshot alone, so they    *)
(* answer with it.                                                         *)
(***************************************************************************)
EXTENDS Integers, Sequences, FiniteSets, SequencesExt

CONSTANTS
  Threshold,         \* tokens from which there is pressure
  Retain,            \* tokens a pressure compaction leaves untouched
  CompactionRetries, \* further transactions one pressure invocation may try
  MaxOverflowRetries,
  History,           \* events the Session starts with
  Settings           \* inputs and bounds; a behaviour keeps to one of them:
                     \*   prune      whether the tool-result pruner is bound
                     \*   turns, manuals, cancels, overflows, notes, crashes
                     \*              how many of each
                     \*   faults     failed or unanswered requests
                     \*   calls      tool calls one response may make
                     \*   events     length beyond which no Turn or call starts

ASSUME BoundsAssumption ==
  /\ {Threshold, Retain, CompactionRetries, MaxOverflowRetries} \subseteq Nat
  /\ \A s \in Settings :
       /\ s.prune \in BOOLEAN /\ s.calls \subseteq Nat
       /\ {s.turns, s.manuals, s.cancels, s.overflows, s.notes, s.crashes, s.faults, s.events}
            \subseteq Nat

VARIABLES
  session, \* the Session: its log, its Surface, its flushed length
  agent,   \* the Agent: where its Turn stands, its hook, its mail
  owner,   \* the Compaction Grain: its invocation, business and recovery
  stream,  \* whether a provider stream of the summary is held
  told,    \* ends of the compactions reported successful to /compact
  spent    \* the setting, and how much of it is used

vars == <<session, agent, owner, stream, told, spent>>

----------------------------------------------------------------------------
(* The Session log and its Surface (session/log.go, surface.go).           *)

Event(k) == [k |-> k]
TurnStart(turn) == [k |-> "turn/start", turn |-> turn]
TurnEnd(turn) == [k |-> "turn/end", turn |-> turn]
Assistant(calls) == [k |-> "assistant", calls |-> calls]
Result(big) == [k |-> "result", big |-> big]

(* Tokens: a pruned result and a checkpoint are small.                     *)
Price(e) ==
  CASE e.k = "user" -> 2
    [] e.k = "result" /\ e.big -> 3
    [] OTHER -> 1

Replaces(e) == e.k \in {"checkpoint", "pruned"}
OnSurface(e) == e.k \in {"user", "assistant", "result"} \/ Replaces(e)

IndexIn(nodes, seq) == CHOOSE i \in 1..Len(nodes) : nodes[i] = seq

(* One event: surface events join the end or take the place of a span.     *)
Extended(s, e) ==
  LET seq == Len(s.log) + 1
  IN [s EXCEPT !.log = Append(@, e),
        !.nodes = IF ~OnSurface(e) THEN @
                  ELSE IF ~Replaces(e) THEN Append(@, seq)
                  ELSE SubSeq(@, 1, IndexIn(@, e.from) - 1) \o <<seq>>
                         \o SubSeq(@, IndexIn(@, e.to) + 1, Len(@)),
        !.gen = IF Replaces(e) THEN @ + 1 ELSE @]

Committed(s, batch) ==
  LET after[i \in 0..Len(batch)] ==
        IF i = 0 THEN s ELSE Extended(after[i - 1], batch[i])
  IN after[Len(batch)]

EmptySession == [log |-> <<>>, nodes |-> <<>>, gen |-> 0, durable |-> 0]

(* A snapshot: the log is append-only, so its length fixes its prefix.     *)
Snapshot(s) == [next |-> Len(s.log), nodes |-> s.nodes, gen |-> s.gen]
Prefix(snap) == SubSeq(session.log, 1, snap.next)

TotalPrice(log, nodes) ==
  LET sum[i \in 0..Len(nodes)] == IF i = 0 THEN 0 ELSE sum[i - 1] + Price(log[nodes[i]])
  IN sum[Len(nodes)]

----------------------------------------------------------------------------
(* InspectLog (invariant.go): the open Turn and the open attempt of a log, *)
(* or the rule it breaks.  Turn 0 is no Turn: a standalone compaction.     *)

NoAttempt == [id |-> 0, turn |-> 0, start |-> 0, summarized |-> FALSE]

(* Starts an end-seed closes: the process died before their end.           *)
StaleStarts(log) ==
  {i \in 1..Len(log) :
     /\ log[i].k = "compaction/start"
     /\ \E j \in i + 1..Len(log) :
          /\ log[j].k = "end-seed"
          /\ \A m \in i + 1..j - 1 : log[m].k \notin {"compaction/start", "compaction/end", "end-seed"}}

(* What an event needs of the state before it.                             *)
Fits(s, e, stale) ==
  CASE e.k \in {"turn/start", "turn/end"} -> s.attempt = NoAttempt \/ s.attempt.start \in stale
    [] e.k = "compaction/start" -> s.attempt = NoAttempt /\ e.turn = s.turn
    [] e.k = "summary" -> s.attempt.id = e.id /\ s.attempt.turn = s.turn /\ ~s.attempt.summarized
                            /\ e.seqs # <<>>
    [] e.k = "checkpoint" -> s.attempt.id = e.id
    [] e.k = "compaction/end" -> /\ s.attempt.id = e.id /\ s.attempt.turn = e.turn
                                 /\ e.turn = s.turn
                                 /\ e.failed \/ s.attempt.summarized
    [] OTHER -> TRUE

Inspected(s, e, seq) ==
  [s EXCEPT
     !.turn = CASE e.k = "turn/start" -> e.turn [] e.k = "turn/end" -> 0 [] OTHER -> @,
     !.attempt =
       CASE e.k = "compaction/start" ->
              [id |-> e.id, turn |-> e.turn, start |-> seq, summarized |-> FALSE]
         [] e.k = "summary" -> [@ EXCEPT !.summarized = TRUE]
         [] e.k \in {"compaction/end", "end-seed"} -> NoAttempt
         [] OTHER -> @]

InspectLog(log) ==
  LET stale == StaleStarts(log)
      state[i \in 0..Len(log)] ==
        IF i = 0 THEN [ok |-> TRUE, turn |-> 0, attempt |-> NoAttempt]
        ELSE LET s == state[i - 1] IN
             IF s.ok /\ Fits(s, log[i], stale) THEN Inspected(s, log[i], i)
             ELSE [s EXCEPT !.ok = FALSE]
  IN state[Len(log)]

----------------------------------------------------------------------------
(* Regions of the Surface (tool_pairing.go, region.go, selection.go).      *)

Delta(e) == CASE e.k = "assistant" -> e.calls
              [] e.k \in {"result", "pruned"} -> -1
              [] OTHER -> 0

(* Open tool calls after the first i nodes.                                *)
OpenCalls(log, nodes) ==
  LET open[i \in 0..Len(nodes)] == IF i = 0 THEN 0 ELSE open[i - 1] + Delta(log[nodes[i]])
  IN open

(* locateRegion: both ends present, in order, at balanced cuts.            *)
Located(log, nodes, seqs) ==
  \E i, j \in 1..Len(nodes) :
    /\ i <= j /\ SubSeq(nodes, i, j) = seqs
    /\ LET open == OpenCalls(log, nodes) IN open[i - 1] = 0 /\ open[j] = 0

(* selectRange: all but the newest nodes worth `retain' tokens, cut where  *)
(* no tool call is open; a zero budget still keeps the newest node.        *)
SelectRange(log, nodes, retain) ==
  LET open == OpenCalls(log, nodes)
      keeps == {i \in 1..Len(nodes) :
                  i = 1 \/ TotalPrice(log, SubSeq(nodes, i, Len(nodes))) >= retain}
      keepFrom == CHOOSE i \in keeps : \A j \in keeps : j <= i
      cuts == {i \in 1..keepFrom : i = 1 \/ open[i - 1] = 0}
      cut == CHOOSE i \in cuts : \A j \in cuts : j <= i
  IN IF nodes = <<>> THEN <<>> ELSE SubSeq(nodes, 1, cut - 1)

----------------------------------------------------------------------------
(* Proposals.  Each one can find its own commit, so it is safe to resend.  *)

SummaryEvent(tx) == [k |-> "summary", id |-> tx.id, seqs |-> tx.seqs]
Checkpoint(tx) == [k |-> "checkpoint", id |-> tx.id, from |-> Head(tx.seqs), to |-> Last(tx.seqs)]
EndEvent(tx, failed) == [k |-> "compaction/end", id |-> tx.id, turn |-> tx.turn, failed |-> failed]

Drafts(tx) ==
  CASE tx.write = "start" -> <<[k |-> "compaction/start", id |-> tx.id, turn |-> tx.turn]>>
    [] tx.write = "completion" -> <<SummaryEvent(tx), Checkpoint(tx), EndEvent(tx, FALSE)>>
    [] OTHER -> <<EndEvent(tx, TRUE)>>

(* Build: what the proposal needs of the log it is appended to.            *)
Admissible(tx, s) ==
  LET state == InspectLog(s.log) IN
  CASE tx.write = "start" -> /\ state.ok /\ state.attempt = NoAttempt /\ state.turn = tx.turn
                             /\ Located(s.log, s.nodes, tx.seqs)
    [] tx.write = "completion" -> /\ state.ok /\ state.attempt.id = tx.id
                                  /\ state.attempt.start = tx.started
                                  /\ ~state.attempt.summarized
                                  /\ tx.turn # 0 => s.nodes = tx.surface
                                  /\ Located(s.log, s.nodes, tx.seqs)
    [] OTHER -> state.ok /\ state.attempt.id = tx.id

(* FindCommit: the events of this attempt, wherever they are.              *)
Positions(s, k, id) == {i \in 1..Len(s.log) : s.log[i].k = k /\ s.log[i].id = id}

(* Variant: nothing is looked for.                                         *)
ExistingNever(tx, s) == {}

Existing(tx, s) ==
  CASE tx.write = "start" -> Positions(s, "compaction/start", tx.id)
    [] tx.write = "completion" -> Positions(s, "summary", tx.id)
    [] OTHER -> Positions(s, "compaction/end", tx.id)

Conflicts(tx, s) ==
  tx.write # "start" /\ \E i \in Positions(s, "compaction/end", tx.id) :
    IF tx.write = "completion" THEN s.log[i].failed ELSE ~s.log[i].failed

(* The pruner's plan: a marker and a short copy for every big result.      *)
PruneDrafts(log, nodes) ==
  LET big == SelectSeq(nodes, LAMBDA n : log[n].k = "result" /\ log[n].big)
  IN FlattenSeq([i \in 1..Len(big) |->
       <<[k |-> "prune", seqs |-> <<big[i]>>],
         [k |-> "pruned", from |-> big[i], to |-> big[i]]>>])

Refused == [ok |-> FALSE, first |-> 0, next |-> 0]
Accepted(first, count) == [ok |-> TRUE, first |-> first, next |-> first + count - 1]

----------------------------------------------------------------------------
(* The business of one invocation (basic/compaction.go), as steps of the   *)
(* Grain's record o.  tx is its current transaction (transaction*.go).     *)

NoTx == [stage |-> "finished", id |-> 0, turn |-> 0, seqs |-> <<>>, surface |-> <<>>,
         started |-> 0, write |-> "none", failure |-> FALSE, cancelled |-> FALSE,
         barrier |-> 0, result |-> FALSE]

NoSnapshot == [next |-> 0, nodes |-> <<>>, gen |-> 0]

(* What an invocation owns; Idle forgets it and keeps the Agent's budget.  *)
NoInvocation ==
  [mode |-> "idle", ask |-> "none", answer |-> Refused, replied |-> FALSE, cancelled |-> FALSE,
   snap |-> NoSnapshot, stage |-> "idle", attempts |-> 0, gen |-> 0, changed |-> FALSE,
   failure |-> FALSE, latest |-> 0, tx |-> NoTx]

Budget(o) == [turn |-> o.turn, response |-> o.response, retries |-> o.retries,
              recovering |-> o.recovering, ids |-> o.ids]
NewBudget(ids) == [turn |-> 0, response |-> 0, retries |-> 0, recovering |-> FALSE, ids |-> ids]

Idle(o) == NoInvocation @@ Budget(o)
Invoked(o, mode, ask) == [Idle(o) EXCEPT !.mode = mode, !.ask = ask]

Asks(o, what) == [o EXCEPT !.ask = what, !.replied = FALSE, !.answer = Refused]
Finish(o, failed) == [o EXCEPT !.stage = "finished", !.failure = failed]
Observe(o, snap) == [o EXCEPT !.snap = snap, !.changed = snap.gen > o.gen]

NewTransaction(o, seqs, turn) ==
  [o EXCEPT !.stage = "transaction", !.attempts = @ + 1, !.ids = @ + 1,
     !.tx = [NoTx EXCEPT !.stage = "start", !.id = o.ids + 1, !.turn = turn, !.seqs = seqs,
               !.surface = o.snap.nodes, !.write = "start"]]

(* Measured: enough, out of attempts, nothing to compact, or one more try. *)
Measured(prior, snap) ==
  LET o == Observe(prior, snap)
      log == Prefix(snap)
      pressed == o.mode = "pressure"
      seqs == SelectRange(log, snap.nodes, IF pressed THEN Retain ELSE 0)
      state == InspectLog(log)
  IN IF pressed /\ TotalPrice(log, snap.nodes) < Threshold THEN Finish(o, FALSE)
     ELSE IF pressed /\ o.attempts > CompactionRetries THEN Finish(o, TRUE)
     ELSE IF seqs = <<>> THEN Finish(o, pressed /\ o.attempts > 0)
     ELSE IF ~state.ok \/ (o.mode # "manual" /\ state.turn = 0) THEN Finish(o, TRUE)
     ELSE NewTransaction(o, seqs, IF o.mode = "manual" THEN 0 ELSE state.turn)

(* Begin over the history the invocation read; "rejected" starts nothing.  *)
Begin(prior, snap) ==
  LET o == [prior EXCEPT !.stage = "measure", !.gen = snap.gen, !.snap = snap]
      state == InspectLog(Prefix(snap))
  IN IF o.cancelled THEN Finish(o, TRUE)
     ELSE IF ~state.ok \/ state.attempt # NoAttempt \/ (o.mode = "manual" /\ state.turn # 0)
          THEN [prior EXCEPT !.stage = "rejected"]
     ELSE IF o.mode = "pressure" /\ TotalPrice(Prefix(snap), snap.nodes) < Threshold
          THEN Finish(o, FALSE)
     ELSE IF spent.of.prune /\ o.mode # "manual" THEN [o EXCEPT !.stage = "prune"]
     ELSE Measured(o, snap)

Pruned(o, snap, failed) ==
  IF o.cancelled \/ failed THEN Finish(Observe(o, snap), TRUE)
  ELSE [Observe(o, snap) EXCEPT !.stage = "measure"]

(* CompleteTransaction: only pressure tries again.                         *)
CompleteTransaction(prior, snap) ==
  LET tx == prior.tx
      failed == tx.cancelled \/ tx.failure
      o == [Observe(prior, snap) EXCEPT !.tx = NoTx,
              !.latest = IF failed THEN @ ELSE tx.barrier]
  IN IF failed \/ o.mode # "pressure" THEN Finish(o, failed)
     ELSE [o EXCEPT !.stage = "measure"]

Failing(tx) == [tx EXCEPT !.failure = TRUE, !.write = "end", !.stage = "commit"]

(* Variant: the end of a standalone compaction is not flushed.             *)
AfterEndUnflushed(tx) == "finished"

AfterEnd(tx) == IF tx.turn = 0 THEN "flush" ELSE "finished"

(* AcceptCommit: a confirmed write advances the transaction; a refused     *)
(* start ends it; a refused completion is replaced by a failed end.        *)
AcceptCommit(tx, answer) ==
  CASE answer.ok /\ tx.stage = "start" ->
         IF tx.cancelled THEN Failing([tx EXCEPT !.started = answer.first])
         ELSE [tx EXCEPT !.started = answer.first, !.stage = "summary", !.write = "none"]
    [] answer.ok /\ tx.stage = "commit" ->
         [tx EXCEPT !.barrier = answer.next, !.result = ~tx.failure, !.write = "none",
            !.stage = AfterEnd(tx)]
    [] ~answer.ok /\ tx.stage = "start" ->
         [tx EXCEPT !.failure = TRUE, !.write = "none", !.stage = "finished"]
    [] OTHER -> Failing(tx)

(* ConfirmClose: a summary that is useful and smaller than what it stands  *)
(* for becomes the completion; anything else a failed end.                 *)
ConfirmClose(tx, useful) ==
  IF tx.cancelled \/ tx.failure \/ ~useful
       \/ TotalPrice(session.log, tx.seqs) <= Price(Checkpoint(tx))
  THEN Failing(tx)
  ELSE [tx EXCEPT !.write = "completion", !.stage = "commit"]

(* Opened, Push, EndGeneration: cancellation turns every end of the stream *)
(* into a failure.                                                         *)
Opened(tx, failed) ==
  IF tx.cancelled \/ failed THEN [tx EXCEPT !.failure = TRUE, !.stage = "closing"]
  ELSE [tx EXCEPT !.stage = "streaming"]
StreamEnds(tx, failed) == [tx EXCEPT !.failure = tx.cancelled \/ failed, !.stage = "closing"]

(* Cancel suppresses further work; what is outstanding is still awaited.   *)
CancelWork(o) ==
  CASE o.stage = "measure" -> [Finish(o, TRUE) EXCEPT !.cancelled = TRUE]
    [] o.stage = "transaction" /\ o.tx.stage # "finished" ->
         [o EXCEPT !.cancelled = TRUE, !.tx.cancelled = TRUE]
    [] OTHER -> [o EXCEPT !.cancelled = TRUE]

----------------------------------------------------------------------------
(* The Grain schedules the business (grain_session.go, grain_hooks.go).    *)

(* Recovery.Complete and completeHook: a retry is granted for a Surface    *)
(* that changed, unless the recovery was cancelled.                        *)
CompleteRecovery(o) ==
  LET retry == o.changed /\ ~o.cancelled
  IN Asks([o EXCEPT !.recovering = FALSE, !.retries = IF retry THEN @ + 1 ELSE @],
          IF retry THEN "retry" ELSE "continue")

(* Variant: the Agent is not told that its maintenance is over.            *)
CompleteUnreleased(o) ==
  CASE o.mode = "pressure" -> Asks(o, "continue")
    [] o.mode = "overflow" -> CompleteRecovery(o)
    [] OTHER -> Idle(o)

(* finish: a cancelled invocation reports its cancellation.                *)
Complete(o) ==
  CASE o.mode = "pressure" -> Asks(o, "continue")
    [] o.mode = "overflow" -> CompleteRecovery(o)
    [] OTHER -> Asks([o EXCEPT !.failure = @ \/ o.cancelled], "release")

(* reject: nothing was started, so the hook goes on without it.            *)
Reject(o) ==
  IF o.mode = "manual" THEN Asks([o EXCEPT !.stage = "finished", !.failure = TRUE], "release")
  ELSE Asks([o EXCEPT !.stage = "finished", !.recovering = FALSE], "continue")

Transact(o) ==
  CASE o.tx.stage \in {"start", "commit"} -> Asks(o, "commit")
    [] o.tx.stage = "summary" -> Asks([o EXCEPT !.tx.stage = "opening"], "open")
    [] o.tx.stage = "streaming" -> Asks(o, "chunk")
    [] o.tx.stage = "closing" -> Asks(o, "close")
    [] o.tx.stage = "flush" -> Asks(o, "flush")
    [] OTHER -> Asks(o, "settled")

Advance(o) ==
  CASE o.stage = "finished" -> Complete(o)
    [] o.stage = "rejected" -> Reject(o)
    [] o.stage = "prune" -> Asks(o, "prune")
    [] o.stage = "measure" -> Asks(o, "measure")
    [] OTHER -> Transact(o)

----------------------------------------------------------------------------
(* Initial state: a Session with a finished Turn, and an idle Agent.       *)

(* sent and refused only record what the last request and the one that     *)
(* overflowed before it were worth.                                        *)
NoTurn == [pc |-> "idle", turn |-> 0, calls |-> 0, first |-> FALSE, hook |-> "none",
           mail |-> "none", cancelled |-> FALSE, sent |-> 0, refused |-> 0, retried |-> 0]

Unused == [turns |-> 0, manuals |-> 0, cancels |-> 0, overflows |-> 0, notes |-> 0,
           crashes |-> 0, faults |-> 0]

Init ==
  /\ session = [Committed(EmptySession, History) EXCEPT !.durable = Len(History)]
  /\ agent = [NoTurn EXCEPT !.turn = 1]
  /\ owner = NoInvocation @@ NewBudget(0)
  /\ stream = FALSE
  /\ told = {}
  /\ spent \in {Unused @@ [of |-> s] : s \in Settings}

Uses(what) ==
  /\ spent[what] < spent.of[what]
  /\ spent' = [spent EXCEPT ![what] = @ + 1]
Fault == Uses("faults")
Unspent == UNCHANGED spent

----------------------------------------------------------------------------
(* The Agent (agentloop), as far as it reaches its history and compaction. *)

Writes(batch) == session' = Committed(session, batch)
Goes(next) == agent' = next

(* An open Turn asks its hooks and waits for their reply without a limit.  *)
Hooks(a, pc) == [a EXCEPT !.pc = pc, !.hook = "asked"]

StartTurn ==
  /\ agent.pc = "idle" /\ Len(session.log) < spent.of.events
  /\ Uses("turns")
  /\ Writes(<<TurnStart(agent.turn + 1)>>)
  /\ Goes(Hooks([NoTurn EXCEPT !.turn = agent.turn + 1, !.first = TRUE, !.mail = agent.mail],
                "preStep"))
  /\ UNCHANGED <<owner, stream, told>>

(* The Turn ends with a result for every call it still owes one.           *)
EndTurn ==
  /\ \/ agent.pc = "ending"
     \/ agent.pc = "tools" /\ agent.cancelled
     \/ agent.pc = "request" /\ agent.cancelled
  /\ Writes([i \in 1..agent.calls |-> Result(FALSE)] \o <<TurnEnd(agent.turn)>>)
  /\ Goes([NoTurn EXCEPT !.turn = agent.turn, !.mail = agent.mail])
  /\ Unspent /\ UNCHANGED <<owner, stream, told>>

(* The input of a Turn enters after the first hook let it.                 *)
EnterStep ==
  /\ agent.pc = "preStep" /\ agent.hook \in {"continued", "refused"}
  /\ IF agent.hook = "refused" \/ agent.cancelled
     THEN /\ Goes([agent EXCEPT !.pc = "ending", !.hook = "none"])
          /\ UNCHANGED session
     ELSE /\ Writes(IF agent.first THEN <<Event("user")>> ELSE <<>>)
          /\ Goes([agent EXCEPT !.pc = "request", !.hook = "none", !.first = FALSE,
                     !.sent = TotalPrice(session'.log, session'.nodes)])
  /\ Unspent /\ UNCHANGED <<owner, stream, told>>

Respond ==
  /\ agent.pc = "request"
  /\ \E calls \in spent.of.calls :
       /\ calls > 0 => Len(session.log) < spent.of.events
       /\ Writes(<<Assistant(calls)>>)
       /\ Goes([agent EXCEPT !.pc = IF calls = 0 THEN "ending" ELSE "tools", !.calls = calls,
                  !.retried = 0, !.refused = 0])
  /\ Unspent /\ UNCHANGED <<owner, stream, told>>

ReturnResult ==
  /\ agent.pc = "tools" /\ ~agent.cancelled
  /\ \E big \in BOOLEAN : Writes(<<Result(big)>>)
  /\ Goes(IF agent.calls > 1 THEN [agent EXCEPT !.calls = @ - 1]
          ELSE Hooks([agent EXCEPT !.calls = 0], "preStep"))
  /\ Unspent /\ UNCHANGED <<owner, stream, told>>

Overflow ==
  /\ agent.pc = "request" /\ ~agent.cancelled
  /\ Uses("overflows")
  /\ Goes(Hooks(agent, "requestError"))
  /\ UNCHANGED <<session, owner, stream, told>>

ResolveOverflow ==
  /\ agent.pc = "requestError" /\ agent.hook \in {"continued", "refused", "retry"}
  /\ Goes(IF agent.hook = "retry" /\ ~agent.cancelled
          THEN [agent EXCEPT !.pc = "request", !.hook = "none", !.retried = @ + 1,
                  !.refused = agent.sent, !.sent = TotalPrice(session.log, session.nodes)]
          ELSE [agent EXCEPT !.pc = "ending", !.hook = "none"])
  /\ Unspent /\ UNCHANGED <<session, owner, stream, told>>

(* Cancel stops a Turn, or the maintenance that holds the Agent.           *)
Cancel ==
  /\ agent.pc # "idle" /\ ~agent.cancelled
  /\ Uses("cancels")
  /\ Goes([agent EXCEPT !.cancelled = TRUE])
  /\ UNCHANGED <<session, owner, stream, told>>

(* beginMaintenance, finishMaintenance: requests wait in the Agent's mail, *)
(* whether or not their sender still awaits the reply.                     *)
Replies(what, ok) ==
  owner' = IF owner.ask = what /\ ~owner.replied
           THEN [owner EXCEPT !.replied = TRUE, !.answer = [Refused EXCEPT !.ok = ok]]
           ELSE owner

Reserve ==
  /\ agent.mail = "admit"
  /\ Goes([agent EXCEPT !.mail = "none", !.pc = IF @ = "idle" THEN "maintenance" ELSE @])
  /\ Replies("admit", agent.pc = "idle")
  /\ Unspent /\ UNCHANGED <<session, stream, told>>

Release ==
  /\ agent.mail = "release" /\ agent.pc = "maintenance"
  /\ Goes([NoTurn EXCEPT !.turn = agent.turn])
  /\ Replies("release", TRUE)
  /\ Unspent /\ UNCHANGED <<session, stream, told>>

----------------------------------------------------------------------------
(* The Session answers (session/actor); a lost reply is asked for again.   *)

Answers(answer) == owner' = [owner EXCEPT !.replied = TRUE, !.answer = answer]
Awaits(what) == owner.ask \in what /\ ~owner.replied

Reads == {"recover", "prepare", "measure", "pruned", "settled"}

ServeRead ==
  /\ Awaits(Reads)
  /\ Answers(Snapshot(session))
  /\ Unspent /\ UNCHANGED <<session, agent, stream, told>>

(* Commit: what was committed before is found again, else it is built.     *)
ServeCommit ==
  /\ Awaits({"commit"})
  /\ LET tx == owner.tx
         found == Existing(tx, session)
         batch == Drafts(tx)
         first == Len(session.log) + 1
     IN IF found # {} /\ ~Conflicts(tx, session)
        THEN /\ \E i \in found : Answers(Accepted(i, Len(batch)))
             /\ UNCHANGED session
        ELSE IF found = {} /\ ~Conflicts(tx, session) /\ Admissible(tx, session)
        THEN Answers(Accepted(first, Len(batch))) /\ Writes(batch)
        ELSE Answers(Refused) /\ UNCHANGED session
  /\ Unspent /\ UNCHANGED <<agent, stream, told>>

(* The pruner's plan is bound to the revision it was computed for.         *)
ServePrune ==
  /\ Awaits({"prune"})
  /\ LET snap == owner.snap
         batch == PruneDrafts(Prefix(snap), snap.nodes)
         end == snap.next + Len(batch)
         found == /\ batch # <<>> /\ end <= Len(session.log)
                  /\ SubSeq(session.log, snap.next + 1, end) = batch
     IN IF Len(session.log) = snap.next
        THEN Answers(Accepted(snap.next + 1, Len(batch))) /\ Writes(batch)
        ELSE /\ Answers([Accepted(snap.next + 1, Len(batch)) EXCEPT !.ok = found])
             /\ UNCHANGED session
  /\ Unspent /\ UNCHANGED <<agent, stream, told>>

(* Flush: the whole log is stored, or the write fails for good.            *)
ServeFlush ==
  /\ Awaits({"flush"})
  /\ \/ /\ session' = [session EXCEPT !.durable = Len(session.log)]
        /\ Answers(Accepted(1, Len(session.log)))
        /\ Unspent
     \/ Fault /\ Answers(Refused) /\ UNCHANGED session
  /\ UNCHANGED <<agent, stream, told>>

LoseReply ==
  /\ owner.replied /\ owner.ask \in Reads \cup {"commit", "prune", "flush"}
  /\ Fault
  /\ owner' = [owner EXCEPT !.replied = FALSE, !.answer = Refused]
  /\ UNCHANGED <<session, agent, stream, told>>

(* Writes behind, and notes of other components, which are not on the      *)
(* Surface.                                                                *)
WriteBehind ==
  /\ session.durable < Len(session.log) /\ spent.crashes < spent.of.crashes
  /\ session' = [session EXCEPT !.durable = Len(session.log)]
  /\ Unspent /\ UNCHANGED <<agent, owner, stream, told>>

Note ==
  /\ owner.ask \in {"prepare", "prune", "commit"}
  /\ Uses("notes")
  /\ Writes(<<Event("note")>>)
  /\ UNCHANGED <<agent, owner, stream, told>>

----------------------------------------------------------------------------
(* The Grain's messages: a hook or a command that starts an invocation,    *)
(* the replies it awaits, a cancellation.                                  *)

(* Asking the Agent leaves a request in its mail.                          *)
Schedules(o) ==
  /\ owner' = o
  /\ agent' = IF o.ask = "release" /\ owner.ask # "release"
              THEN [agent EXCEPT !.mail = "release"] ELSE agent

Received(what) == owner.ask = what /\ owner.replied

(* admitHook: a hook needs an idle Grain, whoever keeps it busy.           *)
AdmitHook ==
  /\ agent.hook = "asked" /\ owner.mode \in {"idle", "manual"}
  /\ IF owner.mode # "idle" THEN Goes([agent EXCEPT !.hook = "refused"]) /\ UNCHANGED owner
     ELSE /\ owner' = IF agent.pc = "preStep" THEN Invoked(owner, "pressure", "prepare")
                      ELSE Invoked(owner, "overflow", "recover")
          /\ UNCHANGED agent
  /\ Unspent /\ UNCHANGED <<session, stream, told>>

(* Execute: /compact asks the Agent for its maintenance.                   *)
Execute ==
  /\ owner.mode = "idle" /\ Uses("manuals")
  /\ owner' = Invoked(owner, "manual", "admit")
  /\ Goes([agent EXCEPT !.mail = "admit"])
  /\ UNCHANGED <<session, stream, told>>

Admitted ==
  /\ Received("admit")
  /\ Schedules(IF owner.answer.ok THEN Asks(owner, "prepare") ELSE Idle(owner))
  /\ Unspent /\ UNCHANGED <<session, stream, told>>

(* An unconfirmed admission or release is reported, and the invocation     *)
(* kept: nothing can tell whether the Agent is still reserved for it.      *)
MaintenanceUnconfirmed ==
  /\ owner.ask \in {"admit", "release"} /\ Fault
  /\ owner' = Asks(owner, "expired")
  /\ UNCHANGED <<session, agent, stream, told>>

(* Recovery.Prepare: a budget for each Turn and response.                  *)
RecoveryPrepared ==
  /\ Received("recover")
  /\ LET snap == owner.answer
         responses == {i \in 1..snap.next : session.log[i].k = "assistant"}
         latest == FoldSet(LAMBDA i, m : IF i > m THEN i ELSE m, 0, responses)
         same == owner.turn = agent.turn /\ owner.response = latest
         o == [owner EXCEPT !.turn = agent.turn, !.response = latest,
                 !.retries = IF same THEN @ ELSE 0]
     IN Schedules(IF o.retries < MaxOverflowRetries
                  THEN Asks([o EXCEPT !.recovering = TRUE], "prepare")
                  ELSE Asks(o, "continue"))
  /\ Unspent /\ UNCHANGED <<session, stream, told>>

(* The history, its price and the model's capacity: Begin, or reject.      *)
Prepared ==
  /\ Received("prepare")
  /\ \/ Schedules(Advance(Begin(owner, owner.answer))) /\ Unspent
     \/ Schedules(Reject(owner)) /\ Fault
  /\ UNCHANGED <<session, stream, told>>

(* A cancellation may have finished the invocation before the price came.  *)
MeasurementReceived ==
  /\ Received("measure")
  /\ IF owner.stage # "measure" THEN Schedules(Advance(owner)) /\ Unspent
     ELSE \/ Schedules(Advance(Measured(owner, owner.answer))) /\ Unspent
          \/ Schedules(Advance(Finish(owner, TRUE))) /\ Fault
  /\ UNCHANGED <<session, stream, told>>

(* The outcome of the pruning is consumed with the history that follows.   *)
PruneReceived ==
  /\ Received("prune")
  /\ Schedules(Asks([owner EXCEPT !.failure = ~owner.answer.ok], "pruned"))
  /\ Unspent /\ UNCHANGED <<session, stream, told>>

PrunedReceived ==
  /\ Received("pruned")
  /\ Schedules(Advance(Pruned(owner, owner.answer, owner.failure)))
  /\ Unspent /\ UNCHANGED <<session, stream, told>>

CommitReceived ==
  /\ Received("commit")
  /\ Schedules(Advance([owner EXCEPT !.tx = AcceptCommit(owner.tx, owner.answer)]))
  /\ Unspent /\ UNCHANGED <<session, stream, told>>

(* The model opens a stream; a failed opening may have left one behind.    *)
GenerationStarted ==
  /\ owner.ask = "open"
  /\ \/ /\ stream' = TRUE /\ Unspent
        /\ Schedules(Advance([owner EXCEPT !.tx = Opened(@, FALSE)]))
     \/ /\ stream' \in BOOLEAN /\ Fault
        /\ Schedules(Advance([owner EXCEPT !.tx = Opened(@, TRUE)]))
  /\ UNCHANGED <<session, told>>

ChunksRead ==
  /\ owner.ask = "chunk"
  /\ \/ Schedules(Advance([owner EXCEPT !.tx = StreamEnds(@, FALSE)])) /\ Unspent
     \/ Schedules(Advance([owner EXCEPT !.tx = StreamEnds(@, TRUE)])) /\ Fault
  /\ UNCHANGED <<session, stream, told>>

(* Only a confirmed close lets the transaction go on; a failed one is      *)
(* asked for again.                                                        *)
CallClosed ==
  /\ owner.ask = "close"
  /\ \/ /\ stream' = FALSE /\ Unspent
        /\ \E useful \in BOOLEAN :
             Schedules(Advance([owner EXCEPT !.tx = ConfirmClose(@, useful)]))
     \/ stream' = stream /\ Fault /\ UNCHANGED <<agent, owner>>
  /\ UNCHANGED <<session, told>>

FlushReceived ==
  /\ Received("flush")
  /\ Schedules(Advance([owner EXCEPT !.tx.stage = "finished",
                          !.tx.failure = @ \/ ~owner.answer.ok]))
  /\ Unspent /\ UNCHANGED <<session, stream, told>>

TransactionReceived ==
  /\ Received("settled")
  /\ Schedules(Advance(CompleteTransaction(owner, owner.answer)))
  /\ Unspent /\ UNCHANGED <<session, stream, told>>

(* The hook's reply: a retry, or what the handlers after this one said.    *)
HookReplies ==
  /\ owner.ask \in {"continue", "retry"}
  /\ Goes([agent EXCEPT !.hook = IF owner.ask = "retry" THEN "retry" ELSE "continued"])
  /\ owner' = Idle(owner)
  /\ Unspent /\ UNCHANGED <<session, stream, told>>

(* finishMaintenance: the Agent is free before /compact hears the result.  *)
Released ==
  /\ Received("release")
  /\ told' = IF owner.failure \/ owner.latest = 0 THEN told ELSE told \cup {owner.latest}
  /\ owner' = Idle(owner)
  /\ Unspent /\ UNCHANGED <<session, agent, stream>>

(* CancelInvocation, CancelMaintenance: once for each invocation.          *)
DeliverCancel ==
  /\ agent.cancelled /\ ~owner.cancelled /\ owner.mode # "idle"
  /\ IF owner.mode = "manual" THEN agent.pc = "maintenance" ELSE agent.hook = "asked"
  /\ owner' = CancelWork(owner)
  /\ Unspent /\ UNCHANGED <<session, agent, stream, told>>

----------------------------------------------------------------------------
(* A crash keeps what is stored.  The restored Session closes an open Turn *)
(* in storage, then marks the seam; the Grains start afresh.               *)

OpenTurn(log) ==
  LET edges == SelectSeq(log, LAMBDA e : e.k \in {"turn/start", "turn/end"})
  IN IF edges = <<>> \/ Last(edges).k = "turn/end" THEN 0 ELSE Last(edges).turn

Restored(log) ==
  LET kept == [Committed(EmptySession, log) EXCEPT !.durable = Len(log)]
      turn == OpenTurn(log)
      owed == OpenCalls(log, kept.nodes)[Len(kept.nodes)]
      closers == IF turn = 0 THEN <<>>
                 ELSE [i \in 1..owed |-> Result(FALSE)] \o <<TurnEnd(turn)>>
      closed == [Committed(kept, closers) EXCEPT !.durable = Len(log) + Len(closers)]
  IN IF Last(closed.log).k = "end-seed" THEN closed ELSE Extended(closed, Event("end-seed"))

Crash ==
  /\ Uses("crashes")
  /\ session' = Restored(SubSeq(session.log, 1, session.durable))
  /\ agent' = [NoTurn EXCEPT !.turn = agent.turn]
  /\ owner' = NoInvocation @@ NewBudget(owner.ids)
  /\ stream' = FALSE
  /\ UNCHANGED told

----------------------------------------------------------------------------
AgentSteps ==
  \/ EndTurn \/ EnterStep \/ Respond \/ ReturnResult \/ ResolveOverflow
  \/ Reserve \/ Release

SessionAnswers == ServeRead \/ ServeCommit \/ ServePrune \/ ServeFlush

GrainSteps ==
  \/ AdmitHook \/ Admitted \/ RecoveryPrepared \/ Prepared \/ MeasurementReceived
  \/ PruneReceived \/ PrunedReceived \/ CommitReceived \/ GenerationStarted
  \/ ChunksRead \/ CallClosed \/ FlushReceived \/ TransactionReceived
  \/ HookReplies \/ Released

Environment ==
  \/ StartTurn \/ Overflow \/ Cancel \/ Execute \/ DeliverCancel
  \/ MaintenanceUnconfirmed \/ LoseReply \/ WriteBehind \/ Note \/ Crash

Next == AgentSteps \/ SessionAnswers \/ GrainSteps \/ Environment

(* What each owner has in its mailbox.                                     *)
AgentOwes ==
  \/ agent.pc \in {"ending", "tools", "request"}
  \/ agent.pc \in {"preStep", "requestError"} /\ agent.hook # "asked"
  \/ agent.mail = "admit"
  \/ agent.mail = "release" /\ agent.pc = "maintenance"
SessionOwes == Awaits(Reads \cup {"commit", "prune", "flush"})
GrainOwes ==
  \/ owner.replied
  \/ owner.ask \in {"open", "chunk", "close", "continue", "retry"}
  \/ agent.hook = "asked" /\ owner.mode \in {"idle", "manual"}

(* A Grain takes the messages of its mailbox (weak fairness, with the      *)
(* guard spelled out), and a request is sent again until it is answered;   *)
(* Turns, commands, cancellations and crashes are never owed.              *)
Fairness ==
  /\ []<>~AgentOwes \/ []<><<AgentSteps>>_vars
  /\ []<>~SessionOwes \/ []<><<SessionAnswers>>_vars
  /\ []<>~GrainOwes \/ []<><<GrainSteps>>_vars

Spec == Init /\ [][Next]_vars
FairSpec == Spec /\ Fairness

----------------------------------------------------------------------------
(* Properties.                                                             *)

TxStages == {"start", "summary", "opening", "streaming", "closing", "commit", "flush", "finished"}
Stages == {"idle", "measure", "prune", "transaction", "finished"}
Questions == Reads \cup {"none", "admit", "commit", "prune", "flush", "open", "chunk", "close",
                         "release", "expired", "continue", "retry"}

(* The Surface names events of the log, and the Agent, the invocation and  *)
(* its transaction stand in one of the stages their code names.            *)
TypeOK ==
  /\ \A i \in 1..Len(session.nodes) : session.nodes[i] \in 1..Len(session.log)
  /\ session.durable \in 0..Len(session.log)
  /\ agent.pc \in {"idle", "preStep", "request", "requestError", "tools", "ending", "maintenance"}
  /\ agent.hook \in {"none", "asked", "continued", "refused", "retry"}
  /\ owner.mode \in {"idle", "pressure", "overflow", "manual"}
  /\ owner.stage \in Stages /\ owner.tx.stage \in TxStages /\ owner.ask \in Questions
  /\ (owner.mode = "idle") = (owner.ask = "none")
  /\ stream \in BOOLEAN /\ told \subseteq 1..Len(session.log)

(* A tool call keeps its results: nothing stands between them, and what is *)
(* owed is what the Turn still waits for.                                  *)
CallsKeepResults ==
  LET log == session.log
      nodes == session.nodes
      open == OpenCalls(log, nodes)
  IN /\ \A i \in 1..Len(nodes) :
          /\ open[i] >= 0
          /\ log[nodes[i]].k \in {"user", "assistant", "checkpoint"} => open[i - 1] = 0
     /\ open[Len(nodes)] = agent.calls

(* The events a summary or a pruning accounts for, in the log after it.    *)
AccountsFor(i) ==
  {j \in 1..Len(session.log) :
     session.log[j].k \in {"summary", "prune"} /\ \E n \in 1..Len(session.log[j].seqs) :
        session.log[j].seqs[n] = i}

(* Nothing is lost: what leaves the Surface is in exactly one summary or   *)
(* pruning, whose replacement follows it at once.                          *)
NothingIsLost ==
  LET log == session.log
      onSurface == Range(session.nodes)
  IN /\ \A i \in 1..Len(log) : OnSurface(log[i]) =>
          Cardinality(AccountsFor(i)) = IF i \in onSurface THEN 0 ELSE 1
     /\ \A i \in 1..Len(log) : log[i].k = "summary" =>
          /\ i + 2 <= Len(log)
          /\ log[i + 1].k = "checkpoint" /\ log[i + 2].k = "compaction/end"
          /\ log[i + 2].id = log[i].id /\ ~log[i + 2].failed

(* The history stays one a Session can derive its messages from, whatever  *)
(* was lost, sent again or cut short by a crash.                           *)
HistoryIsSound == TypeOK /\ InspectLog(session.log).ok /\ CallsKeepResults /\ NothingIsLost

(* What /compact reported as done is an end on disk.                       *)
ReportsAreDurable ==
  \A end \in told :
    /\ end <= session.durable
    /\ session.log[end].k = "compaction/end" /\ ~session.log[end].failed

(* An attempt is open in the log only while its invocation works on it and *)
(* the Agent waits for it, and a stream is held only within it.            *)
AttemptsAreOwned ==
  LET attempt == InspectLog(session.log).attempt
  IN /\ attempt # NoAttempt =>
          /\ owner.stage = "transaction" /\ owner.tx.id = attempt.id
          /\ IF attempt.turn = 0 THEN agent.pc = "maintenance" ELSE agent.hook = "asked"
     /\ stream => attempt # NoAttempt

(* A request that overflowed is sent again only when it has become smaller,*)
(* and only so often between two responses.                                *)
RetriesShrink ==
  agent.retried > 0 => agent.sent < agent.refused /\ agent.retried <= MaxOverflowRetries

(* Compaction tells the truth and leaves nothing behind.                   *)
CompactionIsTrue == ReportsAreDurable /\ AttemptsAreOwned /\ RetriesShrink

(* An invocation settles and the Agent goes on, unless the reservation was *)
(* never confirmed.                                                        *)
CompactionSettles ==
  /\ owner.mode # "idle" ~> owner.mode = "idle" \/ owner.ask = "expired"
  /\ agent.pc # "idle" ~> agent.pc = "idle" \/ owner.ask = "expired"
=============================================================================
