----------------------------- MODULE ReactLoop -----------------------------
(***************************************************************************)
(* One ReactLoopAgent (agentloop/) under the Grain that schedules it       *)
(* (agentloop/actor/): durable Inbox, Turns, Steps, tool calls,            *)
(* cancellation, maintenance and close, against the Session log it writes  *)
(* (the log itself is SessionGrain).                                       *)
(*                                                                         *)
(* The Agent performs no I/O.  A handler runs to the next capability       *)
(* request, kept in work.op, and is resumed by one delivery.  Session      *)
(* requests stash ordinary messages until they are answered, so a command  *)
(* never runs while work.op is an unanswered Session request; it may run   *)
(* between that answer and its delivery, which is a mailbox message of its *)
(* own (serviceScope.request).  A model request is one operation here: the *)
(* attempt that reads, streams and commits inside it is abstracted to the  *)
(* RequestFinished it returns.                                             *)
(***************************************************************************)
EXTENDS Integers, Sequences, FiniteSets, SequencesExt

CONSTANTS
  Restored,     \* messages an earlier activation may have left queued
  Sections,     \* whether a rendered prompt adds a context message
  Settings      \* inputs and bounds; a behaviour keeps to one of them:
                \*   messages   user messages commands may admit
                \*   contexts   context messages tools may return
                \*   decisions  of a pre-step hook: "enter", "empty", "reject"
                \*   keep       KeepInbox of the Cancel commands
                \*   steps      of a turn before the model asks for no tools
                \*   calls      tool calls in one model response
                \*   faults     failed or unanswered capability requests
                \*   commands   Remove, Replace, Promote, Cancel, maintenance

ASSUME SettingsAssumption ==
  /\ Sections \subseteq BOOLEAN
  /\ \A s \in Settings :
       /\ {s.steps, s.calls, s.faults, s.commands} \subseteq Nat
       /\ s.messages \cap s.contexts = {} /\ Restored \cap (s.messages \cup s.contexts) = {}
       /\ s.decisions \subseteq {"enter", "empty", "reject"} /\ s.keep \subseteq BOOLEAN

VARIABLES
  work,      \* the ReactLoopAgent and the capability request it awaits
  wakes,     \* executePending messages in the Grain's mailbox
  cancels,   \* cancellations whose delivery is not yet acknowledged
  log,       \* the Session log
  durable,   \* length of the flushed prefix of the log
  spent,     \* the setting, the faults and commands used so far
  ran,       \* tool calls handed to the Tool Runtime, in order
  aborting,  \* turns cancelled before their end was fixed
  licensed   \* a wake was admitted since the last input-preserving cancel

vars == <<work, wakes, cancels, log, durable, spent, ran, aborting, licensed>>

Messages == spent.of.messages
Contexts == spent.of.contexts
MaxFaults == spent.of.faults

----------------------------------------------------------------------------
(* Inbox (agent/inbox.go): two queues changed only by committed splices.   *)

EmptyInbox == [turn |-> <<>>, step |-> <<>>]
Queued(box) == ToSet(box.turn) \cup ToSet(box.step)
HasPending(box) == Queued(box) # {}

Splice(queue, start, count, inserted, outcome) ==
  [k |-> "splice", q |-> queue, start |-> start, count |-> count,
   ins |-> inserted, out |-> outcome]

Replaced(box, e) ==
  [box EXCEPT ![e.q] = SubSeq(@, 1, e.start) \o e.ins
                         \o SubSeq(@, e.start + e.count + 1, Len(@))]

ValidSplice(box, e) ==
  /\ e.start + e.count <= Len(box[e.q])
  /\ LET new == Replaced(box, e) IN IsInjective(new.turn \o new.step)

(* Inbox.Apply folds a batch atomically: one bad splice rejects it all.    *)
Apply(box, batch) ==
  LET applied[i \in 0..Len(batch)] ==
        IF i = 0 THEN [ok |-> TRUE, box |-> box]
        ELSE LET acc == applied[i - 1] IN
             IF acc.ok /\ ValidSplice(acc.box, batch[i])
             THEN [acc EXCEPT !.box = Replaced(@, batch[i])]
             ELSE [acc EXCEPT !.ok = FALSE]
  IN applied[Len(batch)]

InboxEntries(entries) == SelectSeq(entries, LAMBDA e : e.k = "splice")

PrepareAppend(box, queue, m) == <<Splice(queue, Len(box[queue]), 0, <<m>>, "")>>

PrepareAll(box, queue, most, outcome) ==
  LET count == IF most < Len(box[queue]) THEN most ELSE Len(box[queue])
  IN IF count = 0 THEN <<>> ELSE <<Splice(queue, 0, count, <<>>, outcome)>>

PrepareClaim(box, queue) ==
  PrepareAll(box, "step", Len(box.step), "")
    \o IF queue = "turn" THEN PrepareAll(box, "turn", 1, "") ELSE <<>>

PrepareClear(box) ==
  PrepareAll(box, "step", Len(box.step), "canceled")
    \o PrepareAll(box, "turn", Len(box.turn), "canceled")

QueueOf(box, m) == IF m \in ToSet(box.turn) THEN "turn" ELSE "step"
IndexOf(box, m) == CHOOSE i \in 1..Len(box[QueueOf(box, m)]) :
                     box[QueueOf(box, m)][i] = m

PrepareReplace(box, m, inserted) ==
  IF m \notin Queued(box) THEN <<>>
  ELSE <<Splice(QueueOf(box, m), IndexOf(box, m) - 1, 1, inserted, "canceled")>>

PrepareMove(box, m, queue) ==
  LET removal == PrepareReplace(box, m, <<>>)
  IN removal \o PrepareAppend(Apply(box, removal).box, queue, m)

(* The messages a batch takes out of the queues.                           *)
Removed(box, batch) ==
  FoldLeft(LAMBDA acc, e :
             [box |-> Replaced(acc.box, e),
              out |-> acc.out \o SubSeq(acc.box[e.q], e.start + 1, e.start + e.count)],
           [box |-> box, out |-> <<>>], batch).out

----------------------------------------------------------------------------
(* Capability requests.  A Session commit carries the immutable entries it *)
(* proposes; a retry reissues the very same request.                       *)

Op(k, of, entries) ==
  [k |-> k, of |-> of, entries |-> entries, st |-> "asked", at |-> 0]
NoOp == Op("none", "none", <<>>)
Commit(of, entries) == Op("commit", of, entries)
Read(of) == Op("read", of, <<>>)
Flush == Op("flush", "turn", <<>>)
Call(of) == Op("call", of, <<>>)

(* While a Session request is unanswered every ordinary message is stashed; *)
(* so it is while a worker has not acknowledged a cancellation.            *)
Stashing(w) == w.op.k \in {"commit", "read", "flush"} /\ w.op.st = "asked"

(* Capability requests the Grain can cancel (grain.cancellations, calls).  *)
Hooks == {"configure", "preStep", "prompt", "stopping"}
Cancellable(w) ==
  \/ w.op.k = "call" /\ w.op.of \in Hooks
  \/ w.calls = "active"

NoTurn == [n |-> 0, last |-> 0, st |-> "none", result |-> "none"]
NoStep == [n |-> 0, st |-> "none", result |-> "none", input |-> <<>>, offset |-> 0,
           err |-> {}]
NoPreparation == [st |-> "none", after |-> 0, edit |-> <<>>, messages |-> <<>>]
NoRequest == [st |-> "none", err |-> {}, closed |-> TRUE]
NoBatch == [size |-> 0, index |-> 0, stopped |-> FALSE, concludes |-> FALSE,
            contexts |-> <<>>]
NoEnding == [st |-> "none", barrier |-> 0]

NewAgent ==
  [life |-> "unrestored", state |-> "idle", cause |-> "none", runAfter |-> FALSE,
   preserve |-> FALSE, failure |-> {}, retry |-> NoOp, lastTurn |-> 0,
   turn |-> NoTurn, step |-> NoStep, prep |-> NoPreparation, request |-> NoRequest,
   batch |-> NoBatch, calls |-> "none", ending |-> NoEnding, inbox |-> EmptyInbox,
   inboxNext |-> 1, op |-> NoOp]

Ready(w) == w.life \in {"available", "closing"}
Cancellation(w) == IF w.cause = "none" THEN {} ELSE {"cancel"}
CheckInboxMutation(w) == w.prep.st # "unconfirmed"
CheckExecution(w) == w.life = "available" /\ CheckInboxMutation(w)
Stranded(w) == [w EXCEPT !.op = NoOp]     \* Observer.ExecutionFailed and no more
----------------------------------------------------------------------------
(* Log entries the Agent proposes.                                         *)

TurnStart(w) == [k |-> "turn/start", turn |-> w.turn.n]
TurnEnd(w) == [k |-> "turn/end", turn |-> w.turn.n, result |-> w.turn.result]
At(w, kind) == [k |-> kind, turn |-> w.turn.n, step |-> w.step.n]
InputEntry(w) ==
  [k |-> "input", turn |-> w.turn.n, step |-> w.step.n,
   m |-> w.step.input[w.step.offset + 1]]
ToolEntry(w, kind, real) ==
  [k |-> kind, turn |-> w.turn.n, step |-> w.step.n,
   call |-> w.batch.index, real |-> real]

LastNumber(entries) ==
  LET starts == SelectSeq(entries, LAMBDA e : e.k = "turn/start")
  IN IF starts = <<>> THEN 0 ELSE starts[Len(starts)].turn

(* FindCommit: where an earlier submission of the same immutable fact was  *)
(* committed.  Plain batches (claim, step start, input) have no lookup.    *)
Idempotent == {"turnStart", "stepEnd", "turnEnd", "toolCall", "toolResult",
               "toolAbort", "context"}
FindCommit(op) ==
  IF op.of \notin Idempotent THEN {}
  ELSE {i \in 1..(Len(log) - Len(op.entries) + 1) :
          SubSeq(log, i, i + Len(op.entries) - 1) = op.entries}

----------------------------------------------------------------------------
(* Turn settlement (agent_settlement.go) and execution release.            *)

Settling(turn, result) ==
  [turn EXCEPT !.st = "settling",
               !.result = IF @ # "maxTokens" \/ result \in {"aborted", "error"}
                            THEN result ELSE @]

(* Variant: only the failure decides how the Turn ended.                   *)
EndIgnoringCancellation(w, failure) ==
  LET result == IF failure # {} \/ w.turn.result \in {"none", "continue"}
                  THEN "error" ELSE w.turn.result
      ended == [w EXCEPT !.turn = Settling(@, result), !.ending.st = "prepared"]
  IN [ended EXCEPT !.op = Commit("turnEnd", <<TurnEnd(ended)>>)]

PrepareTurnEnd(w, failure) ==
  LET problem == Cancellation(w) \cup failure
      result == IF "cancel" \in problem THEN "aborted"
                ELSE IF problem # {} \/ w.turn.result \in {"none", "continue"}
                  THEN "error"
                ELSE w.turn.result
      ended == [w EXCEPT !.turn = Settling(@, result), !.ending.st = "prepared"]
  IN [ended EXCEPT !.op = Commit("turnEnd", <<TurnEnd(ended)>>)]

ReleaseWork(w) ==
  LET replay == /\ w.runAfter /\ HasPending(w.inbox)
                /\ ~(w.preserve /\ w.life = "closing")
  IN [w EXCEPT !.state = IF replay THEN "running" ELSE "idle", !.cause = "none",
               !.runAfter = FALSE, !.failure = {}, !.retry = NoOp, !.op = NoOp]

PrepareTurn(w) ==
  LET proposed == [w EXCEPT !.turn = [NoTurn EXCEPT !.n = w.lastTurn + 1,
                                                     !.st = "proposed"]]
  IN [proposed EXCEPT !.op = Commit("turnStart", <<TurnStart(proposed)>>)]

(* Cancellation before a durable Turn exists releases accepted execution.  *)
StartTurn(w) ==
  IF w.cause = "none" THEN PrepareTurn(w)
  ELSE LET released == ReleaseWork(w)
       IN IF released.state = "running" THEN PrepareTurn(released) ELSE released

(* Run resumes a retained boundary or starts a Turn; otherwise it is inert. *)
Run(w) ==
  IF w.state # "running" THEN w
  ELSE IF w.retry # NoOp THEN [w EXCEPT !.op = w.retry, !.retry = NoOp]
  ELSE IF w.turn # NoTurn THEN w
  ELSE StartTurn(w)

(* Variants: pending input always asks for another Turn; or never does.    *)
ContinueWithPreserved(w) ==
  LET released == ReleaseWork([w EXCEPT !.runAfter = @ \/ HasPending(w.inbox)])
  IN IF released.state = "running" THEN StartTurn(released) ELSE released
ContinueExecution(w) ==
  LET asked == w.cause = "none" /\ HasPending(w.inbox) /\ ~w.preserve
      released == ReleaseWork([w EXCEPT !.runAfter = @ \/ asked])
  IN IF released.state = "running" THEN StartTurn(released) ELSE released

----------------------------------------------------------------------------
(* Between Steps (agent_turn_flow.go) and Step settlement.                 *)

(* PrepareInput claims next-step input, and one prompt on the first Step.  *)
PrepareInput(w) ==
  LET edit == PrepareClaim(w.inbox, IF w.turn.last = 0 THEN "turn" ELSE "step")
  IN IF edit = <<>>
     THEN [w EXCEPT !.prep = [NoPreparation EXCEPT !.st = "decision"],
                    !.op = Call("preStep")]
     ELSE [w EXCEPT !.prep = [NoPreparation EXCEPT !.st = "unconfirmed",
                                                   !.edit = edit,
                                                   !.after = w.inboxNext],
                    !.op = Commit("claim", edit)]

ContinueTurn(w) ==
  LET failure == Cancellation(w) \cup w.failure
  IN IF w.turn.st = "settling" \/ failure # {} THEN PrepareTurnEnd(w, failure)
     ELSE IF w.turn.result \notin {"none", "continue"} /\ w.inbox.step = <<>>
       THEN [w EXCEPT !.turn.st = "stopping", !.op = Call("stopping")]
     ELSE PrepareInput(w)

(* PrepareStepEnd and commitStepEnd: the conclusion is fixed before the    *)
(* first attempt to write it.                                              *)
EndStep(w, result, failure) ==
  LET ended == [w EXCEPT !.step.st = "settling", !.step.result = result,
                         !.step.err = failure, !.request = NoRequest]
  IN [ended EXCEPT !.op = Commit("stepEnd", <<At(ended, "step/end")>>)]

FailStep(w, problem) ==
  LET failed == [w EXCEPT !.failure = @ \cup problem]
  IN IF w.prep.st = "unconfirmed" THEN Stranded(failed)
     ELSE LET abandoned == [failed EXCEPT !.prep = NoPreparation]
          IN IF w.step = NoStep THEN ContinueTurn(abandoned)
             ELSE EndStep(abandoned,
                          IF "cancel" \in problem THEN "aborted" ELSE "error",
                          problem)

PrepareStep(w) ==
  IF w.cause # "none" THEN FailStep(w, {"cancel"}) ELSE PrepareInput(w)

(* Variant: a cancelled preparation is dropped without ending the Turn.    *)
PreStepDropped(w) ==
  IF w.cause # "none" THEN Stranded(w)
  ELSE [w EXCEPT !.prep.st = "decision", !.op = Call("preStep")]

PreStep(w) ==
  IF w.cause # "none" THEN FailStep(w, {"cancel"})
  ELSE [w EXCEPT !.prep.st = "decision", !.op = Call("preStep")]

(* commitInput: admitted messages in order, then the model request.        *)
CommitInput(w) ==
  IF w.cause # "none" THEN FailStep(w, {"cancel"})
  ELSE IF w.step.offset < Len(w.step.input)
    THEN [w EXCEPT !.op = Commit("input", <<InputEntry(w)>>)]
  ELSE [w EXCEPT !.step.st = "requesting",
                 !.request = [NoRequest EXCEPT !.st = "running", !.closed = FALSE],
                 !.op = Call("model")]

ConfirmStep(w) ==
  [w EXCEPT !.step.st = "open", !.turn.st = "stepping", !.turn.last = w.step.n]

ConfirmStepEnd(w) ==
  LET result == w.step.result
  IN [w EXCEPT !.turn.st = "open",
               !.turn.result = IF @ # "maxTokens" \/ result \in {"error", "aborted"}
                                 THEN result ELSE @,
               !.failure = @ \cup w.step.err,
               !.step = NoStep, !.batch = NoBatch]

----------------------------------------------------------------------------
(* Tool calls in model order (agent_tools.go, internal/toolbatch).         *)

StartCall(w) ==
  IF w.batch.index = w.batch.size
  THEN EndStep(w, IF w.cause # "none" THEN "aborted"
                  ELSE IF w.batch.concludes THEN "completed" ELSE "continue",
               Cancellation(w))
  ELSE IF w.cause # "none"
  THEN [w EXCEPT !.batch.stopped = TRUE,
                 !.op = Commit("toolAbort", <<ToolEntry(w, "tool/call", FALSE),
                                              ToolEntry(w, "tool/result", FALSE)>>)]
  ELSE [w EXCEPT !.op = Commit("toolCall", <<ToolEntry(w, "tool/call", TRUE)>>)]

(* Variant: the index of the released call is kept.                        *)
NextSameCall(w) ==
  IF w.cause # "none" THEN StartCall([w EXCEPT !.batch.index = @ + 1, !.calls = "none"])
  ELSE StartCall([w EXCEPT !.calls = "none"])

NextCall(w) ==
  StartCall([w EXCEPT !.batch.index = @ + 1, !.calls = "none"])

ExecuteTools(w, size) ==
  StartCall([w EXCEPT !.step.st = "tooling", !.request = NoRequest,
                      !.batch = [NoBatch EXCEPT !.size = size]])

(* Contexts returned by a tool are injected one by one before its release; *)
(* Inject is refused once close has frozen admission.                      *)
InjectContext(w) ==
  IF w.batch.contexts = <<>>
  THEN [w EXCEPT !.calls = "releasing", !.op = Call("release")]
  ELSE IF ~CheckExecution(w) \/ Head(w.batch.contexts) \in Queued(w.inbox)
  THEN Stranded(w)
  ELSE [w EXCEPT !.op = Commit("context",
                               PrepareAppend(w.inbox, "step", Head(w.batch.contexts)))]

----------------------------------------------------------------------------
(* Confirming Inbox edits (agent_commit.go, agent_admission.go).           *)

(* ConfirmEdit: a batch older than an applied one, or one that does not    *)
(* fit the queues, leaves the projection unchanged.                        *)
ConfirmEdit(w, at, batch) ==
  LET applied == Apply(w.inbox, batch)
  IN IF batch # <<>> /\ (at < w.inboxNext \/ ~applied.ok)
     THEN [ok |-> FALSE, w |-> w]
     ELSE [ok |-> TRUE,
           w |-> IF batch = <<>> THEN w
                 ELSE [w EXCEPT !.inbox = applied.box, !.inboxNext = at + Len(batch)]]

AcceptExecution(w, wake) ==
  IF w.life # "available" THEN w
  ELSE LET kept == [w EXCEPT !.preserve = FALSE]
       IN IF ~wake THEN kept
          ELSE IF w.state = "idle" THEN [kept EXCEPT !.state = "running"]
          ELSE IF w.state # "maintenance" /\ w.cause = "none" THEN kept
          ELSE IF w.cause = "disposed" THEN kept
          ELSE [kept EXCEPT !.runAfter = TRUE]

CancelExecution(w, cause, keep) ==
  IF w.state = "idle" THEN w
  ELSE [w EXCEPT !.cause = IF @ = "none" THEN cause ELSE @,
                 !.runAfter = @ /\ keep]
----------------------------------------------------------------------------
(* Admission: RestoreInbox and Initialize of one activation.               *)

RestoredLogs ==
  {<<>>} \cup {<<Splice("turn", 0, 0, <<m>>, "")>> : m \in Restored}

Init ==
  /\ work = NewAgent /\ wakes = 0 /\ cancels = <<>>
  /\ log \in RestoredLogs /\ durable = Len(log)
  /\ spent \in [of : Settings, faults : {0}, commands : {0}]
  /\ ran = <<>> /\ aborting = {} /\ licensed = FALSE

Restore ==
  /\ work.life = "unrestored"
  /\ LET pending == Apply(EmptyInbox, InboxEntries(log))
     IN pending.ok /\ work' = [work EXCEPT !.life = "restored", !.inbox = pending.box,
                                           !.lastTurn = LastNumber(log),
                                           !.inboxNext = Len(log) + 1]
  /\ UNCHANGED <<wakes, cancels, log, durable, spent, ran, aborting, licensed>>

Initialize ==
  /\ work.life = "restored" /\ work' = [work EXCEPT !.life = "available"]
  /\ UNCHANGED <<wakes, cancels, log, durable, spent, ran, aborting, licensed>>

----------------------------------------------------------------------------
(* The Session answers.  A reply that fails after the append is the lost   *)
(* acknowledgement every recovery path of the Agent exists for.            *)

Fault(happens) ==
  /\ happens => spent.faults < MaxFaults
  /\ spent' = [spent EXCEPT !.faults = IF happens THEN @ + 1 ELSE @]

OpenStep(entries) ==
  LET marks == SelectSeq(entries, LAMBDA e :
                 e.k \in {"step/start", "step/end", "turn/start", "turn/end"})
  IN IF marks # <<>> /\ Last(marks).k = "step/start"
     THEN <<Last(marks).turn, Last(marks).step>> ELSE <<0, 0>>
OpenTurn(entries) ==
  LET marks == SelectSeq(entries, LAMBDA e : e.k \in {"turn/start", "turn/end"})
  IN IF marks # <<>> /\ Last(marks).k = "turn/start" THEN Last(marks).turn ELSE 0

(* Drafts: the plan's own check of the log it is about to extend.          *)
Builds(op) ==
  LET e == op.entries[1] IN
  CASE op.of = "turnStart" -> LastNumber(log) + 1 = e.turn
    [] op.of = "turnEnd" -> OpenTurn(log) = e.turn
    [] op.of = "stepEnd" -> OpenStep(log) = <<e.turn, e.step>>
    [] OTHER -> TRUE

Asked(k) == work.op.k = k /\ work.op.st = "asked"

SessionCommits ==
  /\ Asked("commit")
  /\ LET found == FindCommit(work.op)
         committed == found # {} \/ Builds(work.op)
     IN /\ log' = IF found = {} /\ committed THEN log \o work.op.entries ELSE log
        /\ \E lost \in BOOLEAN :
             /\ Fault(lost /\ committed)
             /\ work' = [work EXCEPT
                           !.op.st = IF lost \/ ~committed THEN "failed" ELSE "ok",
                           !.op.at = IF found # {} THEN Min(found) ELSE Len(log) + 1]
  /\ UNCHANGED <<wakes, cancels, durable, ran, aborting, licensed>>

SessionReads ==
  /\ Asked("read")
  /\ work' = [work EXCEPT !.op.st = "ok", !.op.at = Len(log)]
  /\ UNCHANGED <<wakes, cancels, log, durable, spent, ran, aborting, licensed>>

SessionFlushes ==
  /\ Asked("flush")
  /\ durable' = Len(log)
  /\ work' = [work EXCEPT !.op.st = "ok", !.op.at = Len(log)]
  /\ UNCHANGED <<wakes, cancels, log, spent, ran, aborting, licensed>>

SessionRefuses ==
  /\ Asked("commit") \/ Asked("read") \/ Asked("flush")
  /\ Fault(TRUE)
  /\ work' = [work EXCEPT !.op.st = "failed"]
  /\ UNCHANGED <<wakes, cancels, log, durable, ran, aborting, licensed>>

----------------------------------------------------------------------------
(* Deliveries: one mailbox message resumes the retained continuation.      *)

Open == ~Stashing(work) /\ \A i \in DOMAIN cancels : cancels[i].acked
Result(k, of, st) == Open /\ work.op.k = k /\ work.op.of = of /\ work.op.st = st
Answered(k, of) == Result(k, of, "ok")
Failed(k, of) == Result(k, of, "failed")
Calling(of) == Result("call", of, "asked")
Cleared == [work EXCEPT !.op = NoOp]
Retained == [Cleared EXCEPT !.retry = [work.op EXCEPT !.st = "asked", !.at = 0]]
Quiet == UNCHANGED <<wakes, cancels, log, durable, ran, aborting, licensed>>
Deliver(w) == work' = w /\ Quiet /\ UNCHANGED spent

(* A capability call may fail; once cancelled it may report that instead.  *)
CallFails(of) ==
  /\ Calling(of)
  /\ Fault(work.cause = "none" \/ of \notin Hooks)

RetainBoundary ==
  /\ \E of \in {"turnStart", "stepEnd", "turnEnd", "toolCall", "toolResult",
                "toolAbort", "context"} : Failed("commit", of)
  /\ Deliver(Retained)

RetainFlush == Failed("flush", "turn") /\ Deliver(Retained)

TurnStarted ==
  /\ Answered("commit", "turnStart")
  /\ Deliver([work EXCEPT !.turn.st = "open", !.lastTurn = work.turn.n,
                          !.op = Call("configure")])

ToolsRefreshed == Calling("configure") /\ Deliver([work EXCEPT !.op = Call("apply")])
ToolsConfigured == Calling("apply") /\ Deliver(PrepareStep(Cleared))

ConfigurationFails ==
  /\ CallFails("configure") \/ CallFails("apply")
  /\ work' = FailStep(Cleared, {"error"} \cup Cancellation(work))
  /\ Quiet

(* ConfirmInput: claimed messages leave the Inbox only once it applies.    *)
ConfirmInput(w, at) ==
  LET confirmed == ConfirmEdit(w, at, w.prep.edit)
  IN [ok |-> confirmed.ok,
      w |-> IF ~confirmed.ok THEN w
            ELSE [confirmed.w EXCEPT
                    !.prep = [@ EXCEPT !.st = "hooks", !.edit = <<>>,
                                       !.messages = Removed(w.inbox, w.prep.edit)]]]

ClaimCommitted ==
  /\ Answered("commit", "claim")
  /\ LET confirmed == ConfirmInput(Cleared, work.op.at)
     IN Deliver(IF confirmed.ok THEN PreStep(confirmed.w)
                ELSE [Cleared EXCEPT !.op = Read("claim")])

ClaimUncertain ==
  /\ Failed("commit", "claim") /\ Deliver([Cleared EXCEPT !.op = Read("claim")])

(* ReconcileInput: the only Inbox writes after the claim was prepared must *)
(* be the claim itself.                                                    *)
ClaimRead ==
  /\ Answered("read", "claim")
  /\ LET seen == {i \in work.prep.after..work.op.at : log[i].k = "splice"}
         last == Min(seen) + Len(work.prep.edit) - 1
         ours == /\ last <= work.op.at /\ SubSeq(log, Min(seen), last) = work.prep.edit
                 /\ seen \subseteq Min(seen)..last
         confirmed == ConfirmInput(Cleared, Min(seen))
     IN Deliver(IF seen = {} THEN FailStep([Cleared EXCEPT !.prep = NoPreparation], {"error"})
                ELSE IF ours /\ confirmed.ok THEN FailStep(confirmed.w, {"error"})
                ELSE Stranded(work))

(* A read that fails leaves the claim or the Step start unresolved.        *)
RecoveryReadFails ==
  /\ Failed("read", "claim") \/ Failed("read", "step")
  /\ Deliver(Stranded(work))

PreStepResolved ==
  /\ Calling("preStep")
  /\ IF work.cause # "none" THEN Deliver(FailStep(Cleared, {"cancel"}))
     ELSE \E decision \in spent.of.decisions :
       Deliver(IF decision = "reject"
               THEN ContinueTurn([Cleared EXCEPT !.turn = Settling(@, "blocked"),
                                                 !.prep = NoPreparation])
               ELSE [work EXCEPT !.prep.st = "context",
                                 !.prep.messages = IF decision = "enter" THEN @ ELSE <<>>,
                                 !.op = Read("context")])

HookFails ==
  /\ CallFails("preStep") \/ CallFails("prompt")
  /\ work' = FailStep(Cleared, {"error"} \cup Cancellation(work))
  /\ Quiet

ContextRead ==
  /\ Answered("read", "context")
  /\ Deliver(IF work.cause # "none" THEN FailStep(Cleared, {"cancel"})
             ELSE [work EXCEPT !.op = Call("prompt")])

ContextUnread == Failed("read", "context") /\ Deliver(FailStep(Cleared, {"error"}))

(* PrepareStep: nothing to say ends the Turn instead of opening a Step.    *)
PromptAssembled ==
  /\ Calling("prompt")
  /\ \E present \in Sections :
       LET messages == work.prep.messages \o IF present THEN <<"context">> ELSE <<>>
           concluded == work.turn.result \notin {"none", "continue"}
           settled(result) == ContinueTurn([Cleared EXCEPT !.turn = Settling(@, result),
                                                           !.prep = NoPreparation])
           proposed == [Cleared EXCEPT
                          !.prep = NoPreparation,
                          !.step = [NoStep EXCEPT !.st = "proposed", !.n = work.turn.last + 1,
                                                  !.input = messages]]
       IN Deliver(IF work.cause # "none" THEN FailStep(Cleared, {"cancel"})
                  ELSE IF messages = <<>> /\ concluded THEN settled(work.turn.result)
                  ELSE IF messages = <<>> /\ work.turn.last = 0 THEN settled("completed")
                  ELSE [proposed EXCEPT
                          !.op = Commit("stepStart", <<At(proposed, "step/start")>>)])

StepStarted ==
  Answered("commit", "stepStart") /\ Deliver(CommitInput(ConfirmStep(Cleared)))

StepUncertain ==
  Failed("commit", "stepStart") /\ Deliver([Cleared EXCEPT !.op = Read("step")])

(* Variant: the scan for a committed Step start stops one entry short.     *)
StepReadShort ==
  /\ Answered("read", "step")
  /\ LET start == At(work, "step/start")
         committed == \E i \in 1..(work.op.at - 1) : log[i] = start
     IN Deliver(FailStep(IF committed THEN ConfirmStep(Cleared)
                         ELSE [Cleared EXCEPT !.step = NoStep], {"error"}))

StepRead ==
  /\ Answered("read", "step")
  /\ LET start == At(work, "step/start")
         committed == \E i \in 1..work.op.at : log[i] = start
     IN Deliver(FailStep(IF committed THEN ConfirmStep(Cleared)
                         ELSE [Cleared EXCEPT !.step = NoStep], {"error"}))

InputCommitted ==
  /\ Answered("commit", "input")
  /\ Deliver(CommitInput([Cleared EXCEPT !.step.offset = @ + 1]))

InputUncertain ==
  Failed("commit", "input") /\ Deliver(FailStep(Cleared, {"error"}))

----------------------------------------------------------------------------
(* The model request, from its start to RequestFinished.                   *)

FinishStep(w, failure, result) ==
  EndStep(w, IF "cancel" \in failure THEN "aborted"
             ELSE IF failure # {} THEN "error" ELSE result, failure)

ModelSucceeds ==
  /\ Calling("model") /\ work.cause = "none"
  /\ \/ \E result \in {"completed", "maxTokens"} : Deliver(FinishStep(Cleared, {}, result))
     \/ /\ work.step.n < spent.of.steps
        /\ \E size \in 1..spent.of.calls : Deliver(ExecuteTools(Cleared, size))

(* A failed or cancelled request ends its Step once its stream is closed;  *)
(* otherwise only the close is retried.                                    *)
ModelFails ==
  /\ Calling("model")
  /\ \E closed \in BOOLEAN :
       LET err == Cancellation(work) \cup (IF work.cause = "none" \/ ~closed
                                             THEN {"error"} ELSE {})
       IN /\ Fault(work.cause = "none" \/ ~closed)
          /\ work' = IF closed THEN FinishStep(Cleared, err, "error")
                     ELSE [Cleared EXCEPT !.retry = Call("close"),
                                          !.request.st = "done", !.request.err = err]
  /\ Quiet

StreamClosed ==
  Calling("close") /\ Deliver(FinishStep(Cleared, work.request.err \cup Cancellation(work), "error"))

CloseFails ==
  /\ CallFails("close")
  /\ work' = [Retained EXCEPT !.request.err = @ \cup {"error"} \cup Cancellation(work)]
  /\ Quiet

----------------------------------------------------------------------------
(* Tool calls: record, prepare, dispatch, finalize, record, release.       *)

ToolCallRecorded ==
  /\ Answered("commit", "toolCall")
  /\ work' = [work EXCEPT !.calls = "active", !.op = Call("toolPrepare")]
  /\ ran' = Append(ran, ToolEntry(work, "ran", TRUE))
  /\ UNCHANGED <<wakes, cancels, log, durable, spent, aborting, licensed>>

ToolPrepared ==
  /\ Calling("toolPrepare")
  /\ \E stage \in {"toolDispatch", "toolFinalize"} : Deliver([work EXCEPT !.op = Call(stage)])

ToolDispatched ==
  Calling("toolDispatch") /\ Deliver([work EXCEPT !.op = Call("toolFinalize")])

(* A tool may return fresh context messages with its result.               *)
Admitted == UNION {ToSet(e.ins) : e \in {e \in ToSet(log) : e.k = "splice"}}
ToolFinalized ==
  /\ Calling("toolFinalize")
  /\ \E concludes \in BOOLEAN, fresh \in SUBSET (Contexts \ Admitted) :
       \E contexts \in SetToSeqs(fresh) :
         LET returned == [work EXCEPT !.batch.concludes = @ \/ concludes,
                                      !.batch.contexts = contexts]
         IN Deliver([returned EXCEPT
                       !.op = Commit("toolResult", <<ToolEntry(work, "tool/result", TRUE)>>)])

(* Runtime failures only notify: nothing resumes the batch.                *)
ToolFails ==
  /\ \E of \in {"toolPrepare", "toolDispatch", "toolFinalize", "release"} : CallFails(of)
  /\ work' = Stranded(work) /\ Quiet

ToolResultCommitted == Answered("commit", "toolResult") /\ Deliver(InjectContext(Cleared))

ContextCommitted ==
  /\ Answered("commit", "context")
  /\ LET confirmed == ConfirmEdit(Cleared, work.op.at, work.op.entries)
     IN Deliver(IF ~confirmed.ok THEN Retained
                ELSE InjectContext([AcceptExecution(confirmed.w, FALSE) EXCEPT
                                      !.batch.contexts = Tail(@)]))

ToolReleased == Calling("release") /\ Deliver(NextCall(Cleared))
ToolAborted == Answered("commit", "toolAbort") /\ Deliver(NextCall(Cleared))

----------------------------------------------------------------------------
(* Closing Steps and Turns.                                                *)

StepEnded == Answered("commit", "stepEnd") /\ Deliver(ContinueTurn(ConfirmStepEnd(Cleared)))

TurnStoppingCompleted ==
  /\ Calling("stopping")
  /\ Deliver(IF work.cause # "none" THEN PrepareTurnEnd(Cleared, {})
             ELSE IF work.inbox.step # <<>> THEN PrepareInput([Cleared EXCEPT !.turn.st = "open"])
             ELSE PrepareTurnEnd([Cleared EXCEPT !.turn = Settling(@, @.result)], {}))

StoppingFails ==
  /\ CallFails("stopping")
  /\ work' = PrepareTurnEnd(Cleared, {"error"}) /\ Quiet

TurnEnded ==
  /\ Answered("commit", "turnEnd")
  /\ Deliver([work EXCEPT !.ending = [st |-> "committed", barrier |-> work.op.at],
                          !.op = Flush])

TurnFlushed ==
  /\ Answered("flush", "turn")
  /\ Deliver(IF work.op.at < work.ending.barrier THEN Retained
             ELSE ContinueExecution([Cleared EXCEPT !.turn = NoTurn, !.ending = NoEnding]))

----------------------------------------------------------------------------
(* Inbox commands.  The Session request of a command stashes every other   *)
(* message, so prepare, append and confirm are one step.                   *)

Fresh(m) == m \notin Admitted

(* Spend counts a bounded command and, when the reply is lost, a fault.    *)
Spend(commands, faults) ==
  /\ spent.commands + commands <= spent.of.commands /\ spent.faults + faults <= MaxFaults
  /\ spent' = [spent EXCEPT !.faults = @ + faults, !.commands = @ + commands]

CommitEdit(w, edit, wake, cost) ==
  LET confirmed == ConfirmEdit(w, Len(log) + 1, edit) IN
  \/ /\ work' = IF confirmed.ok THEN AcceptExecution(confirmed.w, wake) ELSE w
     /\ log' = log \o edit
     /\ wakes' = IF wake /\ confirmed.ok THEN wakes + 1 ELSE wakes
     /\ Spend(cost, 0)
  \/ /\ work' = w /\ log' \in {log, log \o edit}     \* refused, or the reply is lost
     /\ wakes' = wakes
     /\ Spend(cost, 1)

Admit(edit, wake, cost) ==
  /\ CommitEdit(work, edit, wake, cost)
  /\ licensed' = (licensed \/ wakes' > wakes)
  /\ UNCHANGED <<cancels, durable, ran, aborting>>

Append1(queue, m) == PrepareAppend(work.inbox, queue, m)

Followup ==
  /\ Open /\ CheckExecution(work)
  /\ \E m \in Messages : Fresh(m) /\ Admit(Append1("turn", m), TRUE, 0)

(* Steer after a cancellation waits for the next Turn.                     *)
Steer ==
  /\ Open /\ CheckExecution(work)
  /\ LET queue == IF work.cause = "none" THEN "step" ELSE "turn"
     IN \E m \in Messages : Fresh(m) /\ Admit(Append1(queue, m), TRUE, 0)

Inject ==
  /\ Open /\ CheckExecution(work)
  /\ \E m \in Messages : Fresh(m) /\ Admit(Append1("step", m), FALSE, 0)

ReplaceInput ==
  /\ Open /\ CheckExecution(work)
  /\ \E m \in Queued(work.inbox), new \in Messages :
       Fresh(new) /\ Admit(PrepareReplace(work.inbox, m, <<new>>), FALSE, 1)

RemoveInput ==
  /\ Open /\ CheckInboxMutation(work) /\ Ready(work)
  /\ \E m \in Queued(work.inbox) : Admit(PrepareReplace(work.inbox, m, <<>>), FALSE, 1)

Promote ==
  /\ Open /\ CheckExecution(work) /\ work.state # "idle"
  /\ LET queue == IF work.cause = "none" THEN "step" ELSE "turn"
     IN \E m \in ToSet(work.inbox.turn) : Admit(PrepareMove(work.inbox, m, queue), TRUE, 1)

ExecutePending ==
  /\ Open /\ wakes > 0 /\ wakes' = wakes - 1
  /\ work' = Run(work)
  /\ UNCHANGED <<cancels, log, durable, spent, ran, aborting, licensed>>

----------------------------------------------------------------------------
(* Cancellation (actor/grain_cancel.go), maintenance and close.            *)

HoldsStream(w) == ~w.request.closed
Executing(w) == w.op.k # "none" \/ HoldsStream(w) \/ w.calls # "none"
Busy(w) == Executing(w) \/ w.state # "idle"

FinishCancellation(w, entry, cost) ==
  IF entry.edit = <<>>
  THEN /\ work' = IF entry.kind = "close" THEN Run(w) ELSE w
       /\ Spend(cost, 0) /\ UNCHANGED <<wakes, log>>
  ELSE CommitEdit(w, entry.edit, FALSE, cost)

(* The targets a cancellation must reach before its Inbox edit is written. *)
ModelPending == \E i \in DOMAIN cancels : cancels[i].target = "model"
Targets(w) ==
  IF w.state = "maintenance" THEN {"worker"}
  ELSE IF HoldsStream(w)
    THEN IF w.op = Call("close") \/ ModelPending THEN {"none"}
         ELSE IF w.op = Call("model") THEN {"model", "none"} ELSE {"model"}
  ELSE IF Cancellable(w) THEN {"worker"} ELSE {"none"}

CancelOperations(w, kind, edit) ==
  \E target \in Targets(w) :
    LET entry == [kind |-> kind, edit |-> edit, target |-> target,
                  acked |-> target # "worker"]
    IN IF target = "none" THEN FinishCancellation(w, entry, 1) /\ UNCHANGED cancels
       ELSE /\ cancels' = Append(cancels, entry)
            /\ work' = w /\ Spend(1, 0) /\ UNCHANGED <<wakes, log>>

Aborts(w) ==
  IF w.state = "running" /\ w.turn # NoTurn /\ w.ending.st = "none"
    THEN aborting \cup {w.turn.n} ELSE aborting

Cancel ==
  /\ Open /\ Ready(work)
  /\ \E keep \in spent.of.keep :
       LET stopped == CancelExecution(work, "user", keep)
           refused == ~keep /\ ~CheckInboxMutation(work)
           marked == IF refused THEN stopped ELSE [stopped EXCEPT !.preserve = keep]
           edit == IF keep \/ refused THEN <<>> ELSE PrepareClear(work.inbox)
       IN /\ CancelOperations(marked, "cancel", edit)
          /\ licensed' = (licensed /\ keep /\ work.runAfter)
  /\ aborting' = Aborts(work)
  /\ UNCHANGED <<durable, ran>>

(* The worker's acknowledgement ends the stash; completing the Cancel is a *)
(* later message of its own (deliverCancellations).                        *)
WorkerAcknowledges ==
  /\ \E i \in DOMAIN cancels : ~cancels[i].acked /\ cancels' = [cancels EXCEPT ![i].acked = TRUE]
  /\ UNCHANGED <<work, wakes, log, durable, spent, ran, aborting, licensed>>

CompleteCancel ==
  /\ Open
  /\ \E i \in DOMAIN cancels :
       /\ FinishCancellation(work, cancels[i], 0)
       /\ cancels' = RemoveAt(cancels, i)
  /\ UNCHANGED <<durable, ran, aborting, licensed>>

BeginMaintenance ==
  /\ Open /\ CheckExecution(work) /\ work.state = "idle" /\ Spend(1, 0)
  /\ work' = [work EXCEPT !.state = "maintenance"]
  /\ Quiet

FinishMaintenance ==
  /\ Open /\ work.state = "maintenance" /\ Deliver(Run(ReleaseWork(work)))

CheckClose(w) ==
  /\ ~Executing(w) /\ w.state = "idle" /\ w.turn = NoTurn
  /\ w.life \in {"closingUninitialized", "closing", "released"}
  /\ w.life = "closing" /\ ~w.preserve => ~HasPending(w.inbox)

PrepareClose ==
  /\ Open /\ work.life # "released"
  /\ \E finish \in BOOLEAN :
       LET frozen == [work EXCEPT
                        !.life = IF Ready(work) THEN "closing" ELSE "closingUninitialized",
                        !.preserve = TRUE, !.runAfter = FALSE]
           stopped == IF finish THEN frozen ELSE CancelExecution(frozen, "disposed", TRUE)
           unstarted == /\ ~Executing(work) /\ work.state = "running" /\ work.turn = NoTurn
                        /\ work.step = NoStep /\ work.prep = NoPreparation
           closing == IF unstarted THEN ReleaseWork(stopped) ELSE stopped
       IN /\ finish => Ready(work)
          /\ IF finish \/ CheckClose(closing) \/ ~Busy(closing)
               THEN work' = closing /\ Spend(1, 0) /\ UNCHANGED <<wakes, cancels, log>>
               ELSE CancelOperations(closing, "close", <<>>)
          /\ aborting' = IF finish THEN aborting ELSE Aborts(work)
  /\ UNCHANGED <<durable, ran, licensed>>

CloseResources ==
  /\ Open /\ CheckClose(work) /\ work.life # "released"
  /\ work' = [NewAgent EXCEPT !.life = "released"]
  /\ Quiet /\ UNCHANGED spent

----------------------------------------------------------------------------
SessionAnswers == SessionCommits \/ SessionReads \/ SessionFlushes

Deliveries ==
  \/ RetainBoundary \/ RetainFlush \/ TurnStarted \/ ToolsRefreshed \/ ToolsConfigured
  \/ ConfigurationFails \/ ClaimCommitted \/ ClaimUncertain \/ ClaimRead
  \/ RecoveryReadFails \/ PreStepResolved \/ HookFails \/ ContextRead \/ ContextUnread
  \/ PromptAssembled \/ StepStarted \/ StepUncertain \/ StepRead \/ InputCommitted
  \/ InputUncertain \/ ModelSucceeds \/ ModelFails \/ StreamClosed \/ CloseFails
  \/ ToolCallRecorded \/ ToolPrepared \/ ToolDispatched \/ ToolFinalized \/ ToolFails
  \/ ToolResultCommitted \/ ContextCommitted \/ ToolReleased \/ ToolAborted
  \/ StepEnded \/ TurnStoppingCompleted \/ StoppingFails \/ TurnEnded \/ TurnFlushed

Commands ==
  \/ Followup \/ Steer \/ Inject \/ ReplaceInput \/ RemoveInput \/ Promote
  \/ Cancel \/ BeginMaintenance \/ PrepareClose \/ CloseResources

Next ==
  \/ Restore \/ Initialize
  \/ SessionAnswers \/ SessionRefuses \/ Deliveries
  \/ Commands \/ ExecutePending \/ WorkerAcknowledges \/ CompleteCancel
  \/ FinishMaintenance

(* The mailbox is drained, and every capability answers the request it     *)
(* holds; users owe nothing.                                               *)
Fairness ==
  /\ WF_vars(Restore) /\ WF_vars(Initialize)
  /\ WF_vars(SessionAnswers) /\ WF_vars(Deliveries)
  /\ WF_vars(ExecutePending)
  /\ WF_vars(WorkerAcknowledges) /\ WF_vars(CompleteCancel) /\ WF_vars(FinishMaintenance)

Spec == Init /\ [][Next]_vars
FairSpec == Spec /\ Fairness

----------------------------------------------------------------------------
(* Properties.                                                             *)

(* The states of every part of the Agent and of the capability request it  *)
(* awaits (ReactLoopAgent, Turn, Step, preparation, settlement).           *)
TypeOK ==
  /\ work.life \in {"unrestored", "restored", "available", "closingUninitialized",
                    "closing", "released"}
  /\ work.state \in {"idle", "running", "maintenance"}
  /\ work.cause \in {"none", "user", "disposed"}
  /\ work.turn.st \in {"none", "proposed", "open", "stepping", "stopping", "settling"}
  /\ work.step.st \in {"none", "proposed", "open", "requesting", "tooling", "settling"}
  /\ work.prep.st \in {"none", "unconfirmed", "hooks", "decision", "context"}
  /\ work.calls \in {"none", "active", "releasing"}
  /\ work.op.k \in {"none", "commit", "read", "flush", "call"}
  /\ wakes \in Nat /\ durable \in 0..Len(log)

(* What a reader of the log may assume: Turns and Steps are numbered       *)
(* without gaps and never overlap, input precedes tools, and every tool    *)
(* call has its one result before its Step ends, whatever was retried,     *)
(* reconciled or cancelled.                                                *)
Grammar ==
  LET grammar[i \in 0..Len(log)] ==
    IF i = 0
    THEN [ok |-> TRUE, turn |-> 0, last |-> 0, step |-> 0, steps |-> 0,
          calls |-> 0, open |-> FALSE, real |-> FALSE]
    ELSE
      LET g == grammar[i - 1]
          e == log[i]
      IN
      CASE e.k = "splice" -> g
        [] e.k = "turn/start" ->
             [g EXCEPT !.ok = @ /\ g.turn = 0 /\ e.turn = g.last + 1,
                       !.turn = e.turn, !.last = e.turn, !.steps = 0]
        [] e.k = "turn/end" ->
             [g EXCEPT !.ok = @ /\ g.turn = e.turn /\ g.step = 0, !.turn = 0]
        [] e.k = "step/start" ->
             [g EXCEPT !.ok = @ /\ g.turn = e.turn /\ g.step = 0 /\ e.step = g.steps + 1,
                       !.step = e.step, !.steps = e.step, !.calls = 0]
        [] e.k = "step/end" ->
             [g EXCEPT !.ok = @ /\ g.turn = e.turn /\ g.step = e.step /\ ~g.open,
                       !.step = 0]
        [] e.k = "input" ->
             [g EXCEPT !.ok = @ /\ g.turn = e.turn /\ g.step = e.step /\ g.calls = 0]
        [] e.k = "tool/call" ->
             [g EXCEPT !.ok = @ /\ g.turn = e.turn /\ g.step = e.step /\ ~g.open
                               /\ e.call = g.calls,
                       !.open = TRUE, !.real = e.real]
        [] e.k = "tool/result" ->
             [g EXCEPT !.ok = @ /\ g.turn = e.turn /\ g.step = e.step /\ g.open
                               /\ e.call = g.calls /\ e.real = g.real,
                       !.open = FALSE, !.calls = @ + 1]
  IN grammar[Len(log)]

(* The log stays inside that grammar across lost acknowledgements, retries *)
(* of boundaries, reconciliation and cancellation.                         *)
LogIsWellNested == Grammar.ok

(* An Agent that reports idle, is in maintenance or has released its       *)
(* resources left no open Turn, and every Turn it ended is durable         *)
(* (ConfirmTurnFlush before ContinueExecution).                            *)
IdleIsSettled ==
  work.state # "running" =>
    /\ OpenTurn(log) = 0 /\ work.turn = NoTurn
    /\ \A i \in DOMAIN log : log[i].k = "turn/end" => i <= durable

(* A Turn is recorded aborted exactly when it was cancelled before its end *)
(* was fixed: PrepareTurnEnd captures the intent once, retries keep it.    *)
AbortedIffCancelled ==
  \A i \in DOMAIN log :
    log[i].k = "turn/end" => (log[i].result = "aborted" <=> log[i].turn \in aborting)

(* Input that enters a Step enters once in the life of the log, and is not *)
(* queued again, however its claim was confirmed.                          *)
Entered == SelectSeq(log, LAMBDA e : e.k = "input" /\ e.m # "context")
InputEntersOnce ==
  LET entered == Entered
      heard == {entered[i].m : i \in DOMAIN entered}
  IN Cardinality(heard) = Len(entered) /\ heard \cap Queued(work.inbox) = {}

(* The Tool Runtime is handed each recorded call once, after its           *)
(* "tool/call" is in the log; a call recorded as aborted never ran.        *)
ToolRunsOnce ==
  /\ Cardinality(ToSet(ran)) = Len(ran)
  /\ \A i \in DOMAIN ran : [ran[i] EXCEPT !.k = "tool/call"] \in ToSet(log)
  /\ \A i \in DOMAIN log : log[i].k = "tool/result" /\ log[i].real
                             => [log[i] EXCEPT !.k = "ran"] \in ToSet(ran)

(* A provider stream and a Runtime call live inside the Step that opened   *)
(* them: no Step end is written while either is held.                      *)
ResourcesInsideStep ==
  HoldsStream(work) \/ work.calls # "none"
    => OpenStep(log) = <<work.turn.n, work.step.n>>

(* Cancelling with KeepInbox, draining and closing keep old input from     *)
(* starting a Turn; only a wake admitted afterwards does.                  *)
PreservedInputWaits ==
  [][work'.turn.n > work.turn.n => licensed /\ work.life = "available"]_vars

(* A Turn that completed heard everything it claimed from the Inbox, unless *)
(* a pre-step hook took the messages away or the acknowledgement of an     *)
(* earlier edit was lost (its projection is then stale, grain_inbox.go).   *)
Claims ==
  LET read[i \in 0..Len(log)] ==
    IF i = 0 THEN [turn |-> 0, box |-> EmptyInbox, claimed |-> {}]
    ELSE
      LET acc == read[i - 1]
          e == log[i]
      IN
      CASE e.k = "turn/start" -> [acc EXCEPT !.turn = e.turn]
        [] e.k = "turn/end" -> [acc EXCEPT !.turn = 0]
        [] e.k = "splice" ->
             [acc EXCEPT !.box = Replaced(@, e),
                         !.claimed = IF e.out = "" /\ e.count > 0
                           THEN @ \cup {<<acc.turn, m>> : m \in ToSet(Removed(acc.box, <<e>>))}
                           ELSE @]
        [] OTHER -> acc
  IN read[Len(log)].claimed
CompletedTurnHeardItsInput ==
  "empty" \notin spent.of.decisions /\ spent.faults = 0 =>
    \A i \in DOMAIN log :
      log[i].k = "turn/end" /\ log[i].result = "completed" =>
        \A c \in Claims : c[1] = log[i].turn =>
          \E j \in 1..i : log[j].k = "input" /\ log[j].m = c[2] /\ log[j].turn = c[1]

(* Every committed edit fits the Inbox it was written to, so that the next *)
(* activation can restore (Restore, agent.NewInbox).                       *)
RestorableLog == Apply(EmptyInbox, InboxEntries(log)).ok

(* As long as Cancel never clears the Inbox and every edit is acknowledged, *)
(* whatever commands and claims meet: the next activation can restore.     *)
KeptLogRestores == spent.of.keep = {TRUE} /\ spent.faults = 0 => RestorableLog

(* Accepted execution finishes: running leads to idle.                     *)
Settles == work.state = "running" ~> work.state # "running"

(* A woken Agent works through its next-Turn queue unless it is cancelled  *)
(* or closed.                                                              *)
FollowupRuns ==
  licensed /\ work.inbox.turn # <<>>
    ~> work.inbox.turn = <<>> \/ ~licensed \/ work.life # "available"

(* Any later reader can follow the log, and the next activation restores.  *)
LogIsReadable == TypeOK /\ LogIsWellNested /\ KeptLogRestores

(* A Turn is over only when its true result is durable.                    *)
TurnsSettle == IdleIsSettled /\ AbortedIffCancelled

(* Claimed input is heard, and heard once.                                 *)
InputIsHeardOnce == InputEntersOnce /\ CompletedTurnHeardItsInput

(* Input is heard, and streams and tool calls run, once, in the Step they  *)
(* belong to.                                                              *)
WorkIsDoneOnce == InputIsHeardOnce /\ ToolRunsOnce /\ ResourcesInsideStep

(* Work that was accepted goes on until it is done.                        *)
LoopProgresses == Settles /\ FollowupRuns
=============================================================================
