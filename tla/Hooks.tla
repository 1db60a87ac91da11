-------------------------------- MODULE Hooks --------------------------------
(***************************************************************************)
(* The hooks of an Agent's Turn: the middleware Grain, which runs a fixed  *)
(* order of handlers around one another or one after another               *)
(* (agent/middleware), and the handler of failed model requests, which     *)
(* records every retry in the Session before it waits and before it asks   *)
(* for the next request (llm/retry).                                       *)
(***************************************************************************)
EXTENDS Integers, Sequences, FiniteSets, SequencesExt

CONSTANTS
  Settings   \* bounds of the behaviours, one after another:
             \*   order     the handlers of every call, "retry" is the handler of requests
             \*   serial    whether they run one after another (turn stopping)
             \*   policies  retry policies of the failed requests
             \*   max       retries of the normal policy
             \*   calls, cancels, faults   calls, cancellations, failures

VARIABLES
  loop,   \* the AgentLoop: the step it is in, what it waits for
  call,   \* the call of the middleware Grain
  hands,  \* the handlers
  mail,   \* requests and replies under way
  log,    \* the retry facts of the Session
  used    \* the setting, and how much of it is used

hooksVars == <<loop, call, hands, mail, log, used>>

None == "none"
Setting == Settings[used.of]
Uses(what) == used.n[what] < Setting[what] /\ used' = [used EXCEPT !.n[what] = @ + 1]
Handlers == ToSet(Setting.order)
End == Len(Setting.order)
Positions == 1..End

NoCall ==
  [id |-> 0, open |-> FALSE, input |-> [step |-> 0, policy |-> None], phase |-> <<>>,
   cause |-> None, active |-> {}, waits |-> {}, failed |-> FALSE]
Idle ==
  [at |-> "idle", of |-> 0, pos |-> 0, policy |-> None, step |-> 0, chain |-> 0, n |-> 0, cancelled |-> FALSE]

Init ==
  /\ used \in [of : DOMAIN Settings, n : {[calls |-> 0, cancels |-> 0, faults |-> 0]}]
  /\ loop = [at |-> "failed", step |-> 1, cancelled |-> FALSE, again |-> 0]
  /\ call = NoCall /\ mail = {} /\ log = <<>>
  /\ hands = [h \in Handlers |-> Idle]

Msg(kind, id, i, value) == [kind |-> kind, call |-> id, pos |-> i, value |-> value]
Yes == {"yes", "retry"}   \* another request; "retry" is the retry handler's own decision

----------------------------------------------------------------------------
(* The order of one call (chain.go, turn_stopping.go) and its exchange     *)
(* (grain.go).  These operators give the call and the mail it sends.       *)

Invoked(c, i) ==
  [call |-> [c EXCEPT !.phase[i] = "executing", !.active = @ \cup {i}],
   mail |-> {Msg("invoke", c.id, i, c.input)}]
Answered(c, value) ==
  [call |-> [c EXCEPT !.open = FALSE, !.active = {}, !.waits = {}],
   mail |-> {Msg("answer", c.id, 0, value)} \cup {Msg("continued", c.id, i, "error") : i \in c.waits}]
Stops(c) == {Msg("stop", c.id, i, None) : i \in c.active}

(* A call that cannot go on unwinds: whoever works is cancelled, and the   *)
(* caller waits until they have replied.                                   *)
Broken(c) ==
  LET b == [c EXCEPT !.failed = TRUE, !.cause = IF @ = None THEN "broken" ELSE @]
  IN IF c.active = {} THEN Answered(b, "error")
     ELSE [call |-> [b EXCEPT !.waits = {}],
           mail |-> Stops(c) \cup {Msg("continued", c.id, i, "error") : i \in c.waits}]

Returned(c, to, value) ==
  IF to = 0 THEN Answered(c, value)
  ELSE IF to \in c.waits
       THEN [call |-> [c EXCEPT !.waits = @ \ {to}], mail |-> {Msg("continued", c.id, to, value)}]
       ELSE Broken(c)

(* Variant: a result that comes after the cancellation is passed on.       *)
ResultAsIs(c, value) == value
Result(c, value) == IF c.cause = None THEN value ELSE "error"

Finishes(c, i) ==
  /\ c.phase[i] \in {"executing", "returned"}
  /\ i > 1 => c.phase[i - 1] = "waiting"
Completed(c, i, value) ==
  IF ~Finishes(c, i) THEN Broken(c)
  ELSE Returned([c EXCEPT !.phase = [j \in Positions |->
                    IF j = i THEN "completed" ELSE IF j = i - 1 THEN "returned" ELSE @[j]]],
                i - 1, Result(c, value))
(* Hooks one after another stop at the first failure.                      *)
Advanced(c, i, value) ==
  IF Result(c, value) = "error" \/ i = End THEN Answered(c, Result(c, value)) ELSE Invoked(c, i + 1)

Sends(taken, s) == call' = s.call /\ mail' = (mail \ taken) \cup s.mail

Resolve ==
  /\ loop.at = "failed" /\ Uses("calls")
  /\ loop' = [loop EXCEPT !.at = "asking", !.cancelled = FALSE]
  /\ \E policy \in Setting.policies :
       Sends({}, Invoked([NoCall EXCEPT !.id = call.id + 1, !.open = TRUE,
                                        !.phase = [i \in Positions |-> "uninvoked"],
                                        !.input = [step |-> loop.step, policy |-> policy]], 1))
  /\ UNCHANGED <<hands, log>>

Mine(m) == call.open /\ m.call = call.id

Replied(m) ==
  LET c == [call EXCEPT !.active = @ \ {m.pos}]
  IN /\ m.kind = "reply" /\ UNCHANGED <<loop, hands, log, used>>
     /\ IF ~Mine(m) THEN mail' = mail \ {m} /\ UNCHANGED call
        ELSE Sends({m},
               IF c.failed THEN IF c.active = {} THEN Answered(c, "error") ELSE [call |-> c, mail |-> {}]
               ELSE IF Setting.serial THEN Advanced(c, m.pos, m.value) ELSE Completed(c, m.pos, m.value))

(* Continue asks for what is downstream, once.                             *)
MayContinue(c, i) == c.cause = None /\ c.phase[i] = "executing"
Continues(m) ==
  LET i == m.pos
      answer(value) == mail' = (mail \ {m}) \cup {Msg("continued", m.call, i, value)}
      continued == [call EXCEPT !.phase[i] = "waiting", !.waits = @ \cup {i}]
  IN /\ m.kind = "continue" /\ UNCHANGED <<loop, hands, log, used>>
     /\ IF ~Mine(m) \/ call.failed \/ ~MayContinue(call, i)
        THEN answer("error") /\ UNCHANGED call
        ELSE IF i = End
             THEN answer("no") /\ call' = [call EXCEPT !.phase[i] = "returned"]
             ELSE Sends({m}, Invoked(continued, i + 1))

(* CancelCall: the first cause stays, and everybody who works is told.     *)
Cancel ==
  /\ loop.at = "asking" /\ ~loop.cancelled /\ Uses("cancels")
  /\ loop' = [loop EXCEPT !.cancelled = TRUE]
  /\ IF call.open
     THEN Sends({}, [call |-> [call EXCEPT !.cause = IF @ = None THEN "cancelled" ELSE @], mail |-> Stops(call)])
     ELSE UNCHANGED <<call, mail>>
  /\ UNCHANGED <<hands, log>>

(* The Grain stops: who waits is answered, the handlers are left alone.    *)
CoordinatorStops ==
  /\ call.open /\ Uses("faults")
  /\ Sends({}, Answered([call EXCEPT !.failed = TRUE, !.cause = "stopped"], "error"))
  /\ UNCHANGED <<loop, hands, log>>

(* The loop asks for the next request, which may fail too, or ends the     *)
(* step with the Turn.                                                     *)
Hears(m) ==
  LET again == m.value \in Yes /\ ~loop.cancelled
  IN /\ m.kind = "answer" /\ m.call = call.id /\ mail' = mail \ {m}
     /\ loop' = [loop EXCEPT !.at = "failed",
                   !.step = IF again THEN @ ELSE @ + 1,
                   !.again = IF again /\ m.value = "retry" THEN @ + 1 ELSE @]
     /\ UNCHANGED <<call, hands, log, used>>

----------------------------------------------------------------------------
(* Handlers.                                                               *)

To(m) == Setting.order[m.pos]
Works(h) == hands[h].at # "idle"
Position(h) == hands[h].pos

(* A handler has one invocation at a time.                                 *)
Begins(m) ==
  LET h == To(m)
      begun == [Idle EXCEPT !.at = "begun", !.of = m.call, !.pos = m.pos, !.step = m.value.step,
                            !.policy = m.value.policy]
  IN /\ m.kind = "invoke"
     /\ IF Works(h)
        THEN mail' = (mail \ {m}) \cup {Msg("reply", m.call, m.pos, "error")} /\ UNCHANGED hands
        ELSE mail' = mail \ {m} /\ hands' = [hands EXCEPT ![h] = begun]
     /\ UNCHANGED <<loop, call, log, used>>

Told(m) ==
  LET h == To(m)
  IN /\ m.kind = "stop" /\ (\A o \in mail : o.kind = "invoke" => o.call # m.call \/ o.pos # m.pos)
     /\ mail' = mail \ {m}
     /\ hands' = IF hands[h].of = m.call THEN [hands EXCEPT ![h].cancelled = TRUE] ELSE hands
     /\ UNCHANGED <<loop, call, log, used>>

Reply(h, value, taken) ==
  /\ hands' = [hands EXCEPT ![h] = Idle]
  /\ mail' = (mail \ taken) \cup {Msg("reply", hands[h].of, Position(h), value)}
Asks(h, at) ==
  /\ hands' = [hands EXCEPT ![h].at = at]
  /\ mail' = mail \cup {Msg("continue", hands[h].of, Position(h), None)}

HandlerStops(h) ==
  /\ Works(h) /\ Uses("faults") /\ Reply(h, "error", {})
  /\ UNCHANGED <<loop, call, log>>

(* Any other handler continues at most once and then decides.              *)
Other(h) ==
  /\ h # "retry"
  /\ \/ hands[h].at \in {"begun", "continued"} /\ \E value \in {"yes", "no", "error"} : Reply(h, value, {})
     \/ hands[h].at = "begun" /\ ~Setting.serial /\ Asks(h, "waits")
  /\ UNCHANGED <<loop, call, log, used>>
OtherContinued(m) ==
  LET h == To(m)
  IN /\ m.kind = "continued" /\ h # "retry" /\ mail' = mail \ {m}
     /\ hands' = IF hands[h].of = m.call /\ hands[h].at = "waits" THEN [hands EXCEPT ![h].at = "continued"] ELSE hands
     /\ UNCHANGED <<loop, call, log, used>>

----------------------------------------------------------------------------
(* Recovery (llm/retry).  Policies: none, plain (normal, but not for this  *)
(* failure), normal, later (normal, but the provider asks for too long a   *)
(* wait) and always.                                                       *)

R == hands["retry"]
Steps(at) == hands' = [hands EXCEPT !["retry"].at = at] /\ UNCHANGED mail
Ends(value) == Reply("retry", IF R.cancelled THEN "error" ELSE value, {})
Same(e) == e.step = R.step /\ e.policy = R.policy
Scheduled == SelectSeq(log, LAMBDA e : e.kind = "retry" /\ Same(e))

RetryBegins ==
  /\ R.at = "begun"
  /\ IF R.policy \in {"normal", "later"} THEN Steps("reading") ELSE Asks("retry", "delegating")
  /\ UNCHANGED <<loop, call, log, used>>

RetryContinued(m) ==
  LET mine == R.of = m.call /\ R.at = "delegating"
  IN /\ m.kind = "continued" /\ To(m) = "retry"
     /\ IF mine /\ (R.cancelled \/ R.policy # "always" \/ m.value \in Yes)
        THEN Reply("retry", IF R.cancelled THEN "error" ELSE m.value, {m})
        ELSE /\ mail' = mail \ {m}
             /\ hands' = IF mine THEN [hands EXCEPT !["retry"].at = "reading"] ELSE hands
     /\ UNCHANGED <<loop, call, log, used>>

RetryReads ==
  LET number == Len(Scheduled) + 1
      chain == IF number = 1 THEN R.of ELSE Scheduled[1].chain
  IN /\ R.at = "reading"
     /\ \/ /\ UNCHANGED used
           /\ IF R.cancelled THEN Ends("error")
              ELSE IF R.policy = "later" \/ (R.policy = "normal" /\ number > Setting.max)
              THEN Asks("retry", "delegating")
              ELSE /\ hands' = [hands EXCEPT !["retry"] = [R EXCEPT !.at = "scheduling", !.n = number, !.chain = chain]]
                   /\ UNCHANGED mail
        \/ Uses("faults") /\ Ends("error")
     /\ UNCHANGED <<loop, call, log>>

(* Build checks the fact against the log it is appended to, and that the   *)
(* step is still the open one.                                             *)
Fact(kind) == [kind |-> kind, step |-> R.step, policy |-> R.policy, chain |-> R.chain, n |-> R.n]
Fits(kind) ==
  /\ R.step = loop.step
  /\ IF kind = "retry" THEN R.n = Len(Scheduled) + 1
     ELSE Fact("retry") \in ToSet(log) /\ Fact("started") \notin ToSet(log)
RetryCommits ==
  LET kind == IF R.at = "scheduling" THEN "retry" ELSE "started"
  IN /\ R.at \in {"scheduling", "starting"}
     /\ \/ /\ Fits(kind) /\ log' = Append(log, Fact(kind)) /\ UNCHANGED used
           /\ IF R.cancelled THEN Ends("error") ELSE IF kind = "retry" THEN Steps("waiting") ELSE Ends("retry")
        \/ ~Fits(kind) /\ Ends("error") /\ UNCHANGED <<log, used>>
        \/ Uses("faults") /\ Ends("error") /\ log' \in {log, IF Fits(kind) THEN Append(log, Fact(kind)) ELSE log}
     /\ UNCHANGED <<loop, call>>

RetryWaits ==
  /\ R.at = "waiting" /\ IF R.cancelled THEN Ends("error") ELSE Steps("starting")
  /\ UNCHANGED <<loop, call, log, used>>

Retries == "retry" \in Handlers /\ (RetryBegins \/ RetryReads \/ RetryCommits \/ RetryWaits)

Next ==
  \/ Resolve \/ Cancel \/ CoordinatorStops \/ Retries
  \/ \E h \in Handlers : HandlerStops(h) \/ Other(h)
  \/ \E m \in mail : \/ Replied(m) \/ Continues(m) \/ Hears(m) \/ Begins(m) \/ Told(m)
                     \/ OtherContinued(m) \/ RetryContinued(m)

Spec == Init /\ [][Next]_hooksVars

----------------------------------------------------------------------------
(* Properties.                                                             *)

Answers == {m \in mail : m.kind = "answer"}

(* The recorded retries of a step count up, of one chain for a policy,     *)
(* each begun at most once and after it was scheduled (history.go:142).    *)
HistoryIsValid ==
  \A j \in DOMAIN log :
    LET before == {log[i] : i \in 1..(j - 1)}
        e == log[j]
    IN IF e.kind = "retry"
       THEN /\ e \notin before
            /\ e.n > 1 => [e EXCEPT !.n = @ - 1] \in before
       ELSE [e EXCEPT !.kind = "retry"] \in before /\ e \notin before

(* Every retry the loop makes is one the Session says has begun, the last  *)
(* thing it says; and no policy is exceeded (types.go:18, :20).            *)
RetriesAreRecorded ==
  /\ loop.again <= Len(SelectSeq(log, LAMBDA e : e.kind = "started"))
  /\ \A m \in Answers : m.value = "retry" =>
       log # <<>> /\ log[Len(log)].kind = "started" /\ log[Len(log)].step = loop.step
  /\ \A e \in ToSet(log) : e.policy # "always" => e.n <= Setting.max

(* When the caller is answered no handler works for it, unless the Grain   *)
(* was stopped; a cancelled call is not answered with another request      *)
(* (grain.go:231, pre_step.go:87).                                         *)
AnswersAreLast ==
  \A m \in Answers :
    /\ call.cause # "stopped" =>
         /\ \A h \in Handlers : hands[h].of # call.id
         /\ \A o \in mail : o.call = call.id => o.kind \notin {"invoke", "reply"}
    /\ call.cause # None => m.value = "error"

(* Nobody waits for nobody: a call is answered, or a handler works on it   *)
(* or its reply is under way; who continued will hear.                     *)
NobodyIsForgotten ==
  /\ loop.at = "asking" => call.open \/ Answers # {}
  /\ call.open => \E i \in call.active :
       \/ hands[Setting.order[i]].of = call.id
       \/ \E m \in mail : m.kind \in {"invoke", "reply"} /\ m.call = call.id /\ m.pos = i
  /\ \A h \in Handlers : hands[h].at \in {"waits", "delegating"} =>
       \/ call.open /\ hands[h].of = call.id /\ hands[h].pos \in call.waits
       \/ \E m \in mail : /\ m.kind \in {"continue", "continued"}
                          /\ m.call = hands[h].of /\ m.pos = hands[h].pos

HooksAreTrue == HistoryIsValid /\ RetriesAreRecorded /\ AnswersAreLast /\ NobodyIsForgotten
=============================================================================
