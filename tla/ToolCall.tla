------------------------------ MODULE ToolCall ------------------------------
(***************************************************************************)
(* One tool call from preparation to release: the calls the Runtime Grain  *)
(* retains (tools/runtime/actor/runtime_calls.go, bodies.go), the staged   *)
(* business Call (tools/execution) and the body the ToolActor runs         *)
(* (tools/tool/actor/grain_execute.go), against the configuration refresh  *)
(* and close the Runtime must keep away from running bodies.               *)
(*                                                                         *)
(* The Agent loop's requests are open: any client message may arrive in    *)
(* any order.  A request's work is a task outside the mailbox (pc below),  *)
(* whose end is a message of its own; bodies is what really executes,      *)
(* whatever the Actors still know about it.                                *)
(***************************************************************************)
EXTENDS Integers, FiniteSets

CONSTANTS
  Calls,      \* model tool-call identities, all of one tool
  NoCall,     \* no call
  MaxChanges, \* configuration refreshes
  MaxFaults   \* requests whose delivery fails, an Actor that stops included

ASSUME BoundsAssumption == {MaxChanges, MaxFaults} \subseteq Nat /\ NoCall \notin Calls

VARIABLES
  rt,     \* the Runtime: request, policyRequest, scheduler, configuration
  call,   \* its calls and their business Call, with the task of each
  tool,   \* the ToolActor: revision, mutation in progress, calls, stopped
  bodies, \* calls whose body is executing
  spent   \* faults and changes so far

vars == <<rt, call, tool, bodies, spent>>

----------------------------------------------------------------------------
(* State.                                                                  *)

(* pc is where the call's task stands; ran, asked and allowed only record  *)
(* what happened.                                                          *)
Fresh ==
  [op |-> "none", pc |-> "idle", registered |-> FALSE, cancelled |-> FALSE,
   business |-> FALSE, failure |-> FALSE, refused |-> FALSE, stage |-> "none",
   phase |-> "unprepared", rev |-> 0, held |-> "none", dispatch |-> "none",
   result |-> "none", invoked |-> FALSE, ran |-> 0, asked |-> 0, allowed |-> FALSE]

Init ==
  /\ rt = [life |-> "open", request |-> "none", policy |-> NoCall, scheduler |-> 0, settled |-> TRUE]
  /\ call = [c \in Calls |-> Fresh]
  /\ tool = [rev |-> 1, mutating |-> FALSE, calls |-> {}, stopped |-> FALSE]
  /\ bodies = {}
  /\ spent = [faults |-> 0, changes |-> 0]

Retained == {c \in Calls : call[c].registered}
Failed(outcome) == outcome \notin {"success", "authored", "none"}

Fault ==
  /\ spent.faults < MaxFaults
  /\ spent' = [spent EXCEPT !.faults = @ + 1]

----------------------------------------------------------------------------
(* Requests to the Runtime (runtime_calls.go).                             *)

Becomes(c, next) == call' = [call EXCEPT ![c] = next]
Goes(c, next, pc) == Becomes(c, [next EXCEPT !.pc = pc])

PrepareCall(c) ==
  /\ rt.life = "open" /\ rt.request = "none" /\ rt.policy = NoCall
  /\ ~call[c].registered /\ call[c].result = "none" /\ rt.settled
  /\ Goes(c, [call[c] EXCEPT !.registered = TRUE, !.op = "prepare"], "describe")
  /\ rt' = [rt EXCEPT !.policy = c]
  /\ UNCHANGED <<tool, bodies, spent>>

Idle(c) == call[c].registered /\ call[c].op = "none" /\ call[c].business

DispatchCall(c) ==
  /\ rt.life # "stopped" /\ Idle(c) /\ ~call[c].failure
  /\ Goes(c, [call[c] EXCEPT !.op = "dispatch"], "begin")
  /\ UNCHANGED <<rt, tool, bodies, spent>>

FinalizeCall(c) ==
  /\ rt.life # "stopped" /\ Idle(c) /\ ~call[c].failure /\ call[c].result = "none"
  /\ rt.policy = NoCall
  /\ Goes(c, [call[c] EXCEPT !.op = "finalize"], "begin")
  /\ rt' = [rt EXCEPT !.policy = c]
  /\ UNCHANGED <<tool, bodies, spent>>

CancelCall(c) ==
  /\ rt.life # "stopped" /\ call[c].registered /\ ~call[c].cancelled
  /\ Becomes(c, [call[c] EXCEPT !.cancelled = TRUE])
  /\ UNCHANGED <<rt, tool, bodies, spent>>

(* Only a call whose result can be read is released, or one that was never *)
(* prepared.                                                               *)
ReleaseCall(c) ==
  /\ rt.life # "stopped" /\ call[c].registered /\ call[c].op = "none"
  /\ call[c].business => ~call[c].failure /\ call[c].result # "none"
  /\ Becomes(c, IF call[c].business
                THEN [Fresh EXCEPT !.phase = call[c].phase, !.result = call[c].result,
                        !.ran = call[c].ran, !.asked = call[c].asked,
                        !.allowed = call[c].allowed, !.refused = call[c].refused]
                ELSE Fresh)
  /\ UNCHANGED <<rt, tool, bodies, spent>>

(* Variant: only the end of a finalization admits it.                      *)
CallCompletedKeepsPolicy(c) ==
  /\ call[c].pc = "done"
  /\ rt' = [rt EXCEPT !.policy = IF @ = c /\ ~call[c].failure THEN NoCall ELSE @]
  /\ Goes(c, [call[c] EXCEPT !.business = @ \/ (call[c].op = "prepare" /\ call[c].stage # "none"),
                             !.op = "none"], "idle")
  /\ UNCHANGED <<tool, bodies, spent>>

(* callCompleted: the end of a task answers the request.                   *)
CallCompleted(c) ==
  /\ call[c].pc = "done"
  /\ rt' = [rt EXCEPT !.policy = IF @ = c THEN NoCall ELSE @,
                      !.scheduler = IF call[c].op = "prepare" /\ call[c].rev # 0
                                    THEN call[c].rev ELSE @]
  /\ Goes(c, [call[c] EXCEPT !.business = @ \/ (call[c].op = "prepare" /\ call[c].stage # "none"),
                             !.op = "none"], "idle")
  /\ UNCHANGED <<tool, bodies, spent>>

----------------------------------------------------------------------------
(* Preparation (bodies.describe, Scheduler.prepare, requestApproval).      *)

(* prepareScheduler: the retained contracts, or a description of the       *)
(* committed revision; it fails on a cancelled call.                       *)
DescribeTools(c) ==
  /\ call[c].pc = "describe"
  /\ \/ /\ call[c].cancelled
        /\ Goes(c, call[c], "done") /\ UNCHANGED spent
     \/ /\ ~call[c].cancelled /\ rt.scheduler # 0
        /\ Goes(c, [call[c] EXCEPT !.rev = rt.scheduler], "policy") /\ UNCHANGED spent
     \/ /\ ~call[c].cancelled /\ rt.scheduler = 0
        /\ \/ /\ ~tool.mutating /\ ~tool.stopped
              /\ Goes(c, [call[c] EXCEPT !.rev = tool.rev], "policy") /\ UNCHANGED spent
           \/ /\ tool.mutating \/ tool.stopped
              /\ Goes(c, call[c], "done") /\ UNCHANGED spent
           \/ Goes(c, call[c], "done") /\ Fault
  /\ UNCHANGED <<rt, tool, bodies>>

FinalPreparation(current, outcome) ==
  [current EXCEPT !.phase = "preparedForFinish", !.stage = "final", !.held = outcome]
PostPreparation(current, outcome) ==
  [current EXCEPT !.phase = "preparedForPost", !.stage = "post", !.held = outcome]

(* policyEngine.evaluate: the pre-execute policy and then the guards.      *)
EvaluateCall(c) ==
  /\ call[c].pc = "policy"
  /\ IF call[c].cancelled THEN Goes(c, FinalPreparation(call[c], "notRun"), "done")
     ELSE \/ Goes(c, FinalPreparation(call[c], "failed"), "done")
          \/ Goes(c, [PostPreparation(call[c], "denied") EXCEPT !.refused = TRUE], "done")
          \/ Goes(c, [call[c] EXCEPT !.phase = "awaitingApproval", !.stage = "approval"], "ask")
          \/ Goes(c, call[c], "admit")
  /\ UNCHANGED <<rt, tool, bodies, spent>>

(* The last look at the call's context before it is ready for dispatch.    *)
AdmitCall(c) ==
  /\ call[c].pc = "admit"
  /\ Goes(c, IF call[c].cancelled THEN PostPreparation(call[c], "notRun")
             ELSE [call[c] EXCEPT !.phase = "preparedForDispatch", !.stage = "dispatch"], "done")
  /\ UNCHANGED <<rt, tool, bodies, spent>>

(* applyApproval is entered awaiting approval and leaves that phase.       *)
Approved(c) ==
  [call[c] EXCEPT !.phase = "unprepared", !.allowed = TRUE]

(* requestApproval: without a way to ask the call is denied.               *)
RequestApproval(c) ==
  /\ call[c].pc = "ask"
  /\ IF call[c].cancelled THEN Goes(c, PostPreparation(call[c], "notRun"), "done")
     ELSE \/ Goes(c, [call[c] EXCEPT !.asked = @ + 1], "lookup")
          \/ Goes(c, [PostPreparation(call[c], "denied") EXCEPT !.refused = TRUE], "done")
  /\ UNCHANGED <<rt, tool, bodies, spent>>

(* Variant: the guards are not consulted after an approval.                *)
ApprovalAnswersUnguarded(c) ==
  /\ call[c].pc = "asking"
  /\ \/ Goes(c, FinalPreparation(call[c], "failed"), "done") /\ UNCHANGED spent
     \/ /\ call[c].cancelled
        /\ Goes(c, PostPreparation(call[c], "notRun"), "done") /\ UNCHANGED spent
     \/ ~call[c].cancelled /\ Goes(c, [Approved(c) EXCEPT !.refused = TRUE], "admit") /\ UNCHANGED spent
     \/ Goes(c, [call[c] EXCEPT !.failure = TRUE], "done") /\ Fault
  /\ UNCHANGED <<rt, tool, bodies>>

(* The approval's outcome, applied after another look at the context: the  *)
(* guards may still deny what the user allowed.                            *)
ApprovalAnswers(c) ==
  /\ call[c].pc = "asking"
  /\ \/ Goes(c, FinalPreparation(call[c], "failed"), "done") /\ UNCHANGED spent
     \/ /\ call[c].cancelled
        /\ Goes(c, PostPreparation(call[c], "notRun"), "done") /\ UNCHANGED spent
     \/ /\ ~call[c].cancelled
        /\ Goes(c, [PostPreparation(call[c], "denied") EXCEPT !.refused = TRUE], "done")
        /\ UNCHANGED spent
     \/ ~call[c].cancelled /\ Goes(c, Approved(c), "admit") /\ UNCHANGED spent
     \/ Goes(c, [call[c] EXCEPT !.failure = TRUE], "done") /\ Fault
  /\ UNCHANGED <<rt, tool, bodies>>

----------------------------------------------------------------------------
(* Dispatch (Call.Dispatch, bodies.Invoke, the ToolActor's Execute).       *)

(* beginDispatch: a call that is not prepared for dispatch is refused.     *)
BeginDispatch(c) ==
  /\ call[c].pc = "begin" /\ call[c].op = "dispatch"
  /\ IF call[c].phase = "preparedForDispatch"
     THEN Goes(c, [call[c] EXCEPT !.phase = "dispatching"], "execute")
     ELSE Goes(c, call[c], "done")
  /\ UNCHANGED <<rt, tool, bodies, spent>>

(* The around-dispatch chain and executeBody: the chain may settle the     *)
(* call itself; the arguments may be rejected before the body.             *)
ExecuteBody(c) ==
  /\ call[c].pc = "execute"
  /\ \/ \E own \in {"authored", "failed"} :
          Goes(c, [call[c] EXCEPT !.held = own], "returned")
     \/ call[c].cancelled /\ Goes(c, [call[c] EXCEPT !.held = "notRun"], "returned")
     \/ ~call[c].cancelled /\ Goes(c, [call[c] EXCEPT !.invoked = TRUE], "lookup")
  /\ UNCHANGED <<rt, tool, bodies, spent>>

(* DeliveryError: dispatch ends, its outcome stays with the call.          *)
Unconfirmed(c) ==
  [call[c] EXCEPT !.failure = TRUE,
                  !.phase = IF @ = "dispatching" THEN "preparedForPost" ELSE @]

(* Invoke resolves the name under the caller's context: a cancellation     *)
(* while it waits is reported as an unconfirmed body.                      *)
FindTool(c) ==
  /\ call[c].pc = "lookup"
  /\ \/ /\ Goes(c, call[c], IF call[c].op = "prepare" THEN "asking" ELSE "send")
        /\ UNCHANGED spent
     \/ call[c].cancelled /\ Goes(c, Unconfirmed(c), "done") /\ UNCHANGED spent
     \/ Goes(c, Unconfirmed(c), "done") /\ Fault
  /\ UNCHANGED <<rt, tool, bodies>>

(* Grain.execute and Tool.Execute: an occupied or replaced Tool refuses,   *)
(* and a call cancelled before it starts does not start.                   *)
Execute(c) ==
  /\ call[c].pc = "send"
  /\ LET runs == ~tool.mutating /\ ~tool.stopped /\ c \notin tool.calls
                   /\ ~call[c].cancelled /\ call[c].rev = tool.rev
     IN IF runs
        THEN /\ Goes(c, [call[c] EXCEPT !.ran = @ + 1], "waiting")
             /\ tool' = [tool EXCEPT !.calls = @ \cup {c}]
             /\ bodies' = bodies \cup {c}
        ELSE /\ Goes(c, [call[c] EXCEPT !.held = "failed"], "returned")
             /\ UNCHANGED <<tool, bodies>>
  /\ UNCHANGED <<rt, spent>>

(* A body returns; its ToolActor answers unless it stopped.                *)
BodyReturns(c) ==
  /\ c \in bodies
  /\ bodies' = bodies \ {c}
  /\ tool' = [tool EXCEPT !.calls = @ \ {c}]
  /\ IF c \in tool.calls /\ call[c].pc = "waiting"
     THEN \E outcome \in {"success", "failed"} :
            Goes(c, [call[c] EXCEPT !.held = outcome], "returned")
     ELSE UNCHANGED call
  /\ UNCHANGED <<rt, spent>>

(* Grain.OnDeactivate: every executing call is answered with an error; its *)
(* body was cancelled but may run on.                                      *)
ToolStops ==
  /\ ~tool.stopped /\ Fault
  /\ tool' = [tool EXCEPT !.stopped = TRUE, !.calls = {}]
  /\ call' = [c \in Calls |->
       IF c \in tool.calls /\ call[c].pc = "waiting"
       THEN [Unconfirmed(c) EXCEPT !.pc = "done"] ELSE call[c]]
  /\ UNCHANGED <<rt, bodies>>

(* Variant: a cancelled call always reports that it did not run.           *)
AbortedAsNotRun(current) == "notRun"

(* abortedResult tells a call that ran from one that did not.              *)
Aborted(current) == IF current.invoked THEN "aborted" ELSE "notRun"

(* invoke: the chain and the normalization may fail what the body did; a   *)
(* success the caller cancelled is reported as aborted.                    *)
DispatchReturns(c) ==
  /\ call[c].pc = "returned"
  /\ \E held \in {call[c].held, "failed"} :
       LET outcome == IF call[c].cancelled /\ ~Failed(held) THEN Aborted(call[c]) ELSE held
       IN Goes(c, [call[c] EXCEPT !.dispatch = outcome, !.phase = "preparedForPost"], "done")
  /\ UNCHANGED <<rt, tool, bodies, spent>>

----------------------------------------------------------------------------
(* Finalization (Call.Finalize).                                           *)

(* The outcome comes from preparation or from the body that returned.      *)
BeginFinalize(c) ==
  /\ call[c].pc = "begin" /\ call[c].op = "finalize"
  /\ \/ /\ call[c].stage = "dispatch" /\ call[c].dispatch = "none"
        /\ Goes(c, call[c], "done")
     \/ /\ call[c].phase = "preparedForPost"
        /\ call[c].stage = "post" \/ (call[c].stage = "dispatch" /\ call[c].dispatch # "none")
        /\ Goes(c, [call[c] EXCEPT !.phase = "finalizing",
                      !.held = IF call[c].stage = "post" THEN @ ELSE call[c].dispatch], "review")
     \/ /\ call[c].stage = "final" /\ call[c].phase = "preparedForFinish"
        /\ Goes(c, [call[c] EXCEPT !.phase = "finalizing"], "finish")
  /\ UNCHANGED <<rt, tool, bodies, spent>>

(* The post-execute policy accepts, replaces or blocks, or it fails; it    *)
(* cannot turn a failure into a success.                                   *)
ReviewResult(c) ==
  /\ call[c].pc = "review"
  /\ \E reviewed \in {call[c].held, "failed"} :
       Goes(c, [call[c] EXCEPT !.held = reviewed],
            IF reviewed = "failed" /\ call[c].held # "failed" THEN "finish" ELSE "settle")
  /\ UNCHANGED <<rt, tool, bodies, spent>>

(* finalize looks at the context again, after the review.                  *)
SettleReview(c) ==
  /\ call[c].pc = "settle"
  /\ Goes(c, [call[c] EXCEPT !.held = IF call[c].cancelled /\ ~Failed(@)
                                      THEN Aborted(call[c]) ELSE @], "finish")
  /\ UNCHANGED <<rt, tool, bodies, spent>>

(* finishResult: the content finalizer may fail; the result is retained.   *)
FinishResult(c) ==
  /\ call[c].pc = "finish"
  /\ \E outcome \in {call[c].held, "failed"} :
       Goes(c, [call[c] EXCEPT !.result = outcome, !.phase = "completed"], "done")
  /\ UNCHANGED <<rt, tool, bodies, spent>>

----------------------------------------------------------------------------
(* The Runtime's other operations (runtime_configuration.go, runtime.go):  *)
(* the replacement itself is the module ToolReplacement.                   *)

(* Refused while the Runtime retains a call, whatever its stage.           *)
RefreshConfiguration ==
  /\ rt.life = "open" /\ rt.request = "none" /\ Retained = {}
  /\ spent.changes < MaxChanges
  /\ spent' = [spent EXCEPT !.changes = @ + 1]
  /\ rt' = [rt EXCEPT !.request = "refresh", !.scheduler = 0]
  /\ UNCHANGED <<call, tool, bodies>>

CloseRuntime ==
  /\ rt.life = "open" /\ rt.request = "none" /\ Retained = {}
  /\ rt' = [rt EXCEPT !.request = "close"]
  /\ UNCHANGED <<call, tool, bodies, spent>>

(* Grain.admit: the ToolActor mutates only when no call executes.          *)
BeginMutation ==
  /\ (rt.request = "refresh" /\ rt.settled) \/ rt.request = "close"
  /\ ~tool.mutating /\ ~tool.stopped /\ tool.calls = {}
  /\ tool' = [tool EXCEPT !.mutating = TRUE]
  /\ UNCHANGED <<rt, call, bodies, spent>>

(* The update switches, rolls back, or is interrupted with work left.      *)
EndMutation ==
  /\ tool.mutating
  /\ \E rev \in {tool.rev, tool.rev + 1} :
       /\ rt.request = "close" => rev = tool.rev
       /\ tool' = [tool EXCEPT !.mutating = FALSE, !.rev = rev]
  /\ \E settled \in BOOLEAN :
       rt' = [rt EXCEPT !.request = "none", !.settled = settled /\ rt.request # "close",
                        !.life = IF rt.request = "close" /\ settled THEN "closed" ELSE @]
  /\ UNCHANGED <<call, bodies, spent>>

(* Nothing had to change, or no ToolActor could be reached.                *)
OperationEnds ==
  /\ rt.request # "none" /\ ~tool.mutating
  /\ rt' = [rt EXCEPT !.request = "none",
                      !.settled = @ /\ ~tool.stopped /\ rt.request # "close"]
  /\ UNCHANGED <<call, tool, bodies, spent>>

(* Runtime.OnDeactivate cancels every call and answers what is pending.    *)
RuntimeStops ==
  /\ rt.life # "stopped" /\ Fault
  /\ rt' = [rt EXCEPT !.life = "stopped", !.request = "none", !.policy = NoCall]
  /\ call' = [c \in Calls |->
       IF call[c].registered THEN [call[c] EXCEPT !.cancelled = TRUE] ELSE call[c]]
  /\ UNCHANGED <<tool, bodies>>

----------------------------------------------------------------------------
TaskProceeds(c) ==
  \/ DescribeTools(c) \/ EvaluateCall(c) \/ AdmitCall(c) \/ RequestApproval(c)
  \/ ApprovalAnswers(c) \/ BeginDispatch(c) \/ ExecuteBody(c) \/ FindTool(c) \/ Execute(c)
  \/ DispatchReturns(c) \/ BeginFinalize(c) \/ ReviewResult(c) \/ SettleReview(c)
  \/ FinishResult(c) \/ CallCompleted(c)

Others ==
  \/ \E c \in Calls : \/ PrepareCall(c) \/ CancelCall(c) \/ ReleaseCall(c)
                      \/ TaskProceeds(c) \/ BodyReturns(c)
  \/ RefreshConfiguration \/ CloseRuntime \/ BeginMutation \/ EndMutation \/ OperationEnds
  \/ ToolStops \/ RuntimeStops

Next == Others \/ \E c \in Calls : DispatchCall(c) \/ FinalizeCall(c)
Spec == Init /\ [][Next]_vars

(* The loop dispatches what was prepared for that, finalizes what has an   *)
(* outcome and releases what is final (agentloop/agent_tools.go); tasks run, bodies   *)
(* return and approvals are answered.                                      *)
LoopDispatches(c) == call[c].phase = "preparedForDispatch" /\ DispatchCall(c)
LoopFinalizes(c) ==
  (call[c].stage = "dispatch" => call[c].dispatch # "none") /\ FinalizeCall(c)
LoopNext == Others \/ \E c \in Calls : LoopDispatches(c) \/ LoopFinalizes(c)
FairSpec ==
  /\ Init /\ [][LoopNext]_vars
  /\ \A c \in Calls : /\ WF_vars(TaskProceeds(c)) /\ WF_vars(BodyReturns(c))
                      /\ WF_vars(LoopDispatches(c)) /\ SF_vars(LoopFinalizes(c))
                      /\ WF_vars(ReleaseCall(c))

----------------------------------------------------------------------------
(* Properties.                                                             *)

(* What a call's stages and its task allow together.                       *)
TypeOK ==
  /\ rt.life \in {"open", "closed", "stopped"} /\ rt.policy \in Calls \cup {NoCall}
  /\ rt.request \in {"none", "refresh", "close"} /\ tool.calls \subseteq bodies
  /\ \A c \in Calls :
       /\ call[c].op = "none" <=> call[c].pc = "idle"
       /\ call[c].pc = "waiting" => c \in tool.calls
       /\ call[c].pc \in {"execute", "send", "waiting", "returned"} =>
            call[c].phase = "dispatching" /\ call[c].stage = "dispatch"
       /\ call[c].result # "none" <=> call[c].phase = "completed"
       /\ call[c].dispatch # "none" => ~call[c].failure

(* No resource of the tools is replaced or released under a body: while    *)
(* the Runtime is configuring or closed no body executes, one whose Actor  *)
(* was lost included, and no task stands between its checks and its body   *)
(* (RefreshConfiguration, CloseRuntime; "a cancellation request alone does *)
(* not remove the execution obligation", runtime.go:48).                   *)
IdleWhileConfiguring ==
  rt.request # "none" \/ rt.life = "closed" =>
    bodies = {} /\ \A c \in Calls : call[c].pc = "idle"

(* What the policies reviewed is what would run: a call ready for dispatch *)
(* was prepared against the revision its Tool has committed.               *)
RunsWhatWasReviewed ==
  \A c \in Calls : call[c].phase = "preparedForDispatch" /\ rt.life # "stopped" =>
    call[c].rev = tool.rev

(* A body runs only for a call no policy or guard denied, and after an     *)
(* allowing answer when one was asked for.                                 *)
NothingRunsUnapproved ==
  \A c \in Calls : call[c].ran > 0 =>
    ~call[c].refused /\ (call[c].asked > 0 => call[c].allowed)

(* However often its requests are repeated, a call runs once and asks its  *)
(* user once.                                                              *)
AtMostOnce == \A c \in Calls : call[c].ran <= 1 /\ call[c].asked <= 1

(* A result tells the truth about the body: one that says the call was     *)
(* aborted before dispatch never ran, and no success is made up for one    *)
(* that did not run (abortedResult; "actual outputs", call.go:9).          *)
ResultIsTrue ==
  \A c \in Calls : /\ call[c].result = "notRun" => call[c].ran = 0
                   /\ call[c].result = "success" => call[c].ran = 1

(* A result follows the body's exit, and a call whose exit is unconfirmed  *)
(* has none and stays with its Runtime.                                    *)
ConfirmedBeforeResult ==
  \A c \in Calls : /\ call[c].result # "none" => c \notin bodies
                   /\ call[c].failure => call[c].registered /\ call[c].result = "none"

(* Policies of overlapping calls never interleave: one call is prepared or *)
(* finalized at a time (policyRequest).                                    *)
PoliciesSerialized ==
  \A c, d \in Calls :
    /\ call[c].op \in {"prepare", "finalize"} /\ call[d].op \in {"prepare", "finalize"}
    /\ rt.life # "stopped"
    => c = d

(* A call the loop drives is released, unless its body's exit stays        *)
(* unconfirmed or its Runtime stops.                                       *)
PreparedIsReleased ==
  \A c \in Calls :
    call[c].registered ~> \/ ~call[c].registered \/ call[c].failure \/ rt.life = "stopped"

(* A call runs at most once, as it was reviewed, and only if allowed.      *)
RunsOnceApproved ==
  /\ TypeOK /\ NothingRunsUnapproved /\ AtMostOnce
  /\ RunsWhatWasReviewed /\ PoliciesSerialized /\ IdleWhileConfiguring

(* Results tell the truth, and none is given for a body that may still run. *)
ResultsAreTrue == ResultIsTrue /\ ConfirmedBeforeResult
=============================================================================
