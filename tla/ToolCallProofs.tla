---------------------------- MODULE ToolCallProofs ----------------------------
(***************************************************************************)
(* Theorems about ToolCall: for every set of calls, however often its      *)
(* requests are repeated, cancelled or lost, a call runs at most once, as  *)
(* it was reviewed and only if allowed, and its result tells the truth     *)
(* about its body.                                                         *)
(*                                                                         *)
(* What a call record says by itself (CallOK) is separate from what it     *)
(* says of the ToolActor and the Runtime (CallFits): most steps change one *)
(* record only, and CallOK speaks of no variable.                          *)
(***************************************************************************)
EXTENDS ToolCall, TLAPS

Ops == {"none", "prepare", "dispatch", "finalize"}
Preparing == {"describe", "policy", "ask", "asking", "admit"}
Executing == {"execute", "send", "waiting", "returned"}
Finalizing == {"review", "settle", "finish"}
PCs == Preparing \cup Executing \cup Finalizing \cup {"idle", "begin", "lookup", "done"}
Phases == {"unprepared", "awaitingApproval", "preparedForDispatch", "preparedForPost",
           "preparedForFinish", "dispatching", "finalizing", "completed"}
CallStages == {"none", "approval", "dispatch", "post", "final"}
Outcomes == {"none", "notRun", "denied", "failed", "authored", "success", "aborted"}

CallType ==
    [op : Ops, pc : PCs, registered : BOOLEAN, cancelled : BOOLEAN, business : BOOLEAN,
     failure : BOOLEAN, refused : BOOLEAN, stage : CallStages, phase : Phases, rev : Nat,
     held : Outcomes, dispatch : Outcomes, result : Outcomes, invoked : BOOLEAN,
     ran : Nat, asked : Nat, allowed : BOOLEAN]

\* The task of a call stands where its request put it.
TaskOK(r) ==
    /\ r.op = "none" <=> r.pc = "idle"
    /\ r.pc \in Preparing => r.op = "prepare"
    /\ r.pc \in Executing => r.op = "dispatch"
    /\ r.pc \in Finalizing => r.op = "finalize"
    /\ r.pc = "begin" => r.op \in {"dispatch", "finalize"}
    /\ r.pc = "lookup" => r.op \in {"prepare", "dispatch"}
    /\ r.op # "none" => r.registered
    /\ r.failure => r.registered /\ r.result = "none" /\ r.pc \in {"idle", "done"}
    /\ r.result # "none" => r.pc \in {"idle", "begin", "done"}
    /\ r.op = "finalize" /\ r.pc # "done" => r.result = "none"

\* What was decided before the body could run.
DecisionOK(r) ==
    /\ r.asked <= 1
    /\ r.op = "prepare" /\ r.stage = "dispatch" => r.phase = "preparedForDispatch"
    /\ r.op = "prepare" /\ r.pc # "done" => r.stage \in {"none", "approval"} /\ ~r.refused
    /\ r.pc \in {"describe", "policy"} => r.stage = "none"
    /\ r.pc = "ask" => r.asked = 0 /\ r.stage = "approval"
    /\ r.pc = "asking" \/ (r.pc = "lookup" /\ r.op = "prepare") => r.stage = "approval"
    /\ r.pc = "admit" /\ r.asked > 0 => r.allowed
    /\ r.stage = "none" /\ r.registered =>
         r.asked = 0 /\ ~r.refused /\ r.phase = "unprepared" /\ r.result = "none"
    /\ r.stage = "dispatch" => ~r.refused /\ (r.asked > 0 => r.allowed)
    /\ r.pc \in {"policy", "ask", "asking", "admit"} \/ (r.pc = "lookup" /\ r.op = "prepare") =>
         r.rev # 0
    /\ r.phase = "preparedForDispatch" => r.rev # 0 /\ r.stage = "dispatch" /\ r.registered
    /\ ~r.business /\ r.op = "none" => r.stage = "none"
    /\ ~r.registered => r.stage = "none" /\ r.op = "none" /\ ~r.failure
    /\ ~r.registered /\ r.result = "none" =>
         r.asked = 0 /\ ~r.refused /\ r.phase = "unprepared" /\ r.rev = 0
    /\ r.business => r.registered /\ r.op # "prepare"
    /\ r.op \in {"dispatch", "finalize"} => r.business

\* Whether the body ran.
RunOK(r) ==
    /\ r.ran <= 1
    /\ r.registered /\ r.stage # "dispatch" => r.ran = 0 /\ ~r.invoked /\ r.dispatch = "none"
    /\ ~r.registered /\ r.result = "none" => r.ran = 0
    /\ ~r.registered => ~r.invoked /\ r.dispatch = "none" /\ r.held = "none"
    /\ r.registered /\ r.ran > 0 => r.invoked
    /\ r.ran > 0 => ~r.refused /\ (r.asked > 0 => r.allowed)
    /\ r.phase = "preparedForDispatch" => r.ran = 0 /\ r.held = "none"
    /\ r.pc \in Executing \/ (r.pc = "lookup" /\ r.op = "dispatch") =>
         r.phase = "dispatching" /\ r.stage = "dispatch"
    /\ r.phase = "dispatching" =>
         r.pc \in Executing \/ (r.pc = "lookup" /\ r.op = "dispatch")
    /\ r.pc \in {"execute", "send"} \/ (r.pc = "lookup" /\ r.op = "dispatch") =>
         r.ran = 0 /\ r.held = "none"
    /\ r.pc = "send" \/ (r.pc = "lookup" /\ r.op = "dispatch") => r.invoked
    /\ r.pc = "waiting" => r.ran = 1
    /\ r.op = "prepare" /\ r.pc # "done" => r.held = "none"
    /\ r.phase = "finalizing" => r.pc \in Finalizing

\* What the outcomes say of it.
OutcomeOK(r) ==
    /\ r.result # "none" <=> r.phase = "completed"
    /\ r.dispatch # "none" => ~r.failure /\ r.phase \notin {"preparedForDispatch", "dispatching"}
    /\ r.held = "success" => r.ran = 1
    /\ r.held = "notRun" => r.ran = 0
    /\ r.dispatch = "success" => r.ran = 1
    /\ r.dispatch = "notRun" => r.ran = 0
    /\ r.result = "success" => r.ran = 1
    /\ r.result = "notRun" => r.ran = 0
    /\ r.pc \in Finalizing => r.phase = "finalizing" /\ r.held # "none"
    /\ r.stage \in {"post", "final"} => r.held # "none"
    /\ r.failure => r.stage # "none"

CallOK(r) == TaskOK(r) /\ DecisionOK(r) /\ RunOK(r) /\ OutcomeOK(r)

\* What a call's record says of its ToolActor and its Runtime.
CallFits(c) ==
    /\ c \in tool.calls <=> call[c].pc = "waiting"
    /\ c \in bodies =>
         call[c].registered /\ call[c].result = "none"
         /\ (call[c].pc = "waiting" \/ call[c].failure)
    /\ c \in tool.calls => c \in bodies
    /\ rt.life # "stopped" =>
         /\ call[c].rev # 0 => call[c].rev = tool.rev \/ ~call[c].registered
         /\ call[c].op \in {"prepare", "finalize"} => rt.policy = c
         /\ rt.request # "none" \/ rt.life = "closed" => ~call[c].registered

\* The Runtime configures only itself, and for one revision.
RuntimeOK ==
    /\ rt \in [life : {"open", "closed", "stopped"}, request : {"none", "refresh", "close"},
               policy : Calls \cup {NoCall}, scheduler : Nat, settled : BOOLEAN]
    /\ tool \in [rev : Nat \ {0}, mutating : BOOLEAN, calls : SUBSET Calls, stopped : BOOLEAN]
    /\ bodies \subseteq Calls
    /\ rt.life = "stopped" => rt.request = "none"
    /\ rt.life # "stopped" =>
         /\ tool.mutating => rt.request # "none"
         /\ rt.request = "refresh" => rt.scheduler = 0
         /\ rt.scheduler # 0 => rt.scheduler = tool.rev

CallInv ==
    /\ RuntimeOK
    /\ call \in [Calls -> CallType]
    /\ \A c \in Calls : CallOK(call[c]) /\ CallFits(c)


----------------------------------------------------------------------------
(* What one step of a task does to the record of its call.                 *)

\* The values the records take.
LEMMA Values ==
  /\ Ops = {"none", "prepare", "dispatch", "finalize"}
  /\ {"idle", "begin", "lookup", "done", "describe", "policy", "ask", "asking", "admit",
      "execute", "send", "waiting", "returned", "review", "settle", "finish"} \subseteq PCs
  /\ {"unprepared", "awaitingApproval", "preparedForDispatch", "preparedForPost",
      "preparedForFinish", "dispatching", "finalizing", "completed"} \subseteq Phases
  /\ {"none", "approval", "dispatch", "post", "final"} \subseteq CallStages
  /\ {"none", "notRun", "denied", "failed", "authored", "success", "aborted"} \subseteq Outcomes
BY DEF Ops, Preparing, Executing, Finalizing, PCs, Phases, CallStages, Outcomes

\* A step of a task leaves its call registered, with its request and revision.
Follows(r, n) ==
    /\ n \in CallType /\ CallOK(n)
    /\ n.op = r.op /\ n.registered = r.registered /\ n.rev = r.rev /\ n.pc # "waiting"

\* Preparation settles a call for its review or for its end (EvaluateCall,
\* RequestApproval, ApprovalAnswers, AdmitCall).
LEMMA SettledRecord ==
  ASSUME NEW r \in CallType, CallOK(r), r.pc \in {"policy", "ask", "asking", "admit"},
         NEW o \in {"notRun", "denied", "failed"}, NEW f \in BOOLEAN,
         NEW n,
         \/ n = [FinalPreparation(r, o) EXCEPT !.pc = "done"]
         \/ n = [PostPreparation(r, o) EXCEPT !.pc = "done"]
         \/ n = [[PostPreparation(r, o) EXCEPT !.refused = TRUE] EXCEPT !.pc = "done"]
  PROVE  Follows(r, n)
<1> USE DEF CallType, Preparing, Executing, Finalizing, FinalPreparation, PostPreparation
<1>1. CASE n = [FinalPreparation(r, o) EXCEPT !.pc = "done"]
  <2>1. n \in CallType  BY <1>1, Values, ZenonT(90)
  <2>2. TaskOK(n)  BY <1>1 DEF CallOK, TaskOK, DecisionOK, OutcomeOK
  <2>3. DecisionOK(n)  BY <1>1 DEF CallOK, TaskOK, DecisionOK, RunOK, OutcomeOK
  <2>4. RunOK(n)  BY <1>1 DEF CallOK, TaskOK, DecisionOK, RunOK, OutcomeOK
  <2>5. OutcomeOK(n)  BY <1>1 DEF CallOK, TaskOK, DecisionOK, RunOK, OutcomeOK
  <2>6. n.op = r.op /\ n.registered = r.registered /\ n.pc # "waiting" /\ n.rev = r.rev
    BY <1>1
  <2> QED  BY <2>1, <2>2, <2>3, <2>4, <2>5, <2>6 DEF CallOK, Follows
<1>2. CASE n = [PostPreparation(r, o) EXCEPT !.pc = "done"]
  <2>1. n \in CallType  BY <1>2, Values
  <2>2. TaskOK(n)  BY <1>2 DEF CallOK, TaskOK, DecisionOK, OutcomeOK
  <2>3. DecisionOK(n)  BY <1>2 DEF CallOK, TaskOK, DecisionOK, RunOK, OutcomeOK
  <2>4. RunOK(n)  BY <1>2 DEF CallOK, TaskOK, DecisionOK, RunOK, OutcomeOK
  <2>5. OutcomeOK(n)  BY <1>2 DEF CallOK, TaskOK, DecisionOK, RunOK, OutcomeOK
  <2>6. n.op = r.op /\ n.registered = r.registered /\ n.pc # "waiting" /\ n.rev = r.rev
    BY <1>2
  <2> QED  BY <2>1, <2>2, <2>3, <2>4, <2>5, <2>6 DEF CallOK, Follows
<1>3. CASE n = [[PostPreparation(r, o) EXCEPT !.refused = TRUE] EXCEPT !.pc = "done"]
  <2>1. n \in CallType  BY <1>3, Values
  <2>2. TaskOK(n)  BY <1>3 DEF CallOK, TaskOK, DecisionOK, OutcomeOK
  <2>3. DecisionOK(n)  BY <1>3 DEF CallOK, TaskOK, DecisionOK, RunOK, OutcomeOK
  <2>4. RunOK(n)  BY <1>3 DEF CallOK, TaskOK, DecisionOK, RunOK, OutcomeOK
  <2>5. OutcomeOK(n)  BY <1>3 DEF CallOK, TaskOK, DecisionOK, RunOK, OutcomeOK
  <2>6. n.op = r.op /\ n.registered = r.registered /\ n.pc # "waiting" /\ n.rev = r.rev
    BY <1>3
  <2> QED  BY <2>1, <2>2, <2>3, <2>4, <2>5, <2>6 DEF CallOK, Follows
<1> QED  BY <1>1, <1>2, <1>3

\* EvaluateCall asks the user, or goes on to admit the call.
LEMMA EvaluatedRecord ==
  ASSUME NEW r \in CallType, CallOK(r), r.pc = "policy",
         NEW n,
         \/ n = [[r EXCEPT !.phase = "awaitingApproval", !.stage = "approval"] EXCEPT !.pc = "ask"]
         \/ n = [r EXCEPT !.pc = "admit"]
  PROVE  Follows(r, n)
<1> USE DEF CallType, Preparing, Executing, Finalizing
<1>1. CASE n = [[r EXCEPT !.phase = "awaitingApproval", !.stage = "approval"] EXCEPT !.pc = "ask"]
  <2>1. n \in CallType  BY <1>1, Values
  <2>2. TaskOK(n)  BY <1>1 DEF CallOK, TaskOK, DecisionOK, OutcomeOK
  <2>3. DecisionOK(n)  BY <1>1 DEF CallOK, TaskOK, DecisionOK, RunOK, OutcomeOK
  <2>4. RunOK(n)  BY <1>1 DEF CallOK, TaskOK, DecisionOK, RunOK, OutcomeOK
  <2>5. OutcomeOK(n)  BY <1>1 DEF CallOK, TaskOK, DecisionOK, RunOK, OutcomeOK
  <2>6. n.op = r.op /\ n.registered = r.registered /\ n.pc # "waiting" /\ n.rev = r.rev
    BY <1>1
  <2> QED  BY <2>1, <2>2, <2>3, <2>4, <2>5, <2>6 DEF CallOK, Follows
<1>2. CASE n = [r EXCEPT !.pc = "admit"]
  <2>1. n \in CallType  BY <1>2, Values
  <2>2. TaskOK(n)  BY <1>2 DEF CallOK, TaskOK, DecisionOK, OutcomeOK
  <2>3. DecisionOK(n)  BY <1>2 DEF CallOK, TaskOK, DecisionOK, RunOK, OutcomeOK
  <2>4. RunOK(n)  BY <1>2 DEF CallOK, TaskOK, DecisionOK, RunOK, OutcomeOK
  <2>5. OutcomeOK(n)  BY <1>2 DEF CallOK, TaskOK, DecisionOK, RunOK, OutcomeOK
  <2>6. n.op = r.op /\ n.registered = r.registered /\ n.pc # "waiting" /\ n.rev = r.rev
    BY <1>2
  <2> QED  BY <2>1, <2>2, <2>3, <2>4, <2>5, <2>6 DEF CallOK, Follows
<1> QED  BY <1>1, <1>2

\* AdmitCall readies a call for dispatch.
LEMMA AdmittedRecord ==
  ASSUME NEW r \in CallType, CallOK(r), r.pc = "admit",
         NEW n, n = [[r EXCEPT !.phase = "preparedForDispatch", !.stage = "dispatch"] EXCEPT !.pc = "done"]
  PROVE  Follows(r, n)
<1> USE DEF CallType, Preparing, Executing, Finalizing
<1>1. CASE n = [[r EXCEPT !.phase = "preparedForDispatch", !.stage = "dispatch"] EXCEPT !.pc = "done"]
  <2>1. n \in CallType  BY <1>1, Values, ZenonT(60)
  <2>2. TaskOK(n)  BY <1>1 DEF CallOK, TaskOK, DecisionOK, OutcomeOK
  <2>3. DecisionOK(n)  BY <1>1 DEF CallOK, TaskOK, DecisionOK, RunOK, OutcomeOK
  <2>4. RunOK(n)  BY <1>1 DEF CallOK, TaskOK, DecisionOK, RunOK, OutcomeOK
  <2>5. OutcomeOK(n)  BY <1>1 DEF CallOK, TaskOK, DecisionOK, RunOK, OutcomeOK
  <2>6. n.op = r.op /\ n.registered = r.registered /\ n.pc # "waiting" /\ n.rev = r.rev
    BY <1>1
  <2> QED  BY <2>1, <2>2, <2>3, <2>4, <2>5, <2>6 DEF CallOK, Follows
<1> QED  BY <1>1

\* RequestApproval asks once.
LEMMA AskedRecord ==
  ASSUME NEW r \in CallType, CallOK(r), r.pc = "ask",
         NEW n, n = [[r EXCEPT !.asked = @ + 1] EXCEPT !.pc = "lookup"]
  PROVE  Follows(r, n)
<1> USE DEF CallType, Preparing, Executing, Finalizing
<1>0. r.asked + 1 \in Nat  OBVIOUS
<1>1. CASE n = [[r EXCEPT !.asked = @ + 1] EXCEPT !.pc = "lookup"]
  <2>1. n \in CallType  BY <1>1, Values, <1>0
  <2>2. TaskOK(n)  BY <1>1, <1>0 DEF CallOK, TaskOK, DecisionOK, OutcomeOK
  <2>3. DecisionOK(n)  BY <1>1, <1>0 DEF CallOK, TaskOK, DecisionOK, RunOK, OutcomeOK
  <2>4. RunOK(n)  BY <1>1, <1>0 DEF CallOK, TaskOK, DecisionOK, RunOK, OutcomeOK
  <2>5. OutcomeOK(n)  BY <1>1, <1>0 DEF CallOK, TaskOK, DecisionOK, RunOK, OutcomeOK
  <2>6. n.op = r.op /\ n.registered = r.registered /\ n.pc # "waiting" /\ n.rev = r.rev
    BY <1>1, <1>0
  <2> QED  BY <2>1, <2>2, <2>3, <2>4, <2>5, <2>6 DEF CallOK, Follows
<1> QED  BY <1>1

\* ApprovalAnswers allows the call, or its request is lost.
LEMMA AnsweredRecord ==
  ASSUME NEW r \in CallType, CallOK(r), r.pc = "asking",
         NEW n,
         \/ n = [[r EXCEPT !.phase = "unprepared", !.allowed = TRUE] EXCEPT !.pc = "admit"]
         \/ n = [[r EXCEPT !.failure = TRUE] EXCEPT !.pc = "done"]
  PROVE  Follows(r, n)
<1> USE DEF CallType, Preparing, Executing, Finalizing
<1>1. CASE n = [[r EXCEPT !.phase = "unprepared", !.allowed = TRUE] EXCEPT !.pc = "admit"]
  <2>1. n \in CallType  BY <1>1, Values
  <2>2. TaskOK(n)  BY <1>1 DEF CallOK, TaskOK, DecisionOK, OutcomeOK
  <2>3. DecisionOK(n)  BY <1>1 DEF CallOK, TaskOK, DecisionOK, RunOK, OutcomeOK
  <2>4. RunOK(n)  BY <1>1 DEF CallOK, TaskOK, DecisionOK, RunOK, OutcomeOK
  <2>5. OutcomeOK(n)  BY <1>1 DEF CallOK, TaskOK, DecisionOK, RunOK, OutcomeOK
  <2>6. n.op = r.op /\ n.registered = r.registered /\ n.pc # "waiting" /\ n.rev = r.rev
    BY <1>1
  <2> QED  BY <2>1, <2>2, <2>3, <2>4, <2>5, <2>6 DEF CallOK, Follows
<1>2. CASE n = [[r EXCEPT !.failure = TRUE] EXCEPT !.pc = "done"]
  <2>1. n \in CallType  BY <1>2, Values
  <2>2. TaskOK(n)  BY <1>2 DEF CallOK, TaskOK, DecisionOK, OutcomeOK
  <2>3. DecisionOK(n)  BY <1>2 DEF CallOK, TaskOK, DecisionOK, RunOK, OutcomeOK
  <2>4. RunOK(n)  BY <1>2 DEF CallOK, TaskOK, DecisionOK, RunOK, OutcomeOK
  <2>5. OutcomeOK(n)  BY <1>2 DEF CallOK, TaskOK, DecisionOK, RunOK, OutcomeOK
  <2>6. n.op = r.op /\ n.registered = r.registered /\ n.pc # "waiting" /\ n.rev = r.rev
    BY <1>2
  <2> QED  BY <2>1, <2>2, <2>3, <2>4, <2>5, <2>6 DEF CallOK, Follows
<1> QED  BY <1>1, <1>2

\* BeginDispatch and BeginFinalize refuse a call in another phase, or begin
\* on the outcome its stage has.
LEMMA BegunRecord ==
  ASSUME NEW r \in CallType, CallOK(r), r.pc = "begin",
         NEW n, n = [r EXCEPT !.pc = "done"]
  PROVE  Follows(r, n)
<1> USE DEF CallType, Preparing, Executing, Finalizing
<1>1. CASE n = [r EXCEPT !.pc = "done"]
  <2>1. n \in CallType  BY <1>1, Values
  <2>2. TaskOK(n)  BY <1>1 DEF CallOK, TaskOK, DecisionOK, OutcomeOK
  <2>3. DecisionOK(n)  BY <1>1 DEF CallOK, TaskOK, DecisionOK, RunOK, OutcomeOK
  <2>4. RunOK(n)  BY <1>1 DEF CallOK, TaskOK, DecisionOK, RunOK, OutcomeOK
  <2>5. OutcomeOK(n)  BY <1>1 DEF CallOK, TaskOK, DecisionOK, RunOK, OutcomeOK
  <2>6. n.op = r.op /\ n.registered = r.registered /\ n.pc # "waiting" /\ n.rev = r.rev
    BY <1>1
  <2> QED  BY <2>1, <2>2, <2>3, <2>4, <2>5, <2>6 DEF CallOK, Follows
<1> QED  BY <1>1

\* BeginDispatch begins what was prepared for dispatch, once.
LEMMA DispatchingRecord ==
  ASSUME NEW r \in CallType, CallOK(r), r.pc = "begin", r.op = "dispatch", r.phase = "preparedForDispatch",
         NEW n, n = [[r EXCEPT !.phase = "dispatching"] EXCEPT !.pc = "execute"]
  PROVE  Follows(r, n)
<1> USE DEF CallType, Preparing, Executing, Finalizing
<1>1. CASE n = [[r EXCEPT !.phase = "dispatching"] EXCEPT !.pc = "execute"]
  <2>1. n \in CallType  BY <1>1, Values
  <2>2. TaskOK(n)  BY <1>1 DEF CallOK, TaskOK, DecisionOK, OutcomeOK
  <2>3. DecisionOK(n)  BY <1>1 DEF CallOK, TaskOK, DecisionOK, RunOK, OutcomeOK
  <2>4. RunOK(n)  BY <1>1 DEF CallOK, TaskOK, DecisionOK, RunOK, OutcomeOK
  <2>5. OutcomeOK(n)  BY <1>1 DEF CallOK, TaskOK, DecisionOK, RunOK, OutcomeOK
  <2>6. n.op = r.op /\ n.registered = r.registered /\ n.pc # "waiting" /\ n.rev = r.rev
    BY <1>1
  <2> QED  BY <2>1, <2>2, <2>3, <2>4, <2>5, <2>6 DEF CallOK, Follows
<1> QED  BY <1>1

\* ExecuteBody and Execute settle a call whose body did not start.
LEMMA ExecutedRecord ==
  ASSUME NEW r \in CallType, CallOK(r), r.pc \in {"execute", "send"},
         NEW o \in {"authored", "failed", "notRun"},
         NEW n, n = [[r EXCEPT !.held = o] EXCEPT !.pc = "returned"]
  PROVE  Follows(r, n)
<1> USE DEF CallType, Preparing, Executing, Finalizing
<1>0. o \in Outcomes  BY Values
<1>1. CASE n = [[r EXCEPT !.held = o] EXCEPT !.pc = "returned"]
  <2>1. n \in CallType  BY <1>1, Values, <1>0
  <2>2. TaskOK(n)  BY <1>1, <1>0 DEF CallOK, TaskOK, DecisionOK, OutcomeOK
  <2>3. DecisionOK(n)  BY <1>1, <1>0 DEF CallOK, TaskOK, DecisionOK, RunOK, OutcomeOK
  <2>4. RunOK(n)  BY <1>1, <1>0 DEF CallOK, TaskOK, DecisionOK, RunOK, OutcomeOK
  <2>5. OutcomeOK(n)  BY <1>1, <1>0 DEF CallOK, TaskOK, DecisionOK, RunOK, OutcomeOK
  <2>6. n.op = r.op /\ n.registered = r.registered /\ n.pc # "waiting" /\ n.rev = r.rev
    BY <1>1, <1>0
  <2> QED  BY <2>1, <2>2, <2>3, <2>4, <2>5, <2>6 DEF CallOK, Follows
<1> QED  BY <1>1

\* ExecuteBody looks for the Tool.
LEMMA InvokedRecord ==
  ASSUME NEW r \in CallType, CallOK(r), r.pc = "execute",
         NEW n, n = [[r EXCEPT !.invoked = TRUE] EXCEPT !.pc = "lookup"]
  PROVE  Follows(r, n)
<1> USE DEF CallType, Preparing, Executing, Finalizing
<1>1. CASE n = [[r EXCEPT !.invoked = TRUE] EXCEPT !.pc = "lookup"]
  <2>1. n \in CallType  BY <1>1, Values
  <2>2. TaskOK(n)  BY <1>1 DEF CallOK, TaskOK, DecisionOK, OutcomeOK
  <2>3. DecisionOK(n)  BY <1>1 DEF CallOK, TaskOK, DecisionOK, RunOK, OutcomeOK
  <2>4. RunOK(n)  BY <1>1 DEF CallOK, TaskOK, DecisionOK, RunOK, OutcomeOK
  <2>5. OutcomeOK(n)  BY <1>1 DEF CallOK, TaskOK, DecisionOK, RunOK, OutcomeOK
  <2>6. n.op = r.op /\ n.registered = r.registered /\ n.pc # "waiting" /\ n.rev = r.rev
    BY <1>1
  <2> QED  BY <2>1, <2>2, <2>3, <2>4, <2>5, <2>6 DEF CallOK, Follows
<1> QED  BY <1>1

\* FindTool goes on with the approval, or to the body.
LEMMA FoundRecord ==
  ASSUME NEW r \in CallType, CallOK(r), r.pc = "lookup",
         NEW n, n = [r EXCEPT !.pc = IF r.op = "prepare" THEN "asking" ELSE "send"]
  PROVE  Follows(r, n)
<1> USE DEF CallType, Preparing, Executing, Finalizing
<1>1. CASE n = [r EXCEPT !.pc = IF r.op = "prepare" THEN "asking" ELSE "send"]
  <2>1. n \in CallType  BY <1>1, Values
  <2>2. TaskOK(n)  BY <1>1 DEF CallOK, TaskOK, DecisionOK, OutcomeOK
  <2>3. DecisionOK(n)  BY <1>1 DEF CallOK, TaskOK, DecisionOK, RunOK, OutcomeOK
  <2>4. RunOK(n)  BY <1>1 DEF CallOK, TaskOK, DecisionOK, RunOK, OutcomeOK
  <2>5. OutcomeOK(n)  BY <1>1 DEF CallOK, TaskOK, DecisionOK, RunOK, OutcomeOK
  <2>6. n.op = r.op /\ n.registered = r.registered /\ n.pc # "waiting" /\ n.rev = r.rev
    BY <1>1
  <2> QED  BY <2>1, <2>2, <2>3, <2>4, <2>5, <2>6 DEF CallOK, Follows
<1> QED  BY <1>1

\* A body or a question that cannot be confirmed ends its task.
LEMMA UnconfirmedRecord ==
  ASSUME NEW r \in CallType, CallOK(r), r.pc \in {"lookup", "waiting"},
         NEW n, n = [[r EXCEPT !.failure = TRUE, !.phase = IF @ = "dispatching" THEN "preparedForPost" ELSE @]
              EXCEPT !.pc = "done"]
  PROVE  Follows(r, n)
<1> USE DEF CallType, Preparing, Executing, Finalizing
<1>1. CASE n = [[r EXCEPT !.failure = TRUE, !.phase = IF @ = "dispatching" THEN "preparedForPost" ELSE @]
              EXCEPT !.pc = "done"]
  <2>1. n \in CallType  BY <1>1, Values
  <2>2. TaskOK(n)  BY <1>1 DEF CallOK, TaskOK, DecisionOK, OutcomeOK
  <2>3. DecisionOK(n)  BY <1>1 DEF CallOK, TaskOK, DecisionOK, RunOK, OutcomeOK
  <2>4. RunOK(n)  BY <1>1 DEF CallOK, TaskOK, DecisionOK, RunOK, OutcomeOK
  <2>5. OutcomeOK(n)  BY <1>1 DEF CallOK, TaskOK, DecisionOK, RunOK, OutcomeOK
  <2>6. n.op = r.op /\ n.registered = r.registered /\ n.pc # "waiting" /\ n.rev = r.rev
    BY <1>1
  <2> QED  BY <2>1, <2>2, <2>3, <2>4, <2>5, <2>6 DEF CallOK, Follows
<1> QED  BY <1>1

\* DispatchReturns records the outcome of the dispatch.
LEMMA ReturnedRecord ==
  ASSUME NEW r \in CallType, CallOK(r), r.pc = "returned",
         NEW h \in {r.held, "failed"},
         NEW n, n = [[r EXCEPT !.dispatch = IF r.cancelled /\ ~Failed(h) THEN Aborted(r) ELSE h,
                       !.phase = "preparedForPost"] EXCEPT !.pc = "done"]
  PROVE  Follows(r, n)
<1> USE DEF CallType, Preparing, Executing, Finalizing, Failed, Aborted, Outcomes
<1>1. CASE n = [[r EXCEPT !.dispatch = IF r.cancelled /\ ~Failed(h) THEN Aborted(r) ELSE h,
                       !.phase = "preparedForPost"] EXCEPT !.pc = "done"]
  <2>1. n \in CallType  BY <1>1, Values, ZenonT(40)
  <2>2. TaskOK(n)  BY <1>1 DEF CallOK, TaskOK, DecisionOK, OutcomeOK
  <2>3. DecisionOK(n)  BY <1>1 DEF CallOK, TaskOK, DecisionOK, RunOK, OutcomeOK
  <2>4. RunOK(n)  BY <1>1 DEF CallOK, TaskOK, DecisionOK, RunOK, OutcomeOK
  <2>5. OutcomeOK(n)  BY <1>1 DEF CallOK, TaskOK, DecisionOK, RunOK, OutcomeOK
  <2>6. n.op = r.op /\ n.registered = r.registered /\ n.pc # "waiting" /\ n.rev = r.rev
    BY <1>1
  <2> QED  BY <2>1, <2>2, <2>3, <2>4, <2>5, <2>6 DEF CallOK, Follows
<1> QED  BY <1>1

\* BeginFinalize reviews the outcome of the stage the call reached.
LEMMA ReviewingRecord ==
  ASSUME NEW r \in CallType, CallOK(r), r.pc = "begin", r.op = "finalize", r.phase = "preparedForPost",
         r.stage = "post" \/ (r.stage = "dispatch" /\ r.dispatch # "none"),
         NEW n, n = [[r EXCEPT !.phase = "finalizing", !.held = IF r.stage = "post" THEN @ ELSE r.dispatch]
              EXCEPT !.pc = "review"]
  PROVE  Follows(r, n)
<1> USE DEF CallType, Preparing, Executing, Finalizing
<1>1. CASE n = [[r EXCEPT !.phase = "finalizing", !.held = IF r.stage = "post" THEN @ ELSE r.dispatch]
              EXCEPT !.pc = "review"]
  <2>1. n \in CallType  BY <1>1, Values
  <2>2. TaskOK(n)  BY <1>1 DEF CallOK, TaskOK, DecisionOK, OutcomeOK
  <2>3. DecisionOK(n)  BY <1>1 DEF CallOK, TaskOK, DecisionOK, RunOK, OutcomeOK
  <2>4. RunOK(n)  BY <1>1 DEF CallOK, TaskOK, DecisionOK, RunOK, OutcomeOK
  <2>5. OutcomeOK(n)  BY <1>1 DEF CallOK, TaskOK, DecisionOK, RunOK, OutcomeOK
  <2>6. n.op = r.op /\ n.registered = r.registered /\ n.pc # "waiting" /\ n.rev = r.rev
    BY <1>1
  <2> QED  BY <2>1, <2>2, <2>3, <2>4, <2>5, <2>6 DEF CallOK, Follows
<1> QED  BY <1>1

\* A final outcome is not reviewed.
LEMMA FinishingRecord ==
  ASSUME NEW r \in CallType, CallOK(r), r.pc = "begin", r.op = "finalize", r.stage = "final", r.phase = "preparedForFinish",
         NEW n, n = [[r EXCEPT !.phase = "finalizing"] EXCEPT !.pc = "finish"]
  PROVE  Follows(r, n)
<1> USE DEF CallType, Preparing, Executing, Finalizing
<1>1. CASE n = [[r EXCEPT !.phase = "finalizing"] EXCEPT !.pc = "finish"]
  <2>1. n \in CallType  BY <1>1, Values
  <2>2. TaskOK(n)  BY <1>1 DEF CallOK, TaskOK, DecisionOK, OutcomeOK
  <2>3. DecisionOK(n)  BY <1>1 DEF CallOK, TaskOK, DecisionOK, RunOK, OutcomeOK
  <2>4. RunOK(n)  BY <1>1 DEF CallOK, TaskOK, DecisionOK, RunOK, OutcomeOK
  <2>5. OutcomeOK(n)  BY <1>1 DEF CallOK, TaskOK, DecisionOK, RunOK, OutcomeOK
  <2>6. n.op = r.op /\ n.registered = r.registered /\ n.pc # "waiting" /\ n.rev = r.rev
    BY <1>1
  <2> QED  BY <2>1, <2>2, <2>3, <2>4, <2>5, <2>6 DEF CallOK, Follows
<1> QED  BY <1>1

\* ReviewResult keeps the outcome or fails it.
LEMMA ReviewedRecord ==
  ASSUME NEW r \in CallType, CallOK(r), r.pc = "review",
         NEW o \in {r.held, "failed"}, NEW p \in {"finish", "settle"},
         NEW n, n = [[r EXCEPT !.held = o] EXCEPT !.pc = p]
  PROVE  Follows(r, n)
<1> USE DEF CallType, Preparing, Executing, Finalizing
<1>0. o \in Outcomes /\ p \in PCs  BY Values
<1>1. CASE n = [[r EXCEPT !.held = o] EXCEPT !.pc = p]
  <2>1. n \in CallType  BY <1>1, Values, <1>0
  <2>2. TaskOK(n)  BY <1>1, <1>0 DEF CallOK, TaskOK, DecisionOK, OutcomeOK
  <2>3. DecisionOK(n)  BY <1>1, <1>0 DEF CallOK, TaskOK, DecisionOK, RunOK, OutcomeOK
  <2>4. RunOK(n)  BY <1>1, <1>0 DEF CallOK, TaskOK, DecisionOK, RunOK, OutcomeOK
  <2>5. OutcomeOK(n)  BY <1>1, <1>0 DEF CallOK, TaskOK, DecisionOK, RunOK, OutcomeOK
  <2>6. n.op = r.op /\ n.registered = r.registered /\ n.pc # "waiting" /\ n.rev = r.rev
    BY <1>1, <1>0
  <2> QED  BY <2>1, <2>2, <2>3, <2>4, <2>5, <2>6 DEF CallOK, Follows
<1> QED  BY <1>1

\* SettleReview reports a cancelled success as aborted.
LEMMA SettledReviewRecord ==
  ASSUME NEW r \in CallType, CallOK(r), r.pc = "settle",
         NEW n, n = [[r EXCEPT !.held = IF r.cancelled /\ ~Failed(@) THEN Aborted(r) ELSE @] EXCEPT !.pc = "finish"]
  PROVE  Follows(r, n)
<1> USE DEF CallType, Preparing, Executing, Finalizing, Failed, Aborted, Outcomes
<1>1. CASE n = [[r EXCEPT !.held = IF r.cancelled /\ ~Failed(@) THEN Aborted(r) ELSE @] EXCEPT !.pc = "finish"]
  <2>1. n \in CallType  BY <1>1, Values, ZenonT(60)
  <2>2. TaskOK(n)  BY <1>1 DEF CallOK, TaskOK, DecisionOK, OutcomeOK
  <2>3. DecisionOK(n)  BY <1>1 DEF CallOK, TaskOK, DecisionOK, RunOK, OutcomeOK
  <2>4. RunOK(n)  BY <1>1 DEF CallOK, TaskOK, DecisionOK, RunOK, OutcomeOK
  <2>5. OutcomeOK(n)  BY <1>1 DEF CallOK, TaskOK, DecisionOK, RunOK, OutcomeOK
  <2>6. n.op = r.op /\ n.registered = r.registered /\ n.pc # "waiting" /\ n.rev = r.rev
    BY <1>1
  <2> QED  BY <2>1, <2>2, <2>3, <2>4, <2>5, <2>6 DEF CallOK, Follows
<1> QED  BY <1>1

\* FinishResult retains the result.
LEMMA FinishedRecord ==
  ASSUME NEW r \in CallType, CallOK(r), r.pc = "finish",
         NEW o \in {r.held, "failed"},
         NEW n, n = [[r EXCEPT !.result = o, !.phase = "completed"] EXCEPT !.pc = "done"]
  PROVE  Follows(r, n)
<1> USE DEF CallType, Preparing, Executing, Finalizing
<1>0. o \in Outcomes  BY Values
<1>1. CASE n = [[r EXCEPT !.result = o, !.phase = "completed"] EXCEPT !.pc = "done"]
  <2>1. n \in CallType  BY <1>1, Values, <1>0
  <2>2. TaskOK(n)  BY <1>1, <1>0 DEF CallOK, TaskOK, DecisionOK, OutcomeOK
  <2>3. DecisionOK(n)  BY <1>1, <1>0 DEF CallOK, TaskOK, DecisionOK, RunOK, OutcomeOK
  <2>4. RunOK(n)  BY <1>1, <1>0 DEF CallOK, TaskOK, DecisionOK, RunOK, OutcomeOK
  <2>5. OutcomeOK(n)  BY <1>1, <1>0 DEF CallOK, TaskOK, DecisionOK, RunOK, OutcomeOK
  <2>6. n.op = r.op /\ n.registered = r.registered /\ n.pc # "waiting" /\ n.rev = r.rev
    BY <1>1, <1>0
  <2> QED  BY <2>1, <2>2, <2>3, <2>4, <2>5, <2>6 DEF CallOK, Follows
<1> QED  BY <1>1


----------------------------------------------------------------------------
(* What a client's message and the end of a task do to the record.         *)

\* PrepareCall registers a call that was never prepared.
LEMMA PreparedRecord ==
  ASSUME NEW r \in CallType, CallOK(r), ~r.registered, r.result = "none",
         NEW n, n = [[r EXCEPT !.registered = TRUE, !.op = "prepare"] EXCEPT !.pc = "describe"]
  PROVE  n \in CallType /\ CallOK(n)
<1> USE DEF CallType, Preparing, Executing, Finalizing
<1>1. n \in CallType  BY Values
<1>2. TaskOK(n)  BY DEF CallOK, TaskOK, DecisionOK, OutcomeOK
<1>3. DecisionOK(n)  BY DEF CallOK, TaskOK, DecisionOK, RunOK, OutcomeOK
<1>4. RunOK(n)  BY DEF CallOK, TaskOK, DecisionOK, RunOK, OutcomeOK
<1>5. OutcomeOK(n)  BY DEF CallOK, TaskOK, DecisionOK, RunOK, OutcomeOK
<1> QED  BY <1>1, <1>2, <1>3, <1>4, <1>5 DEF CallOK

\* DispatchCall and FinalizeCall start a task of a prepared call.
LEMMA RequestedRecord ==
  ASSUME NEW r \in CallType, CallOK(r), r.registered, r.op = "none", r.business, ~r.failure,
         NEW op \in {"dispatch", "finalize"}, op = "finalize" => r.result = "none",
         NEW n, n = [[r EXCEPT !.op = op] EXCEPT !.pc = "begin"]
  PROVE  n \in CallType /\ CallOK(n)
<1> USE DEF CallType, Preparing, Executing, Finalizing
<1>1. n \in CallType  BY Values
<1>2. TaskOK(n)  BY DEF CallOK, TaskOK, DecisionOK, OutcomeOK
<1>3. DecisionOK(n)  BY DEF CallOK, TaskOK, DecisionOK, RunOK, OutcomeOK
<1>4. RunOK(n)  BY DEF CallOK, TaskOK, DecisionOK, RunOK, OutcomeOK
<1>5. OutcomeOK(n)  BY DEF CallOK, TaskOK, DecisionOK, RunOK, OutcomeOK
<1> QED  BY <1>1, <1>2, <1>3, <1>4, <1>5 DEF CallOK

\* A cancellation changes nothing the other fields depend on.
LEMMA CancelledRecord ==
  ASSUME NEW r \in CallType, CallOK(r), NEW n, n = [r EXCEPT !.cancelled = TRUE]
  PROVE  n \in CallType /\ CallOK(n)
<1> USE DEF CallType, Preparing, Executing, Finalizing
<1>1. n \in CallType  OBVIOUS
<1>2. TaskOK(n)  BY DEF CallOK, TaskOK
<1>3. DecisionOK(n)  BY DEF CallOK, DecisionOK
<1>4. RunOK(n)  BY DEF CallOK, RunOK
<1>5. OutcomeOK(n)  BY DEF CallOK, OutcomeOK
<1> QED  BY <1>1, <1>2, <1>3, <1>4, <1>5 DEF CallOK

\* ReleaseCall forgets a call that was never prepared.
LEMMA FreshRecord == Fresh \in CallType /\ CallOK(Fresh)
<1> USE DEF CallType, Fresh, Preparing, Executing, Finalizing
<1>1. Fresh \in CallType  BY Values
<1>2. TaskOK(Fresh) /\ DecisionOK(Fresh) /\ RunOK(Fresh) /\ OutcomeOK(Fresh)
  BY DEF TaskOK, DecisionOK, RunOK, OutcomeOK
<1> QED  BY <1>1, <1>2 DEF CallOK

\* ReleaseCall leaves only what happened to a call with a result.
LEMMA ReleasedRecord ==
  ASSUME NEW r \in CallType, CallOK(r), r.result # "none",
         NEW n, n = [Fresh EXCEPT !.phase = r.phase, !.result = r.result, !.ran = r.ran,
                       !.asked = r.asked, !.allowed = r.allowed, !.refused = r.refused]
  PROVE  n \in CallType /\ CallOK(n)
<1>1. n \in CallType  BY FreshRecord DEF CallType
<1> USE DEF CallType, Preparing, Executing, Finalizing, Fresh
<1>2. TaskOK(n)  BY DEF CallOK, TaskOK, DecisionOK, OutcomeOK
<1>3. DecisionOK(n)  BY DEF CallOK, TaskOK, DecisionOK, RunOK, OutcomeOK
<1>4. RunOK(n)  BY DEF CallOK, TaskOK, DecisionOK, RunOK, OutcomeOK
<1>5. OutcomeOK(n)  BY DEF CallOK, TaskOK, DecisionOK, RunOK, OutcomeOK
<1> QED  BY <1>1, <1>2, <1>3, <1>4, <1>5 DEF CallOK

\* CallCompleted ends the request of a task that is done.
LEMMA CompletedRecord ==
  ASSUME NEW r \in CallType, CallOK(r), r.pc = "done",
         NEW n, n = [[r EXCEPT !.business = @ \/ (r.op = "prepare" /\ r.stage # "none"),
                               !.op = "none"] EXCEPT !.pc = "idle"]
  PROVE  n \in CallType /\ CallOK(n)
<1> USE DEF CallType, Preparing, Executing, Finalizing
<1> DEFINE b == r.business \/ (r.op = "prepare" /\ r.stage # "none")
<1>1. b \in BOOLEAN /\ (r.business => b) /\ (b => r.business \/ r.op = "prepare")
      /\ (~b => r.op # "prepare" \/ r.stage = "none")
  OBVIOUS
<1>2. n = [[r EXCEPT !.business = b, !.op = "none"] EXCEPT !.pc = "idle"]  OBVIOUS
<1> HIDE DEF b
<1>3. n \in CallType  BY <1>1, <1>2, Values
<1>4. TaskOK(n)  BY <1>1, <1>2 DEF CallOK, TaskOK, DecisionOK, OutcomeOK
<1>5. DecisionOK(n)  BY <1>1, <1>2, Values DEF CallOK, TaskOK, DecisionOK, RunOK, OutcomeOK
<1>6. RunOK(n)  BY <1>1, <1>2 DEF CallOK, TaskOK, DecisionOK, RunOK, OutcomeOK
<1>7. OutcomeOK(n)  BY <1>1, <1>2 DEF CallOK, TaskOK, DecisionOK, RunOK, OutcomeOK
<1> QED  BY <1>3, <1>4, <1>5, <1>6, <1>7 DEF CallOK

----------------------------------------------------------------------------
(* From one record to the invariant.                                       *)

\* A step that changes one record needs its own facts, and those of the others.
LEMMA OneMoves ==
  ASSUME CallInv, NEW c \in Calls, NEW n \in CallType, CallOK(n), Becomes(c, n),
         RuntimeOK', CallFits(c)', \A d \in Calls \ {c} : CallFits(d)'
  PROVE  CallInv'
<1>1. call' = [call EXCEPT ![c] = n]  BY DEF Becomes
<1>2. call' \in [Calls -> CallType]  BY <1>1 DEF CallInv
<1>3. ASSUME NEW d \in Calls  PROVE CallOK(call[d])'
  <2>1. CASE d = c
    <3>1. call'[d] = n  BY <1>1, <2>1 DEF CallInv
    <3> QED  BY <3>1 DEF CallOK, TaskOK, DecisionOK, RunOK, OutcomeOK
  <2>2. CASE d # c
    <3>1. call'[d] = call[d]  BY <1>1, <2>2 DEF CallInv
    <3>2. CallOK(call[d])  BY DEF CallInv
    <3> QED  BY <3>1, <3>2 DEF CallOK, TaskOK, DecisionOK, RunOK, OutcomeOK
  <2> QED  BY <2>1, <2>2
<1> QED  BY <1>2, <1>3 DEF CallInv

\* What the others' records say does not depend on c.
LEMMA OthersFit ==
  ASSUME CallInv, NEW c \in Calls, NEW n, Becomes(c, n), UNCHANGED <<rt, tool, bodies>>
  PROVE  \A d \in Calls \ {c} : CallFits(d)'
<1>1. \A d \in Calls \ {c} : call'[d] = call[d]  BY DEF Becomes, CallInv
<1>2. \A d \in Calls : CallFits(d)  BY DEF CallInv
<1> QED  BY <1>1, <1>2 DEF CallFits

\* The Runtime's own state only depends on what a step changes of it.
LEMMA RuntimeStays ==
  ASSUME CallInv, UNCHANGED <<rt, tool, bodies>>
  PROVE  RuntimeOK'
BY DEF CallInv, RuntimeOK

\* A task that goes on, and is not waiting for a body, leaves the Actors alone.
LEMMA TaskStep ==
  ASSUME CallInv, NEW c \in Calls, call[c].pc \notin {"idle", "done", "waiting"},
         NEW n, Becomes(c, n), Follows(call[c], n), UNCHANGED <<rt, tool, bodies>>
  PROVE  CallInv'
<1>1. call'[c] = n  BY DEF Becomes, CallInv
<1>2. CallFits(c) /\ CallOK(call[c])  BY DEF CallInv
<1>3. c \notin bodies /\ c \notin tool.calls /\ call[c].registered
  BY <1>2 DEF CallFits, CallOK, TaskOK
<1>4. CallFits(c)'  BY <1>1, <1>2, <1>3 DEF CallFits, Follows
<1> QED  BY <1>4, OthersFit, RuntimeStays, OneMoves DEF Follows


----------------------------------------------------------------------------
(* The actions of a call's task.                                           *)

\* What the invariant says of one call.
LEMMA OneCall ==
  ASSUME CallInv, NEW c \in Calls
  PROVE  call[c] \in CallType /\ CallOK(call[c]) /\ CallFits(c)
BY DEF CallInv

\* A description of the tools is of the revision the Tool has committed.
LEMMA DescribeKeeps == ASSUME CallInv, NEW c \in Calls, DescribeTools(c)  PROVE CallInv'
<1> DEFINE r == call[c]
<1>1. r \in CallType /\ CallOK(r) /\ CallFits(c) /\ r.pc = "describe"
  BY OneCall DEF DescribeTools
<1>2. PICK v \in Nat \ {0} : rt.life # "stopped" => v = tool.rev
  BY DEF CallInv, RuntimeOK
<1>3. UNCHANGED <<rt, tool, bodies>>  BY DEF DescribeTools
<1>4. \E n : /\ Becomes(c, n)
             /\ \/ n = [r EXCEPT !.pc = "done"]
                \/ \E u \in Nat \ {0} : /\ rt.life # "stopped" => u = tool.rev
                                        /\ n = [[r EXCEPT !.rev = u] EXCEPT !.pc = "policy"]
  BY DEF DescribeTools, Goes, CallInv, RuntimeOK
<1>5. PICK n : /\ Becomes(c, n)
               /\ \/ n = [r EXCEPT !.pc = "done"]
                  \/ \E u \in Nat \ {0} : /\ rt.life # "stopped" => u = tool.rev
                                          /\ n = [[r EXCEPT !.rev = u] EXCEPT !.pc = "policy"]
  BY <1>4
<1>6. n \in CallType /\ CallOK(n)
  <2> USE DEF CallType, Preparing, Executing, Finalizing
  <2> HIDE DEF r
  <2>1. n \in CallType  BY <1>1, <1>5, Values, ZenonT(40)
  <2>2. TaskOK(n)  BY <1>1, <1>5, ZenonT(40) DEF CallOK, TaskOK, DecisionOK, OutcomeOK
  <2>3. DecisionOK(n)  BY <1>1, <1>5, ZenonT(40) DEF CallOK, TaskOK, DecisionOK
  <2>4. RunOK(n)  BY <1>1, <1>5, ZenonT(40) DEF CallOK, TaskOK, DecisionOK, RunOK, OutcomeOK
  <2>5. OutcomeOK(n)  BY <1>1, <1>5, ZenonT(60) DEF CallOK, TaskOK, DecisionOK, RunOK, OutcomeOK
  <2> QED  BY <2>1, <2>2, <2>3, <2>4, <2>5 DEF CallOK
<1>7. call'[c] = n  BY <1>5 DEF Becomes, CallInv
<1>8. c \notin bodies /\ c \notin tool.calls /\ r.registered
  BY <1>1 DEF CallFits, CallOK, TaskOK, Preparing
<1>9. n.op = r.op /\ n.registered = r.registered /\ n.pc # "waiting"
      /\ (rt.life # "stopped" /\ n.rev # 0 => n.rev = tool.rev)
  <2> HIDE DEF r
  <2>1. rt.life # "stopped" /\ r.rev # 0 => r.rev = tool.rev
    BY <1>1, <1>8 DEF CallFits, r
  <2> QED  BY <1>1, <1>5, <2>1 DEF CallType
<1>10. CallFits(c)'  BY <1>1, <1>3, <1>7, <1>8, <1>9 DEF CallFits
<1> QED  BY <1>3, <1>5, <1>6, <1>10, OthersFit, RuntimeStays, OneMoves

\* The policy and the guards decide.
LEMMA EvaluateKeeps == ASSUME CallInv, NEW c \in Calls, EvaluateCall(c)  PROVE CallInv'
<1> DEFINE r == call[c]
<1>1. r \in CallType /\ CallOK(r) /\ r.pc = "policy"  BY OneCall DEF EvaluateCall
<1>2. UNCHANGED <<rt, tool, bodies>>  BY DEF EvaluateCall
<1>3. PICK n : /\ Becomes(c, n)
               /\ \/ \E o \in {"notRun", "denied", "failed"} :
                       \/ n = [FinalPreparation(r, o) EXCEPT !.pc = "done"]
                       \/ n = [PostPreparation(r, o) EXCEPT !.pc = "done"]
                       \/ n = [[PostPreparation(r, o) EXCEPT !.refused = TRUE] EXCEPT !.pc = "done"]
                  \/ n = [[r EXCEPT !.phase = "awaitingApproval", !.stage = "approval"]
                          EXCEPT !.pc = "ask"]
                  \/ n = [r EXCEPT !.pc = "admit"]
  BY DEF EvaluateCall, Goes
<1> HIDE DEF r
<1>4. Follows(r, n)  BY <1>1, <1>3, SettledRecord, EvaluatedRecord
<1> QED  BY <1>1, <1>2, <1>3, <1>4, TaskStep DEF r

\* The last look at the context.
LEMMA AdmitKeeps == ASSUME CallInv, NEW c \in Calls, AdmitCall(c)  PROVE CallInv'
<1> DEFINE r == call[c]
<1>1. r \in CallType /\ CallOK(r) /\ r.pc = "admit"  BY OneCall DEF AdmitCall
<1>2. UNCHANGED <<rt, tool, bodies>>  BY DEF AdmitCall
<1>3. PICK n : /\ Becomes(c, n)
               /\ \/ \E o \in {"notRun", "denied", "failed"} :
                       n = [PostPreparation(r, o) EXCEPT !.pc = "done"]
                  \/ n = [[r EXCEPT !.phase = "preparedForDispatch", !.stage = "dispatch"]
                          EXCEPT !.pc = "done"]
  BY DEF AdmitCall, Goes
<1> HIDE DEF r
<1>4. Follows(r, n)  BY <1>1, <1>3, SettledRecord, AdmittedRecord
<1> QED  BY <1>1, <1>2, <1>3, <1>4, TaskStep DEF r

\* The user is asked, or the call is settled without.
LEMMA RequestApprovalKeeps ==
  ASSUME CallInv, NEW c \in Calls, RequestApproval(c)  PROVE CallInv'
<1> DEFINE r == call[c]
<1>1. r \in CallType /\ CallOK(r) /\ r.pc = "ask"  BY OneCall DEF RequestApproval
<1>2. UNCHANGED <<rt, tool, bodies>>  BY DEF RequestApproval
<1>3. PICK n : /\ Becomes(c, n)
               /\ \/ \E o \in {"notRun", "denied", "failed"} :
                       \/ n = [PostPreparation(r, o) EXCEPT !.pc = "done"]
                       \/ n = [[PostPreparation(r, o) EXCEPT !.refused = TRUE] EXCEPT !.pc = "done"]
                  \/ n = [[r EXCEPT !.asked = @ + 1] EXCEPT !.pc = "lookup"]
  BY DEF RequestApproval, Goes
<1> HIDE DEF r
<1>4. Follows(r, n)  BY <1>1, <1>3, SettledRecord, AskedRecord
<1> QED  BY <1>1, <1>2, <1>3, <1>4, TaskStep DEF r

\* The answer, and what the guards say after it.
LEMMA AnswersKeep == ASSUME CallInv, NEW c \in Calls, ApprovalAnswers(c)  PROVE CallInv'
<1> DEFINE r == call[c]
<1>1. r \in CallType /\ CallOK(r) /\ r.pc = "asking"  BY OneCall DEF ApprovalAnswers
<1>2. UNCHANGED <<rt, tool, bodies>>  BY DEF ApprovalAnswers
<1>3. PICK n : /\ Becomes(c, n)
               /\ \/ \E o \in {"notRun", "denied", "failed"} :
                       \/ n = [FinalPreparation(r, o) EXCEPT !.pc = "done"]
                       \/ n = [PostPreparation(r, o) EXCEPT !.pc = "done"]
                       \/ n = [[PostPreparation(r, o) EXCEPT !.refused = TRUE] EXCEPT !.pc = "done"]
                  \/ n = [[r EXCEPT !.phase = "unprepared", !.allowed = TRUE] EXCEPT !.pc = "admit"]
                  \/ n = [[r EXCEPT !.failure = TRUE] EXCEPT !.pc = "done"]
  BY DEF ApprovalAnswers, Approved, Goes
<1> HIDE DEF r
<1>4. Follows(r, n)  BY <1>1, <1>3, SettledRecord, AnsweredRecord
<1> QED  BY <1>1, <1>2, <1>3, <1>4, TaskStep DEF r


\* What was prepared for dispatch is dispatched.
LEMMA BeginDispatchKeeps ==
  ASSUME CallInv, NEW c \in Calls, BeginDispatch(c)  PROVE CallInv'
<1> DEFINE r == call[c]
<1>1. r \in CallType /\ CallOK(r) /\ r.pc = "begin" /\ r.op = "dispatch"
  BY OneCall DEF BeginDispatch
<1>2. UNCHANGED <<rt, tool, bodies>>  BY DEF BeginDispatch
<1>3. PICK n : /\ Becomes(c, n)
               /\ \/ /\ r.phase = "preparedForDispatch"
                     /\ n = [[r EXCEPT !.phase = "dispatching"] EXCEPT !.pc = "execute"]
                  \/ n = [r EXCEPT !.pc = "done"]
  BY DEF BeginDispatch, Goes
<1> HIDE DEF r
<1>4. Follows(r, n)  BY <1>1, <1>3, BegunRecord, DispatchingRecord
<1> QED  BY <1>1, <1>2, <1>3, <1>4, TaskStep DEF r

\* The chain settles the call, or its body is looked for.
LEMMA ExecuteBodyKeeps ==
  ASSUME CallInv, NEW c \in Calls, ExecuteBody(c)  PROVE CallInv'
<1> DEFINE r == call[c]
<1>1. r \in CallType /\ CallOK(r) /\ r.pc = "execute"  BY OneCall DEF ExecuteBody
<1>2. UNCHANGED <<rt, tool, bodies>>  BY DEF ExecuteBody
<1>3. PICK n : /\ Becomes(c, n)
               /\ \/ \E o \in {"authored", "failed", "notRun"} :
                       n = [[r EXCEPT !.held = o] EXCEPT !.pc = "returned"]
                  \/ n = [[r EXCEPT !.invoked = TRUE] EXCEPT !.pc = "lookup"]
  BY DEF ExecuteBody, Goes
<1> HIDE DEF r
<1>4. Follows(r, n)  BY <1>1, <1>3, ExecutedRecord, InvokedRecord
<1> QED  BY <1>1, <1>2, <1>3, <1>4, TaskStep DEF r

\* A Tool is found, or the body stays unconfirmed.
LEMMA FindToolKeeps ==
  ASSUME CallInv, NEW c \in Calls, FindTool(c)  PROVE CallInv'
<1> DEFINE r == call[c]
<1>1. r \in CallType /\ CallOK(r) /\ r.pc = "lookup"  BY OneCall DEF FindTool
<1>2. UNCHANGED <<rt, tool, bodies>>  BY DEF FindTool
<1>3. PICK n : /\ Becomes(c, n)
               /\ \/ n = [r EXCEPT !.pc = IF r.op = "prepare" THEN "asking" ELSE "send"]
                  \/ n = [[r EXCEPT !.failure = TRUE,
                                    !.phase = IF @ = "dispatching" THEN "preparedForPost" ELSE @]
                          EXCEPT !.pc = "done"]
  BY DEF FindTool, Goes, Unconfirmed
<1> HIDE DEF r
<1>4. Follows(r, n)  BY <1>1, <1>3, FoundRecord, UnconfirmedRecord
<1> QED  BY <1>1, <1>2, <1>3, <1>4, TaskStep DEF r

\* A body starts once, in a Tool that is of the reviewed revision.
LEMMA StartedRecord ==
  ASSUME NEW r \in CallType, CallOK(r), r.pc = "send",
         NEW n, n = [r EXCEPT !.ran = 1, !.pc = "waiting"]
  PROVE  n \in CallType /\ CallOK(n)
<1> USE DEF CallType, Preparing, Executing, Finalizing
<1>1. n \in CallType  BY Values
<1>2. TaskOK(n)  BY DEF CallOK, TaskOK, DecisionOK, OutcomeOK
<1>3. DecisionOK(n)  BY DEF CallOK, TaskOK, DecisionOK, RunOK, OutcomeOK
<1>4. RunOK(n)  BY DEF CallOK, TaskOK, DecisionOK, RunOK, OutcomeOK
<1>5. OutcomeOK(n)  BY DEF CallOK, TaskOK, DecisionOK, RunOK, OutcomeOK
<1> QED  BY <1>1, <1>2, <1>3, <1>4, <1>5 DEF CallOK

\* Only the body of the call itself starts.
LEMMA ExecuteKeeps == ASSUME CallInv, NEW c \in Calls, Execute(c)  PROVE CallInv'
<1> DEFINE r == call[c]
<1>1. r \in CallType /\ CallOK(r) /\ CallFits(c) /\ r.pc = "send"  BY OneCall DEF Execute
<1>2. CASE /\ Becomes(c, [[r EXCEPT !.held = "failed"] EXCEPT !.pc = "returned"])
           /\ UNCHANGED <<rt, tool, bodies>>
  <2>1. PICK n : Becomes(c, n) /\ n = [[r EXCEPT !.held = "failed"] EXCEPT !.pc = "returned"]
    BY <1>2
  <2> HIDE DEF r
  <2>2. Follows(r, n)  BY <1>1, <2>1, ExecutedRecord
  <2> QED  BY <1>1, <1>2, <2>1, <2>2, TaskStep DEF r
<1>3. CASE /\ Becomes(c, [[r EXCEPT !.ran = @ + 1] EXCEPT !.pc = "waiting"])
           /\ tool' = [tool EXCEPT !.calls = @ \cup {c}]
           /\ bodies' = bodies \cup {c} /\ rt' = rt
  <2>0. [[r EXCEPT !.ran = @ + 1] EXCEPT !.pc = "waiting"] = [r EXCEPT !.ran = 1, !.pc = "waiting"]
    <3> HIDE DEF r
    <3>1. r.ran = 0  BY <1>1 DEF CallOK, RunOK
    <3> QED  BY <1>1, <3>1 DEF CallType
  <2>1. PICK n : Becomes(c, n) /\ n = [r EXCEPT !.ran = 1, !.pc = "waiting"]
    BY <1>3, <2>0
  <2>2. n \in CallType /\ CallOK(n)
    <3> HIDE DEF r
    <3> QED  BY <1>1, <2>1, StartedRecord
  <2>3. call' = [call EXCEPT ![c] = n]  BY <2>1 DEF Becomes
  <2>4. n.pc = "waiting" /\ n.op = r.op /\ n.rev = r.rev /\ n.registered = r.registered
        /\ n.result = r.result
    <3> HIDE DEF r
    <3> QED  BY <1>1, <2>1 DEF CallType
  <2>5. r.registered /\ r.result = "none"
    <3> HIDE DEF r
    <3> QED  BY <1>1 DEF CallOK, TaskOK, Executing
  <2>6. tool'.rev = tool.rev /\ tool'.mutating = tool.mutating /\ tool'.calls = tool.calls \cup {c}
    BY <1>3 DEF CallInv, RuntimeOK
  <2>7. RuntimeOK'
    <3>1. tool' \in [rev : Nat \ {0}, mutating : BOOLEAN, calls : SUBSET Calls, stopped : BOOLEAN]
      BY <1>3 DEF CallInv, RuntimeOK
    <3> QED  BY <1>3, <2>6, <3>1 DEF CallInv, RuntimeOK
  <2>8. CallFits(c)'
    <3>1. call'[c] = n  BY <2>3 DEF CallInv
    <3> QED  BY <1>1, <1>3, <2>4, <2>5, <2>6, <3>1 DEF CallFits
  <2>9. ASSUME NEW d \in Calls \ {c}  PROVE CallFits(d)'
    <3>1. call'[d] = call[d] /\ CallFits(d)  BY <2>3 DEF CallInv
    <3> QED  BY <1>3, <2>6, <3>1 DEF CallFits
  <2> QED  BY <2>1, <2>2, <2>7, <2>8, <2>9, OneMoves
<1> QED  BY <1>2, <1>3 DEF Execute, Goes


\* DispatchReturns records what the body did.
LEMMA DispatchReturnsKeeps ==
  ASSUME CallInv, NEW c \in Calls, DispatchReturns(c)  PROVE CallInv'
<1> DEFINE r == call[c]
<1>1. r \in CallType /\ CallOK(r) /\ r.pc = "returned"  BY OneCall DEF DispatchReturns
<1>2. UNCHANGED <<rt, tool, bodies>>  BY DEF DispatchReturns
<1>3. PICK h \in {r.held, "failed"} :
         Becomes(c, [[r EXCEPT !.dispatch = IF r.cancelled /\ ~Failed(h) THEN Aborted(r) ELSE h,
                               !.phase = "preparedForPost"] EXCEPT !.pc = "done"])
  BY DEF DispatchReturns, Goes
<1>4. PICK n : /\ Becomes(c, n)
               /\ n = [[r EXCEPT !.dispatch = IF r.cancelled /\ ~Failed(h) THEN Aborted(r) ELSE h,
                                 !.phase = "preparedForPost"] EXCEPT !.pc = "done"]
  BY <1>3
<1> HIDE DEF r
<1>5. Follows(r, n)  BY <1>1, <1>4, ReturnedRecord
<1> QED  BY <1>1, <1>2, <1>4, <1>5, TaskStep DEF r

\* A finalization begins on the outcome of the stage the call reached.
LEMMA BeginFinalizeKeeps ==
  ASSUME CallInv, NEW c \in Calls, BeginFinalize(c)  PROVE CallInv'
<1> DEFINE r == call[c]
<1>1. r \in CallType /\ CallOK(r) /\ r.pc = "begin" /\ r.op = "finalize"
  BY OneCall DEF BeginFinalize
<1>2. UNCHANGED <<rt, tool, bodies>>  BY DEF BeginFinalize
<1>3. PICK n : /\ Becomes(c, n)
               /\ \/ n = [r EXCEPT !.pc = "done"]
                  \/ /\ r.phase = "preparedForPost"
                     /\ r.stage = "post" \/ (r.stage = "dispatch" /\ r.dispatch # "none")
                     /\ n = [[r EXCEPT !.phase = "finalizing",
                                       !.held = IF r.stage = "post" THEN @ ELSE r.dispatch]
                             EXCEPT !.pc = "review"]
                  \/ /\ r.stage = "final" /\ r.phase = "preparedForFinish"
                     /\ n = [[r EXCEPT !.phase = "finalizing"] EXCEPT !.pc = "finish"]
  BY DEF BeginFinalize, Goes
<1> HIDE DEF r
<1>4. Follows(r, n)  BY <1>1, <1>3, BegunRecord, ReviewingRecord, FinishingRecord
<1> QED  BY <1>1, <1>2, <1>3, <1>4, TaskStep DEF r

\* The review may fail an outcome.
LEMMA ReviewKeeps == ASSUME CallInv, NEW c \in Calls, ReviewResult(c)  PROVE CallInv'
<1> DEFINE r == call[c]
<1>1. r \in CallType /\ CallOK(r) /\ r.pc = "review"  BY OneCall DEF ReviewResult
<1>2. UNCHANGED <<rt, tool, bodies>>  BY DEF ReviewResult
<1>3. \E o \in {r.held, "failed"}, p \in {"finish", "settle"} :
         Becomes(c, [[r EXCEPT !.held = o] EXCEPT !.pc = p])
  BY DEF ReviewResult, Goes
<1>4. PICK n : \E o \in {r.held, "failed"}, p \in {"finish", "settle"} :
         Becomes(c, n) /\ n = [[r EXCEPT !.held = o] EXCEPT !.pc = p]
  BY <1>3
<1> HIDE DEF r
<1>5. Follows(r, n)  BY <1>1, <1>4, ReviewedRecord
<1> QED  BY <1>1, <1>2, <1>4, <1>5, TaskStep DEF r

\* A cancelled success is reported as aborted.
LEMMA SettleKeeps == ASSUME CallInv, NEW c \in Calls, SettleReview(c)  PROVE CallInv'
<1> DEFINE r == call[c]
<1>1. r \in CallType /\ CallOK(r) /\ r.pc = "settle"  BY OneCall DEF SettleReview
<1>2. UNCHANGED <<rt, tool, bodies>>  BY DEF SettleReview
<1>3. PICK n : /\ Becomes(c, n)
               /\ n = [[r EXCEPT !.held = IF r.cancelled /\ ~Failed(@) THEN Aborted(r) ELSE @]
                       EXCEPT !.pc = "finish"]
  BY DEF SettleReview, Goes
<1> HIDE DEF r
<1>4. Follows(r, n)  BY <1>1, <1>3, SettledReviewRecord
<1> QED  BY <1>1, <1>2, <1>3, <1>4, TaskStep DEF r

\* The result is retained.
LEMMA FinishKeeps == ASSUME CallInv, NEW c \in Calls, FinishResult(c)  PROVE CallInv'
<1> DEFINE r == call[c]
<1>1. r \in CallType /\ CallOK(r) /\ r.pc = "finish"  BY OneCall DEF FinishResult
<1>2. UNCHANGED <<rt, tool, bodies>>  BY DEF FinishResult
<1>3. PICK o \in {r.held, "failed"} :
         Becomes(c, [[r EXCEPT !.result = o, !.phase = "completed"] EXCEPT !.pc = "done"])
  BY DEF FinishResult, Goes
<1>4. PICK n : /\ Becomes(c, n)
               /\ n = [[r EXCEPT !.result = o, !.phase = "completed"] EXCEPT !.pc = "done"]
  BY <1>3
<1> HIDE DEF r
<1>5. Follows(r, n)  BY <1>1, <1>3, <1>4, FinishedRecord
<1> QED  BY <1>1, <1>2, <1>4, <1>5, TaskStep DEF r

----------------------------------------------------------------------------
(* The requests of the clients, and their answers.                         *)

\* What CallFits says of a call whose request changes, the Actors unchanged.
LEMMA IdleFits ==
  ASSUME CallInv, NEW c \in Calls, NEW n, Becomes(c, n), UNCHANGED <<tool, bodies>>,
         rt'.life = rt.life, rt'.request = rt.request,
         call[c].pc # "waiting", n.pc # "waiting",
         c \in bodies => n.registered /\ n.result = "none" /\ n.failure,
         rt.life # "stopped" =>
           /\ n.rev # 0 => n.rev = call[c].rev
           /\ n.op \in {"prepare", "finalize"} => rt'.policy = c
           /\ n.registered => call[c].registered \/ (rt.request = "none" /\ rt.life = "open")
           /\ n.registered /\ ~call[c].registered => n.rev = 0
  PROVE  CallFits(c)'
<1>1. call'[c] = n  BY DEF Becomes, CallInv
<1>2. CallFits(c)  BY DEF CallInv
<1> QED  BY <1>1, <1>2 DEF CallFits

\* One call is prepared at a time, and only while nothing else goes on.
LEMMA PrepareKeeps == ASSUME CallInv, NEW c \in Calls, PrepareCall(c)  PROVE CallInv'
<1> DEFINE r == call[c]
<1>1. r \in CallType /\ CallOK(r) /\ CallFits(c)  BY OneCall
<1>2. /\ ~r.registered /\ r.result = "none" /\ rt.life = "open" /\ rt.request = "none"
      /\ rt.policy = NoCall /\ rt' = [rt EXCEPT !.policy = c] /\ UNCHANGED <<tool, bodies>>
  BY DEF PrepareCall
<1>3. PICK n : /\ Becomes(c, n)
               /\ n = [[r EXCEPT !.registered = TRUE, !.op = "prepare"] EXCEPT !.pc = "describe"]
  BY DEF PrepareCall, Goes
<1> HIDE DEF r
<1>4. n \in CallType /\ CallOK(n)  BY <1>1, <1>2, <1>3, PreparedRecord
<1>5. n.registered /\ n.op = "prepare" /\ n.pc = "describe" /\ n.rev = r.rev /\ r.rev = 0
      /\ r.pc # "waiting"
  BY <1>1, <1>2, <1>3 DEF CallType, CallOK, TaskOK, DecisionOK, Executing
<1>6. c \notin bodies  BY <1>1, <1>2 DEF CallFits, r
<1>7. RuntimeOK'  BY <1>2 DEF CallInv, RuntimeOK
<1>8. rt'.life = rt.life /\ rt'.request = rt.request /\ rt'.policy = c
  BY <1>2 DEF CallInv, RuntimeOK
<1>9. CallFits(c)'  BY <1>2, <1>3, <1>5, <1>6, <1>8, IdleFits DEF r
<1>10. ASSUME NEW d \in Calls \ {c}  PROVE CallFits(d)'
  <2>1. call'[d] = call[d] /\ CallFits(d)  BY <1>3 DEF Becomes, CallInv
  <2>2. call[d].op \notin {"prepare", "finalize"}
    BY <1>2, <2>1, BoundsAssumption DEF CallFits
  <2> QED  BY <1>2, <1>8, <2>1, <2>2 DEF CallFits
<1> QED  BY <1>3, <1>4, <1>7, <1>9, <1>10, OneMoves


\* A prepared call is dispatched on request.
LEMMA DispatchKeeps == ASSUME CallInv, NEW c \in Calls, DispatchCall(c)  PROVE CallInv'
<1> DEFINE r == call[c]
<1>1. r \in CallType /\ CallOK(r) /\ CallFits(c)  BY OneCall
<1>2. /\ r.registered /\ r.op = "none" /\ r.business /\ ~r.failure
      /\ UNCHANGED <<rt, tool, bodies>>
  BY DEF DispatchCall, Idle
<1>3. PICK n : Becomes(c, n) /\ n = [[r EXCEPT !.op = "dispatch"] EXCEPT !.pc = "begin"]
  BY DEF DispatchCall, Goes
<1> HIDE DEF r
<1>4. n \in CallType /\ CallOK(n)  BY <1>1, <1>2, <1>3, RequestedRecord
<1>5. n.registered = r.registered /\ n.op = "dispatch" /\ n.pc = "begin" /\ n.rev = r.rev
      /\ r.pc # "waiting"
  BY <1>1, <1>2, <1>3 DEF CallType, CallOK, TaskOK, Executing
<1>6. c \notin bodies  BY <1>1, <1>2, <1>5 DEF CallFits, r
<1>7. CallFits(c)'  BY <1>1, <1>2, <1>3, <1>5, <1>6, IdleFits DEF r
<1> QED  BY <1>2, <1>3, <1>4, <1>7, OthersFit, RuntimeStays, OneMoves

\* A call is finalized alone, like it is prepared.
LEMMA FinalizeKeeps == ASSUME CallInv, NEW c \in Calls, FinalizeCall(c)  PROVE CallInv'
<1> DEFINE r == call[c]
<1>1. r \in CallType /\ CallOK(r) /\ CallFits(c)  BY OneCall
<1>2. /\ r.registered /\ r.op = "none" /\ r.business /\ ~r.failure /\ r.result = "none"
      /\ rt.life # "stopped" /\ rt.policy = NoCall
      /\ rt' = [rt EXCEPT !.policy = c] /\ UNCHANGED <<tool, bodies>>
  BY DEF FinalizeCall, Idle
<1>3. PICK n : Becomes(c, n) /\ n = [[r EXCEPT !.op = "finalize"] EXCEPT !.pc = "begin"]
  BY DEF FinalizeCall, Goes
<1> HIDE DEF r
<1>4. n \in CallType /\ CallOK(n)  BY <1>1, <1>2, <1>3, RequestedRecord
<1>5. n.registered = r.registered /\ n.op = "finalize" /\ n.pc = "begin" /\ n.rev = r.rev
      /\ r.pc # "waiting"
  BY <1>1, <1>2, <1>3 DEF CallType, CallOK, TaskOK, Executing
<1>6. c \notin bodies  BY <1>1, <1>2, <1>5 DEF CallFits, r
<1>7. RuntimeOK'  BY <1>2 DEF CallInv, RuntimeOK
<1>8. rt'.life = rt.life /\ rt'.request = rt.request /\ rt'.policy = c
  BY <1>2 DEF CallInv, RuntimeOK
<1>9. CallFits(c)'  BY <1>2, <1>3, <1>5, <1>6, <1>8, IdleFits DEF r
<1>10. ASSUME NEW d \in Calls \ {c}  PROVE CallFits(d)'
  <2>1. call'[d] = call[d] /\ CallFits(d)  BY <1>3 DEF Becomes, CallInv
  <2>2. call[d].op \notin {"prepare", "finalize"}
    BY <1>2, <2>1, BoundsAssumption DEF CallFits
  <2> QED  BY <1>2, <1>8, <2>1, <2>2 DEF CallFits
<1> QED  BY <1>3, <1>4, <1>7, <1>9, <1>10, OneMoves

\* A cancelled call is otherwise as it was.
LEMMA CancelKeeps == ASSUME CallInv, NEW c \in Calls, CancelCall(c)  PROVE CallInv'
<1> DEFINE r == call[c]
<1>1. r \in CallType /\ CallOK(r) /\ CallFits(c)  BY OneCall
<1>2. UNCHANGED <<rt, tool, bodies>>  BY DEF CancelCall
<1>3. PICK n : Becomes(c, n) /\ n = [r EXCEPT !.cancelled = TRUE]  BY DEF CancelCall
<1>4. n \in CallType /\ CallOK(n)
  <2> HIDE DEF r
  <2> QED  BY <1>1, <1>3, CancelledRecord
<1>5. n.registered = r.registered /\ n.op = r.op /\ n.pc = r.pc /\ n.rev = r.rev
      /\ n.result = r.result /\ n.failure = r.failure
  <2> HIDE DEF r
  <2> QED  BY <1>1, <1>3 DEF CallType
<1>6. call'[c] = n  BY <1>3 DEF Becomes, CallInv
<1>7. CallFits(c)'  BY <1>1, <1>2, <1>5, <1>6 DEF CallFits
<1> QED  BY <1>2, <1>3, <1>4, <1>7, OthersFit, RuntimeStays, OneMoves

\* A call is released when no body of it may run any more.
LEMMA ReleaseKeeps == ASSUME CallInv, NEW c \in Calls, ReleaseCall(c)  PROVE CallInv'
<1> DEFINE r == call[c]
<1>1. r \in CallType /\ CallOK(r) /\ CallFits(c)  BY OneCall
<1>2. /\ r.registered /\ r.op = "none"
      /\ r.business => ~r.failure /\ r.result # "none"
      /\ UNCHANGED <<rt, tool, bodies>>
  BY DEF ReleaseCall
<1>3. PICK n : /\ Becomes(c, n)
               /\ IF r.business
                  THEN n = [Fresh EXCEPT !.phase = r.phase, !.result = r.result, !.ran = r.ran,
                              !.asked = r.asked, !.allowed = r.allowed, !.refused = r.refused]
                  ELSE n = Fresh
  BY DEF ReleaseCall
<1> HIDE DEF r
<1>4. n \in CallType /\ CallOK(n)
  <2>1. CASE r.business  BY <1>1, <1>2, <1>3, <2>1, ReleasedRecord
  <2>2. CASE ~r.business  BY <1>3, <2>2, FreshRecord
  <2> QED  BY <2>1, <2>2
<1>5. ~n.registered /\ n.op = "none" /\ n.pc = "idle" /\ n.rev = 0 /\ r.pc # "waiting"
  <2>1. r.pc # "waiting"  BY <1>1, <1>2 DEF CallOK, TaskOK
  <2>2. CASE r.business  BY <1>3, <2>1, <2>2 DEF Fresh
  <2>3. CASE ~r.business  BY <1>3, <2>1, <2>3 DEF Fresh
  <2> QED  BY <2>2, <2>3
<1>6. c \notin bodies
  <2>1. CASE r.business  BY <1>1, <1>2, <1>5, <2>1 DEF CallFits, r
  <2>2. CASE ~r.business
    <3>1. r.stage = "none"  BY <1>1, <1>2, <2>2 DEF CallOK, DecisionOK
    <3>2. ~r.failure  BY <1>1, <1>2, <2>2, <3>1 DEF CallOK, TaskOK, DecisionOK, RunOK, OutcomeOK
    <3> QED  BY <1>1, <1>5, <3>2 DEF CallFits, r
  <2> QED  BY <2>1, <2>2
<1>7. CallFits(c)'  BY <1>1, <1>2, <1>3, <1>5, <1>6, IdleFits DEF r
<1> QED  BY <1>2, <1>3, <1>4, <1>7, OthersFit, RuntimeStays, OneMoves

\* The end of a task frees the policies, and keeps the contracts it was given.
LEMMA CompletedKeeps == ASSUME CallInv, NEW c \in Calls, CallCompleted(c)  PROVE CallInv'
<1> DEFINE r == call[c]
<1>1. r \in CallType /\ CallOK(r) /\ CallFits(c) /\ r.pc = "done"
  BY OneCall DEF CallCompleted
<1>2. /\ rt' = [rt EXCEPT !.policy = IF @ = c THEN NoCall ELSE @,
                          !.scheduler = IF r.op = "prepare" /\ r.rev # 0 THEN r.rev ELSE @]
      /\ UNCHANGED <<tool, bodies>>
  BY DEF CallCompleted
<1>3. PICK n : /\ Becomes(c, n)
               /\ n = [[r EXCEPT !.business = @ \/ (r.op = "prepare" /\ r.stage # "none"),
                                 !.op = "none"] EXCEPT !.pc = "idle"]
  BY DEF CallCompleted, Goes
<1>4. n \in CallType /\ CallOK(n)
  <2> HIDE DEF r
  <2> QED  BY <1>1, <1>3, CompletedRecord
<1>5. n.registered = r.registered /\ n.op = "none" /\ n.pc = "idle" /\ n.rev = r.rev
      /\ n.result = r.result /\ n.failure = r.failure /\ r.registered
  <2> HIDE DEF r
  <2> QED  BY <1>1, <1>3 DEF CallType, CallOK, TaskOK
<1>6. rt'.life = rt.life /\ rt'.request = rt.request
      /\ (rt'.policy = rt.policy \/ rt.policy = c)
      /\ rt'.scheduler = (IF r.op = "prepare" /\ r.rev # 0 THEN r.rev ELSE rt.scheduler)
  BY <1>2 DEF CallInv, RuntimeOK
<1>7. rt.life # "stopped" => rt.request = "none" /\ (r.rev # 0 => r.rev = tool.rev)
  BY <1>1, <1>5 DEF CallFits, CallInv, RuntimeOK
<1>8. RuntimeOK'
  <2>1. rt' \in [life : {"open", "closed", "stopped"}, request : {"none", "refresh", "close"},
                 policy : Calls \cup {NoCall}, scheduler : Nat, settled : BOOLEAN]
    <3>1. r.rev \in Nat  BY <1>1 DEF CallType
    <3> HIDE DEF r
    <3> QED  BY <1>2, <3>1 DEF CallInv, RuntimeOK
  <2> QED  BY <1>2, <1>6, <1>7, <2>1 DEF CallInv, RuntimeOK
<1>9. CallFits(c)'
  <2>1. c \in bodies => n.failure /\ n.result = "none"  BY <1>1, <1>5 DEF CallFits
  <2> QED  BY <1>1, <1>2, <1>3, <1>5, <1>6, <2>1, IdleFits
<1>10. ASSUME NEW d \in Calls \ {c}  PROVE CallFits(d)'
  <2>1. call'[d] = call[d] /\ CallFits(d)  BY <1>3 DEF Becomes, CallInv
  <2> QED  BY <1>2, <1>6, <2>1 DEF CallFits
<1> QED  BY <1>3, <1>4, <1>8, <1>9, <1>10, OneMoves


----------------------------------------------------------------------------
(* The Actors.                                                             *)

\* BodyReturns answers the call that waits for it.
LEMMA BodyReturnedRecord ==
  ASSUME NEW r \in CallType, CallOK(r), r.pc = "waiting", NEW o \in {"success", "failed"},
         NEW n, n = [[r EXCEPT !.held = o] EXCEPT !.pc = "returned"]
  PROVE  Follows(r, n)
<1> USE DEF CallType, Preparing, Executing, Finalizing
<1>1. o \in Outcomes  BY Values
<1>2. n \in CallType  BY <1>1, Values
<1>3. TaskOK(n)  BY DEF CallOK, TaskOK, DecisionOK, OutcomeOK
<1>4. DecisionOK(n)  BY DEF CallOK, TaskOK, DecisionOK, RunOK, OutcomeOK
<1>5. RunOK(n)  BY DEF CallOK, TaskOK, DecisionOK, RunOK, OutcomeOK
<1>6. OutcomeOK(n)  BY DEF CallOK, TaskOK, DecisionOK, RunOK, OutcomeOK
<1>7. n.op = r.op /\ n.registered = r.registered /\ n.pc # "waiting" /\ n.rev = r.rev
  OBVIOUS
<1> QED  BY <1>2, <1>3, <1>4, <1>5, <1>6, <1>7 DEF CallOK, Follows

\* A body that returns leaves its Tool, whether anyone still waits for it.
LEMMA BodyReturnsKeeps == ASSUME CallInv, NEW c \in Calls, BodyReturns(c)  PROVE CallInv'
<1> DEFINE r == call[c]
<1>1. r \in CallType /\ CallOK(r) /\ CallFits(c)  BY OneCall
<1>2. /\ bodies' = bodies \ {c} /\ tool' = [tool EXCEPT !.calls = @ \ {c}] /\ rt' = rt
      /\ tool'.rev = tool.rev /\ tool'.mutating = tool.mutating
      /\ tool'.calls = tool.calls \ {c}
  BY DEF BodyReturns, CallInv, RuntimeOK
<1>3. RuntimeOK'
  <2>1. tool' \in [rev : Nat \ {0}, mutating : BOOLEAN, calls : SUBSET Calls, stopped : BOOLEAN]
    BY <1>2 DEF CallInv, RuntimeOK
  <2> QED  BY <1>2, <2>1 DEF CallInv, RuntimeOK
<1>4. ASSUME NEW d \in Calls \ {c}, call'[d] = call[d]  PROVE CallFits(d)'
  <2>1. CallFits(d)  BY DEF CallInv
  <2> QED  BY <1>2, <1>4, <2>1 DEF CallFits
<1>5. CASE r.pc = "waiting"
  <2>1. c \in tool.calls  BY <1>1, <1>5 DEF CallFits
  <2>2. PICK o \in {"success", "failed"} :
           Becomes(c, [[r EXCEPT !.held = o] EXCEPT !.pc = "returned"])
    BY <1>5, <2>1 DEF BodyReturns, Goes
  <2>3. PICK n : Becomes(c, n) /\ n = [[r EXCEPT !.held = o] EXCEPT !.pc = "returned"]
    BY <2>2
  <2>4. Follows(r, n)
    <3> HIDE DEF r
    <3> QED  BY <1>1, <1>5, <2>3, BodyReturnedRecord
  <2>5. call' = [call EXCEPT ![c] = n]  BY <2>3 DEF Becomes
  <2>6. call'[c] = n /\ \A d \in Calls \ {c} : call'[d] = call[d]  BY <2>5 DEF CallInv
  <2>7. CallFits(c)'  BY <1>1, <1>2, <2>4, <2>6 DEF CallFits, Follows
  <2> QED  BY <1>3, <1>4, <2>3, <2>4, <2>6, <2>7, OneMoves DEF Follows
<1>6. CASE r.pc # "waiting"
  <2>1. call' = call  BY <1>6 DEF BodyReturns
  <2>2. CallFits(c)'  BY <1>1, <1>2, <1>6, <2>1 DEF CallFits
  <2>3. \A d \in Calls : CallFits(d)'  BY <1>4, <2>1, <2>2
  <2>4. \A d \in Calls : CallOK(call[d])'
    BY <2>1 DEF CallInv, CallOK, TaskOK, DecisionOK, RunOK, OutcomeOK
  <2> QED  BY <1>3, <2>1, <2>3, <2>4 DEF CallInv
<1> QED  BY <1>5, <1>6

\* A ToolActor that stops leaves its calls unconfirmed, their bodies running.
LEMMA ToolStopsKeeps == ASSUME CallInv, ToolStops  PROVE CallInv'
<1>1. /\ tool' = [tool EXCEPT !.stopped = TRUE, !.calls = {}] /\ UNCHANGED <<rt, bodies>>
      /\ tool'.rev = tool.rev /\ tool'.mutating = tool.mutating /\ tool'.calls = {}
  BY DEF ToolStops, CallInv, RuntimeOK
<1>2. RuntimeOK'
  <2>1. tool' \in [rev : Nat \ {0}, mutating : BOOLEAN, calls : SUBSET Calls, stopped : BOOLEAN]
    BY <1>1 DEF CallInv, RuntimeOK
  <2> QED  BY <1>1, <2>1 DEF CallInv, RuntimeOK
<1>3. ASSUME NEW c \in Calls
      PROVE  call'[c] \in CallType /\ CallOK(call[c])' /\ CallFits(c)'
  <2> DEFINE r == call[c]  n == call'[c]
  <2>1. r \in CallType /\ CallOK(r) /\ CallFits(c)  BY OneCall
  <2>2. CASE r.pc = "waiting"
    <3>1. c \in tool.calls  BY <2>1, <2>2 DEF CallFits
    <3>2. n = [[r EXCEPT !.failure = TRUE,
                         !.phase = IF @ = "dispatching" THEN "preparedForPost" ELSE @]
               EXCEPT !.pc = "done"]
      BY <2>2, <3>1 DEF ToolStops, Unconfirmed
    <3>3. Follows(r, n) /\ n.failure /\ n.result = r.result
      <4> HIDE DEF r, n
      <4>1. Follows(r, n)  BY <2>1, <2>2, <3>2, UnconfirmedRecord
      <4> QED  BY <2>1, <3>2, <4>1 DEF CallType
    <3>4. CallFits(c)'  BY <1>1, <2>1, <3>3 DEF CallFits, Follows
    <3>5. CallOK(call[c])'
      BY <3>3 DEF Follows, CallOK, TaskOK, DecisionOK, RunOK, OutcomeOK
    <3> QED  BY <3>3, <3>4, <3>5 DEF Follows
  <2>3. CASE r.pc # "waiting"
    <3>1. n = r  BY <2>3 DEF ToolStops
    <3>2. CallFits(c)'  BY <1>1, <2>1, <2>3, <3>1 DEF CallFits
    <3>3. CallOK(call[c])'
      BY <2>1, <3>1 DEF CallOK, TaskOK, DecisionOK, RunOK, OutcomeOK
    <3> QED  BY <2>1, <3>1, <3>2, <3>3
  <2> QED  BY <2>2, <2>3
<1>4. call' \in [Calls -> CallType]
  <2>1. call' = [c \in Calls |-> call'[c]]  BY DEF ToolStops
  <2> QED  BY <1>3, <2>1
<1> QED  BY <1>2, <1>3, <1>4 DEF CallInv

\* A Runtime that stops cancels what it retained.
LEMMA RuntimeStopsKeeps == ASSUME CallInv, RuntimeStops  PROVE CallInv'
<1>1. /\ rt' = [rt EXCEPT !.life = "stopped", !.request = "none", !.policy = NoCall]
      /\ rt'.life = "stopped" /\ UNCHANGED <<tool, bodies>>
  BY DEF RuntimeStops, CallInv, RuntimeOK
<1>2. RuntimeOK'  BY <1>1 DEF CallInv, RuntimeOK
<1>3. ASSUME NEW c \in Calls
      PROVE  call'[c] \in CallType /\ CallOK(call[c])' /\ CallFits(c)'
  <2> DEFINE r == call[c]  n == call'[c]
  <2>1. r \in CallType /\ CallOK(r) /\ CallFits(c)  BY OneCall
  <2>2. n = [r EXCEPT !.cancelled = TRUE] \/ n = r  BY DEF RuntimeStops
  <2>3. n \in CallType /\ CallOK(n) /\ n.registered = r.registered /\ n.pc = r.pc
        /\ n.result = r.result /\ n.failure = r.failure
    <3> HIDE DEF r, n
    <3>1. n \in CallType /\ CallOK(n)  BY <2>1, <2>2, CancelledRecord
    <3> QED  BY <2>1, <2>2, <3>1 DEF CallType
  <2>4. CallFits(c)'  BY <1>1, <2>1, <2>3 DEF CallFits
  <2>5. CallOK(call[c])'  BY <2>3 DEF CallOK, TaskOK, DecisionOK, RunOK, OutcomeOK
  <2> QED  BY <2>3, <2>4, <2>5
<1>4. call' \in [Calls -> CallType]
  <2>1. call' = [c \in Calls |-> call'[c]]  BY DEF RuntimeStops
  <2> QED  BY <1>3, <2>1
<1> QED  BY <1>2, <1>3, <1>4 DEF CallInv

\* The Runtime configures or closes only when it retains no call.
LEMMA OperationKeeps ==
  ASSUME CallInv, RefreshConfiguration \/ CloseRuntime \/ BeginMutation \/ OperationEnds
                  \/ EndMutation
  PROVE  CallInv'
<1>1. call' = call /\ bodies' = bodies /\ tool'.calls = tool.calls
  BY DEF RefreshConfiguration, CloseRuntime, BeginMutation, OperationEnds, EndMutation,
         CallInv, RuntimeOK
<1>2. rt.life # "stopped" /\ (rt.request # "none" \/ rt.life = "closed") =>
        \A c \in Calls : ~call[c].registered
  BY DEF CallInv, CallFits
<1>3. /\ rt'.life = "stopped" <=> rt.life = "stopped"
      /\ rt.life # "stopped" =>
           \/ tool'.rev = tool.rev /\ rt'.policy = rt.policy
           \/ \A c \in Calls : ~call[c].registered
  BY <1>2 DEF RefreshConfiguration, CloseRuntime, BeginMutation, OperationEnds, EndMutation,
         CallInv, RuntimeOK
<1>4. rt'.request # "none" \/ rt'.life = "closed" =>
        rt'.life = "stopped" \/ \A c \in Calls : ~call[c].registered
  BY <1>2 DEF RefreshConfiguration, CloseRuntime, BeginMutation, OperationEnds, EndMutation,
         CallInv, RuntimeOK, Retained
<1>5. ASSUME NEW c \in Calls  PROVE CallFits(c)'
  <2>1. CallFits(c) /\ CallOK(call[c])  BY DEF CallInv
  <2>2. ~call[c].registered => call[c].op = "none"  BY <2>1 DEF CallOK, DecisionOK
  <2> QED  BY <1>1, <1>3, <1>4, <2>1, <2>2 DEF CallFits
<1>6. RuntimeOK'
  <2>1. RuntimeOK  BY DEF CallInv
  <2>2. CASE RefreshConfiguration  BY <2>1, <2>2 DEF RefreshConfiguration, RuntimeOK
  <2>3. CASE CloseRuntime  BY <2>1, <2>3 DEF CloseRuntime, RuntimeOK
  <2>4. CASE BeginMutation  BY <2>1, <2>4 DEF BeginMutation, RuntimeOK
  <2>5. CASE OperationEnds  BY <2>1, <2>5 DEF OperationEnds, RuntimeOK
  <2>6. CASE EndMutation
    <3>1. PICK rev \in {tool.rev, tool.rev + 1} :
             /\ rt.request = "close" => rev = tool.rev
             /\ tool' = [tool EXCEPT !.mutating = FALSE, !.rev = rev]
      BY <2>6 DEF EndMutation
    <3>2. rev \in Nat \ {0}  BY <2>1 DEF RuntimeOK
    <3>3. PICK settled \in BOOLEAN :
             rt' = [rt EXCEPT !.request = "none", !.settled = settled /\ rt.request # "close",
                              !.life = IF rt.request = "close" /\ settled THEN "closed" ELSE @]
      BY <2>6 DEF EndMutation
    <3> DEFINE s == settled /\ rt.request # "close"
               l == IF rt.request = "close" /\ settled THEN "closed" ELSE rt.life
    <3>4. s \in BOOLEAN /\ l \in {"open", "closed", "stopped"}
          /\ (l = "stopped" <=> rt.life = "stopped")
      BY <2>1 DEF RuntimeOK
    <3>5. rt' = [rt EXCEPT !.request = "none", !.settled = s, !.life = l]  BY <3>3
    <3>6. tool.mutating /\ bodies' = bodies  BY <2>6 DEF EndMutation
    <3> HIDE DEF s, l
    <3>7. tool' \in [rev : Nat \ {0}, mutating : BOOLEAN, calls : SUBSET Calls, stopped : BOOLEAN]
          /\ tool'.rev = rev /\ ~tool'.mutating
      BY <2>1, <3>1, <3>2 DEF RuntimeOK
    <3>8. rt' \in [life : {"open", "closed", "stopped"}, request : {"none", "refresh", "close"},
                   policy : Calls \cup {NoCall}, scheduler : Nat, settled : BOOLEAN]
          /\ rt'.life = l /\ rt'.scheduler = rt.scheduler /\ rt'.request = "none"
      BY <2>1, <3>4, <3>5 DEF RuntimeOK
    <3> QED  BY <2>1, <3>1, <3>4, <3>6, <3>7, <3>8 DEF RuntimeOK
  <2> QED  BY <2>2, <2>3, <2>4, <2>5, <2>6
<1>7. \A c \in Calls : CallOK(call[c])'
  BY <1>1 DEF CallInv, CallOK, TaskOK, DecisionOK, RunOK, OutcomeOK
<1> QED  BY <1>1, <1>5, <1>6, <1>7 DEF CallInv

----------------------------------------------------------------------------
(* The theorems.                                                           *)

\* Every step of the specification keeps the invariant.
LEMMA CallInductive == CallInv /\ [Next]_vars => CallInv'
<1> SUFFICES ASSUME CallInv, [Next]_vars  PROVE CallInv'  OBVIOUS
<1>1. CASE UNCHANGED vars
  BY <1>1 DEF vars, CallInv, RuntimeOK, CallOK, CallFits, TaskOK, DecisionOK, RunOK, OutcomeOK
<1>2. CASE Next
  <2>1. CASE \E c \in Calls : PrepareCall(c) \/ CancelCall(c) \/ ReleaseCall(c)
    BY <2>1, PrepareKeeps, CancelKeeps, ReleaseKeeps
  <2>2. CASE \E c \in Calls : TaskProceeds(c)
    BY <2>2, DescribeKeeps, EvaluateKeeps, AdmitKeeps, RequestApprovalKeeps, AnswersKeep,
       BeginDispatchKeeps, ExecuteBodyKeeps, FindToolKeeps, ExecuteKeeps, DispatchReturnsKeeps,
       BeginFinalizeKeeps, ReviewKeeps, SettleKeeps, FinishKeeps, CompletedKeeps
       DEF TaskProceeds
  <2>3. CASE \E c \in Calls : BodyReturns(c)  BY <2>3, BodyReturnsKeeps
  <2>4. CASE \E c \in Calls : DispatchCall(c) \/ FinalizeCall(c)
    BY <2>4, DispatchKeeps, FinalizeKeeps
  <2>5. CASE RefreshConfiguration \/ CloseRuntime \/ BeginMutation \/ EndMutation
             \/ OperationEnds
    BY <2>5, OperationKeeps
  <2>6. CASE ToolStops \/ RuntimeStops  BY <2>6, ToolStopsKeeps, RuntimeStopsKeeps
  <2> QED  BY <1>2, <2>1, <2>2, <2>3, <2>4, <2>5, <2>6 DEF Next, Others
<1> QED  BY <1>1, <1>2

\* A Runtime starts with fresh calls.
LEMMA CallInitial == Init => CallInv
<1> SUFFICES ASSUME Init  PROVE CallInv  OBVIOUS
<1>1. RuntimeOK  BY DEF Init, RuntimeOK
<1>2. call \in [Calls -> CallType] /\ \A c \in Calls : CallOK(call[c])
  BY FreshRecord DEF Init
<1>3. \A c \in Calls : CallFits(c)  BY DEF Init, CallFits, Fresh
<1> QED  BY <1>1, <1>2, <1>3 DEF CallInv

\* The invariant holds in every state of every behaviour.
THEOREM CallInvariance == Spec => []CallInv
<1>1. Init => CallInv  BY CallInitial
<1>2. CallInv /\ [Next]_vars => CallInv'  BY CallInductive
<1> QED  BY <1>1, <1>2, PTL DEF Spec

\* However often its requests are repeated, cancelled or lost, a call runs at
\* most once, against the revision that was reviewed, only if nothing denied
\* it, and no body is left when the Runtime configures or closes.
THEOREM CallsRunOnceApproved == Spec => []RunsOnceApproved
<1>1. CallInv => RunsOnceApproved
  <2> SUFFICES ASSUME CallInv  PROVE RunsOnceApproved  OBVIOUS
  <2>1. ASSUME NEW c \in Calls
        PROVE  call[c] \in CallType /\ CallOK(call[c]) /\ CallFits(c)
    BY OneCall
  <2>2. TypeOK
    BY <2>1 DEF TypeOK, CallInv, RuntimeOK, CallFits, CallOK, TaskOK, RunOK, OutcomeOK, Executing
  <2>3. NothingRunsUnapproved  BY <2>1 DEF NothingRunsUnapproved, CallOK, RunOK
  <2>4. AtMostOnce  BY <2>1 DEF AtMostOnce, CallOK, DecisionOK, RunOK
  <2>5. RunsWhatWasReviewed
    BY <2>1 DEF RunsWhatWasReviewed, CallFits, CallOK, DecisionOK
  <2>6. PoliciesSerialized  BY <2>1 DEF PoliciesSerialized, CallFits
  <2>7. IdleWhileConfiguring
    <3> SUFFICES ASSUME rt.request # "none" \/ rt.life = "closed"
                 PROVE  bodies = {} /\ \A c \in Calls : call[c].pc = "idle"
      BY DEF IdleWhileConfiguring
    <3>1. rt.life # "stopped"  BY DEF CallInv, RuntimeOK
    <3>2. \A c \in Calls : ~call[c].registered  BY <2>1, <3>1 DEF CallFits
    <3> QED  BY <2>1, <3>2 DEF CallInv, RuntimeOK, CallFits, CallOK, TaskOK
  <2> QED  BY <2>2, <2>3, <2>4, <2>5, <2>6, <2>7 DEF RunsOnceApproved
<1> QED  BY <1>1, CallInvariance, PTL

\* A result tells the truth about the body: "not run" only for a call whose
\* body never started, success only for one that did, and no result while the
\* body may still be running.
THEOREM CallResultsAreTrue == Spec => []ResultsAreTrue
<1>1. CallInv => ResultsAreTrue
  <2> SUFFICES ASSUME CallInv  PROVE ResultsAreTrue  OBVIOUS
  <2>1. ASSUME NEW c \in Calls
        PROVE  call[c] \in CallType /\ CallOK(call[c]) /\ CallFits(c)
    BY OneCall
  <2>2. ResultIsTrue  BY <2>1 DEF ResultIsTrue, CallOK, OutcomeOK
  <2>3. ConfirmedBeforeResult
    BY <2>1 DEF ConfirmedBeforeResult, CallFits, CallOK, TaskOK
  <2> QED  BY <2>2, <2>3 DEF ResultsAreTrue
<1> QED  BY <1>1, CallInvariance, PTL

=============================================================================
