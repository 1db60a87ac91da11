------------------------------ MODULE MCProgress ------------------------------
(* What must eventually happen in an Agent's loop, its model requests and   *)
(* its Companion, each under the fairness its module states.  They share no *)
(* variable here, so a behaviour exercises one of them, chosen at the start.*)
EXTENDS ReactLoop, TLC

CONSTANTS m1, r1, Configs

MCSettings ==
  {[messages |-> {m1}, contexts |-> {}, decisions |-> {"enter", "reject"}, keep |-> BOOLEAN,
    steps |-> 2, calls |-> 1, faults |-> 0, commands |-> 1]}
MCNo == {FALSE}

ModelSettings ==
  {[requests |-> 1, attempts |-> 2, chunks |-> 1, faults |-> 1, timeouts |-> 0,
    cancels |-> 2, others |-> 0]}

StewardSetting(auto, parents, edits, notices, sends, faults, crashes) ==
  [auto |-> auto, parents |-> parents, edits |-> edits, notices |-> notices, sends |-> sends,
   faults |-> faults, crashes |-> crashes]
StewardSettings ==
  {StewardSetting(FALSE, 1, 3, 0, 0, 1, 0), StewardSetting(TRUE, 1, 1, 1, 0, 2, 0),
   StewardSetting(TRUE, 2, 1, 0, 1, 0, 1)}

VARIABLES part, agent, mail, calls, replies, surface, used,
          store, steward, entry, lives, slot, told, edits

Model == INSTANCE ModelCall WITH Settings <- ModelSettings, log <- surface, spent <- used
Companion == INSTANCE Steward WITH Settings <- StewardSettings, spent <- edits

modelVars == <<agent, mail, calls, replies, surface, used>>
companionVars == <<store, steward, entry, lives, slot, told, edits>>
partVars == <<part, vars, modelVars, companionVars>>

(* The parts that are not exercised stay in one initial state.              *)
PartInit ==
  /\ part \in {"loop", "model", "companion"}
  /\ Init /\ Model!Init /\ Companion!Init
  /\ part # "loop" => log = <<>>
  /\ part # "model" => surface = <<>>
  /\ part # "companion" => edits.of = StewardSetting(FALSE, 1, 3, 0, 0, 1, 0)

PartNext ==
  \/ part = "loop" /\ Next /\ UNCHANGED <<part, modelVars, companionVars>>
  \/ part = "model" /\ Model!Next /\ UNCHANGED <<part, vars, companionVars>>
  \/ part = "companion" /\ Companion!Next /\ UNCHANGED <<part, vars, modelVars>>

(* The Fairness of each module, for its part.                               *)
PartFairness ==
  /\ WF_vars(part = "loop" /\ Restore)
  /\ WF_vars(part = "loop" /\ Initialize)
  /\ WF_vars(part = "loop" /\ SessionAnswers)
  /\ WF_vars(part = "loop" /\ Deliveries)
  /\ WF_vars(part = "loop" /\ ExecutePending)
  /\ WF_vars(part = "loop" /\ WorkerAcknowledges)
  /\ WF_vars(part = "loop" /\ CompleteCancel)
  /\ WF_vars(part = "loop" /\ FinishMaintenance)
  /\ WF_modelVars(part = "model" /\ Model!SessionAnswers)
  /\ WF_modelVars(part = "model" /\ Model!NothingToClose)
  /\ WF_modelVars(part = "model" /\ Model!RecoveryResolved)
  /\ WF_modelVars(part = "model" /\ Model!RetryClose)
  /\ WF_modelVars(part = "model" /\ Model!WorkerReceives)
  /\ WF_modelVars(part = "model" /\ Model!ReplyArrives)
  /\ WF_modelVars(part = "model" /\ Model!TaskCompletes)
  /\ WF_companionVars(part = "companion" /\ Companion!Tasks)
  /\ WF_companionVars(part = "companion" /\ Companion!Results)
  /\ WF_companionVars(part = "companion" /\ Companion!Stop /\ steward.state = "shuttingDown")

PartSpec == PartInit /\ [][PartNext]_partVars /\ PartFairness

(* A request, its cancellation and its release end (ModelCall.tla).         *)
RequestProgresses == Model!RequestProgresses

(* Relationships are durable before they act, and callers and children are  *)
(* not forgotten (Steward.tla).                                             *)
CompanionsAreKept ==
  part = "companion" => Companion!RelationshipsAreSound /\ Companion!ChildrenAreOwned

(* Every change and close of a Companion ends (Steward.tla).                *)
StewardSettles == Companion!StewardSettles
=============================================================================
