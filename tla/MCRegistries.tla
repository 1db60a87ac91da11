----------------------------- MODULE MCRegistries -----------------------------
(* The directory of Sessions, and what the directory of Agents must         *)
(* eventually do.  A behaviour exercises one of the two, chosen at the      *)
(* start.                                                                   *)
EXTENDS SessionRegistry, TLC

CONSTANTS p, k, NoAgent, Askers

-----------------------------------------------------------------------------
\* A root Agent and its child, one lifetime each, one failure.
Family == (k :> p) @@ (p :> NoAgent)
AgentSettings == {[creations |-> 1, lost |-> 0, faults |-> 1, asks |-> Askers \X {p, k}]}

VARIABLES part, reg, saved, notices, held, loops, used, asked

Agents == INSTANCE AgentRegistry WITH
            Agents <- {p, k}, Parent <- Family, Callers <- Askers, Commands <- FALSE,
            Capabilities <- 0, Configured <- <<"old", "new">>, Settings <- AgentSettings,
            spent <- used

agentVars == <<reg, saved, notices, held, loops, used, asked>>
partVars == <<part, vars, agentVars>>

PartInit == part \in {"agents", "sessions"} /\ Init /\ Agents!Init

PartNext ==
  \/ part = "sessions" /\ Next /\ UNCHANGED <<part, agentVars>>
  \/ part = "agents" /\ Agents!Next /\ UNCHANGED <<part, vars>>

\* SessionRegistry!Fairness and that of AgentRegistry!FairSpec, each for its part.
PartFairness ==
  /\ WF_vars(part = "sessions" /\ Answers)
  /\ WF_vars(part = "sessions" /\ Mailbox)
  /\ WF_vars(part = "sessions" /\ Session)
  /\ WF_vars(part = "sessions" /\ FinishResume)
  /\ WF_vars(part = "sessions" /\ WriteEnds)
  /\ WF_vars(part = "sessions" /\ Poison)
  /\ \A a \in {p, k} : /\ WF_agentVars(part = "agents" /\ Agents!Starts(a))
                       /\ WF_agentVars(part = "agents" /\ Agents!Closes(a))
                       /\ WF_agentVars(part = "agents" /\ Agents!Replaces(a))
                       /\ SF_agentVars(part = "agents" /\ Agents!AsksAgain(a))
  /\ \A c \in Askers : WF_agentVars(part = "agents" /\ (Agents!VerifyAnswers(c) \/ Agents!Verified(c)))
  /\ WF_agentVars(part = "agents" /\ Agents!ChangeNotice)

PartSpec == PartInit /\ [][PartNext]_partVars /\ PartFairness

\* Whoever waits for an Agent is answered, closes end and Settings take effect
\* (AgentRegistry.tla).
AgentsProgress == Agents!AgentsProgress
=============================================================================
