--------------------------- MODULE MCToolsLiveness ---------------------------
(* The same two components under the fairness each of them states; a        *)
(* behaviour exercises one, chosen at the start.                            *)
EXTENDS ToolReplacement, TLC

CONSTANTS Calls, NoCall, MaxChanges, MaxCallFaults

VARIABLES part, rt, call, tool, bodies, used

Execution == INSTANCE ToolCall WITH MaxFaults <- MaxCallFaults, spent <- used

callVars == <<rt, call, tool, bodies, used>>
partVars == <<part, vars, callVars>>

PartInit == part \in {"call", "replacement"} /\ Init /\ Execution!Init

PartNext ==
  \/ part = "call" /\ Execution!LoopNext /\ UNCHANGED <<part, vars>>
  \/ part = "replacement" /\ Next /\ UNCHANGED <<part, callVars>>

(* ToolCall!FairSpec and ToolReplacement!FairSpec, each for its part.       *)
PartFairness ==
  /\ WF_vars(part = "replacement" /\ TaskProceeds)
  /\ WF_vars(part = "replacement" /\ ToolCompletes)
  /\ WF_vars(part = "replacement" /\ RefreshConfiguration)
  /\ WF_vars(part = "replacement" /\ CloseRuntime /\ set.closing)
  /\ \A c \in Calls :
       /\ WF_callVars(part = "call" /\ Execution!TaskProceeds(c))
       /\ WF_callVars(part = "call" /\ Execution!BodyReturns(c))
       /\ WF_callVars(part = "call" /\ Execution!LoopDispatches(c))
       /\ SF_callVars(part = "call" /\ Execution!LoopFinalizes(c))
       /\ WF_callVars(part = "call" /\ Execution!ReleaseCall(c))

PartSpec == PartInit /\ [][PartNext]_partVars /\ PartFairness

(* A call the loop drives is released (ToolCall.tla), and a close that is   *)
(* asked for again succeeds (ToolReplacement.tla).                          *)
ToolsProgress == Execution!PreparedIsReleased /\ CloseEventuallyReleases
=============================================================================
