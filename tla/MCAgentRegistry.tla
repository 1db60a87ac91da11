--------------------------- MODULE MCAgentRegistry ---------------------------
(* A root p with a child k under two callers and a failure, and the root    *)
(* alone through replacements, a lost loop and a failure; two roots.        *)
EXTENDS AgentRegistry, TLC

CONSTANTS p, q, k

Family == (k :> p) @@ (p :> NoAgent)
Neighbours == (p :> NoAgent) @@ (q :> NoAgent)
OneChange == <<"old", "new">>
FamilySetting == [creations |-> 1, lost |-> 0, faults |-> 1, asks |-> Callers \X {p, k}]
AloneSetting == [creations |-> 2, lost |-> 1, faults |-> 1, asks |-> Callers \X {p}]
MCSettings == {FamilySetting, AloneSetting}
NeighbourSettings ==
  {[creations |-> 1, lost |-> 0, faults |-> 1, asks |-> Callers \X {p, q}]}
Symmetry == Permutations(Callers)
=============================================================================
