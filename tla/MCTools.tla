------------------------------- MODULE MCTools -------------------------------
(* The tools of one Agent: overlapping calls of one tool (ToolCall), the    *)
(* replacement of several tools (ToolReplacement), the Settings they are    *)
(* replaced for (UserSettings), and the tools of an MCP server              *)
(* (McpConnection).  They share no variable, so a behaviour exercises one   *)
(* of them, chosen at the start.                                            *)
EXTENDS ToolCall, TLC

CONSTANTS NumTools, Versions, MaxUpdates, MaxFailures, MaxTimeouts, MaxCancels

VARIABLES part, set, run, inst, actor, registry, open, used, disk, node, seen, edits,
          server, peers, conn, runtime, task, retry, calls, tries

Replacement == INSTANCE ToolReplacement WITH MaxFaults <- MaxFailures, spent <- used

Installed(agent, companion) ==
  ("agent" :> agent) @@ ("companion" :> companion) @@ ("provider" :> "x") @@ ("mcp" :> "none")
  @@ ("tool" :> "x")
Full == Installed("x", "named")
Bare == [Installed("none", "none") EXCEPT !["tool"] = "none"]
EditSetting(bases, groups, values, edited, starts, faults, closes) ==
  [bases |-> bases, groups |-> groups, values |-> values, edits |-> edited, starts |-> starts,
   faults |-> faults, closes |-> closes]
EditSettings ==
  <<EditSetting({Full, Bare}, {"agent", "companion", "provider"}, {"named"}, 2, 3, 0, 1),
   EditSetting({Bare}, {"mcp", "tool"}, {"x", "reserved"}, 2, 2, 1, 0),
   EditSetting({Full}, {"tool"}, {"y"}, 3, 2, 1, 1)>>

Saved == INSTANCE UserSettings WITH Owners <- {"p", "q"}, Settings <- EditSettings, used <- edits

ServerSetting(changes, ends, retries, refreshes, invoked, closes, rounds, lates, faults) ==
  [changes |-> changes, ends |-> ends, retries |-> retries, refreshes |-> refreshes,
   calls |-> invoked, closes |-> closes, rounds |-> rounds, lates |-> lates, faults |-> faults]
ServerSettings ==
  <<ServerSetting(1, 1, 1, 2, 1, 1, 0, 0, 0), ServerSetting(0, 1, 2, 1, 1, 1, 0, 0, 1),
    ServerSetting(1, 0, 1, 1, 1, 1, 1, 1, 0), ServerSetting(0, 1, 1, 1, 0, 2, 0, 1, 1)>>

Connected == INSTANCE McpConnection WITH Settings <- ServerSettings, used <- tries

Symmetry == Permutations(Calls) \cup Permutations(Versions)

replacementVars == <<set, run, inst, actor, registry, open, used>>
savedVars == <<disk, node, seen, edits>>
serverVars == <<server, peers, conn, runtime, task, retry, calls, tries>>
partVars == <<part, vars, replacementVars, savedVars, serverVars>>

PartInit ==
  /\ part \in {"call", "replacement", "settings", "server"}
  /\ Init /\ Replacement!Init /\ Saved!Init /\ Connected!Init
  /\ part # "settings" => edits.of = 1
  /\ part # "server" => tries.of = 1

PartNext ==
  \/ part = "call" /\ Next /\ UNCHANGED <<part, replacementVars, savedVars, serverVars>>
  \/ part = "replacement" /\ Replacement!Next /\ UNCHANGED <<part, vars, savedVars, serverVars>>
  \/ part = "settings" /\ Saved!Next /\ UNCHANGED <<part, vars, replacementVars, serverVars>>
  \/ part = "server" /\ Connected!Next /\ UNCHANGED <<part, vars, replacementVars, savedVars>>

PartSpec == PartInit /\ [][PartNext]_partVars

(* Every resource has an owner, a closed Runtime has none, and what an      *)
(* Agent may call is served, before, during and after an update             *)
(* (ToolReplacement.tla).                                                   *)
ToolsAreServed ==
  part = "replacement" => Replacement!ResourcesAreOwned /\ Replacement!ToolsServe

(* No edit is lost, and what was saved is what is answered, shown and       *)
(* published (UserSettings.tla).                                            *)
SettingsAreTrue == part = "settings" => Saved!SettingsAreTrue

(* A tool of an MCP server is called where it is offered, and nothing that  *)
(* was connected is forgotten (McpConnection.tla).                          *)
ConnectionsAreTrue == part = "server" => Connected!ConnectionsAreTrue
=============================================================================
