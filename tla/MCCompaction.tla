---------------------------- MODULE MCCompaction ----------------------------
(* One Session with a finished Turn, one Agent, one Compaction Grain.  Each *)
(* setting spends its budget on a few of the hazards at a time.  And what   *)
(* else a Step of the Agent asks for: its hooks (Hooks) and its prompt      *)
(* (SystemPrompt).  A behaviour exercises one of them.                      *)
EXTENDS Compaction

VARIABLES part, loop, call, hands, mail, log, used,
          layer, prompt, inbox, task, catalog, sub, turns, quota

U == Event("user")

(* A Turn of one call with a big result, before the behaviours begin.       *)
MCHistory ==
  <<TurnStart(1), U, Assistant(1), Result(TRUE), Assistant(0), TurnEnd(1)>>

Quiet == [prune |-> FALSE, turns |-> 0, manuals |-> 0, cancels |-> 0, overflows |-> 0,
          notes |-> 0, crashes |-> 0, faults |-> 0, calls |-> {0}, events |-> 12]

MCSettings ==
  { \* pressure and overflow in a Turn that calls tools, pruned and not
    [Quiet EXCEPT !.turns = 1, !.overflows = 2, !.cancels = 1, !.faults = 1, !.prune = TRUE,
       !.calls = {0, 1}, !.notes = 1],
    [Quiet EXCEPT !.turns = 1, !.overflows = 2, !.cancels = 1, !.faults = 1, !.calls = {0, 2}],
    \* /compact beside a Turn
    [Quiet EXCEPT !.turns = 1, !.manuals = 2, !.cancels = 1, !.faults = 2, !.notes = 1],
    \* crashes, with a Turn or an attempt open
    [Quiet EXCEPT !.turns = 1, !.manuals = 1, !.crashes = 2, !.faults = 1, !.calls = {0, 1},
       !.overflows = 1] }

HookSetting(order, serial, policies, max, asked, cancels, faults) ==
  [order |-> order, serial |-> serial, policies |-> policies, max |-> max, calls |-> asked,
   cancels |-> cancels, faults |-> faults]
HookSettings ==
  <<HookSetting(<<"retry", "other">>, FALSE, {"plain", "normal", "later", "always"}, 1, 2, 1, 1),
    HookSetting(<<"other", "retry">>, FALSE, {"normal", "always"}, 1, 3, 0, 1),
    HookSetting(<<"a", "b", "c">>, FALSE, {"none"}, 0, 1, 1, 1),
    HookSetting(<<"a", "b">>, TRUE, {"none"}, 0, 2, 1, 1)>>

Entry(kind, name, complete, needs) ==
  [kind |-> kind, name |-> name, complete |-> complete, needs |-> needs]
Config(identity, context, order) == [identity |-> identity, context |-> context, order |-> order]
NoOwn == [sections |-> {}, config |-> {}]
ContextEntry(needs) == Entry("context", "c", FALSE, needs)
OwnPrompt ==
  [sections |-> {Entry("section", "persona", FALSE, "v"), Entry("section", "y", TRUE, "none")},
   config |-> {Config(TRUE, TRUE, {"t"})}]

PromptSetting(defs, configs, own, catalogs, changes, updates, assemblies, subscribers, faults, closes) ==
  [defs |-> defs, configs |-> configs, own |-> own, catalogs |-> catalogs, changes |-> changes,
   updates |-> updates, assemblies |-> assemblies, subscribers |-> subscribers, faults |-> faults,
   closes |-> closes]
PromptSettings ==
  << \* an Agent with a configuration and sections of its own
     PromptSetting({Entry("section", "identity", FALSE, "none"), Entry("section", "x", TRUE, "none")},
       <<Config(FALSE, TRUE, {}), Config(TRUE, TRUE, {})>>, OwnPrompt, {{"t"}, {}}, 2, 1, 1, 0, 0, 1),
     \* contexts, their variables and what suppresses them
     PromptSetting({Entry("variable", "v", FALSE, "none"), ContextEntry("v"),
                    Entry("suppressor", "s", FALSE, "none")},
       <<Config(TRUE, TRUE, {})>>, NoOwn, {{"t"}}, 2, 1, 1, 0, 1, 0),
     \* several assemblies, changes of the configuration, a fault and a close
     PromptSetting({ContextEntry("none")}, <<Config(TRUE, TRUE, {}), Config(TRUE, FALSE, {})>>,
       NoOwn, {{"t"}}, 1, 1, 2, 0, 1, 1),
     \* the subscriber beside configurations
     PromptSetting({ContextEntry("none")}, <<Config(TRUE, TRUE, {})>>, NoOwn, {{"t"}, {}}, 0, 2, 0, 1, 2, 1)>>

Hooked == INSTANCE Hooks WITH Settings <- HookSettings
Prompted == INSTANCE SystemPrompt WITH Settings <- PromptSettings

hookVars == <<loop, call, hands, mail, log, used>>
promptVars == <<layer, prompt, inbox, task, catalog, sub, turns, quota>>
partVars == <<part, vars, hookVars, promptVars>>

(* The parts that are not exercised stay in one initial state.              *)
PartInit ==
  /\ part \in {"compaction", "hooks", "prompt"}
  /\ Init /\ Hooked!Init /\ Prompted!Init
  /\ part # "compaction" => spent.of = CHOOSE setting \in MCSettings : TRUE
  /\ part # "hooks" => used.of = 1
  /\ part # "prompt" => quota.of = 2
PartNext ==
  \/ part = "compaction" /\ Next /\ UNCHANGED <<part, hookVars, promptVars>>
  \/ part = "hooks" /\ Hooked!Next /\ UNCHANGED <<part, vars, promptVars>>
  \/ part = "prompt" /\ Prompted!Next /\ UNCHANGED <<part, vars, hookVars>>
PartSpec == PartInit /\ [][PartNext]_partVars /\ Fairness

(* An Agent's history stays one its messages can be derived from, and what  *)
(* a compaction reports is what is durable (Compaction.tla).                *)
HistoryIsKept == part = "compaction" => HistoryIsSound /\ CompactionIsTrue

(* Every compaction and every invocation of it ends (Compaction.tla).       *)
CompactionEnds == part = "compaction" => CompactionSettles

(* The handlers of a Turn work one inside the other, and every retry of a   *)
(* request is recorded in the Step it belongs to (Hooks.tla).               *)
HooksAreTrue == part = "hooks" => Hooked!HooksAreTrue

(* The prompt of an Agent is true to the owners of its definitions and of   *)
(* its tools (SystemPrompt.tla).                                            *)
PromptsAreTrue == part = "prompt" => Prompted!PromptsAreTrue
=============================================================================
