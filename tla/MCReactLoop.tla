----------------------------- MODULE MCReactLoop -----------------------------
(* An Agent's loop: two messages and a fault; two messages and an Inbox     *)
(* command; tools with faults and a command; two messages over two Steps    *)
(* with a command.  And around it the titles of its Session (Titles), its   *)
(* commands (Commands), and what clients ask of it (Conversation): a        *)
(* behaviour exercises one of them.                                         *)
EXTENDS ReactLoop, TLC

CONSTANTS m1, m2, c1

Setting(messages, contexts, decisions, keep, steps, batch, faults, commands) ==
  [messages |-> messages, contexts |-> contexts, decisions |-> decisions, keep |-> keep,
   steps |-> steps, calls |-> batch, faults |-> faults, commands |-> commands]

InputSetting == Setting({m1, m2}, {}, {"enter", "reject"}, BOOLEAN, 1, 1, 1, 0)
CommandedSetting == Setting({m1, m2}, {}, {"enter", "reject"}, BOOLEAN, 1, 1, 0, 1)
ToolSetting == Setting({m1}, {c1}, {"enter", "empty"}, BOOLEAN, 2, 2, 2, 1)
InboxSetting == Setting({m1, m2}, {}, {"enter"}, {TRUE}, 2, 1, 0, 1)
MCSettings == {InputSetting, CommandedSetting, ToolSetting, InboxSetting}

\* Every Cancel clears the Inbox.
ClearSettings == {Setting({m1, m2}, {}, {"enter"}, {FALSE}, 2, 1, 0, 3)}

MCNo == {FALSE}
MCSymmetry == Permutations({m1, m2})

TitleSetting(provider, creations, stops, prompts, asks, kinds, faults) ==
  [provider |-> provider, child |-> FALSE, creations |-> creations, stops |-> stops,
   prompts |-> prompts, asks |-> asks, kinds |-> kinds, faults |-> faults]
TitleSettings ==
  <<TitleSetting("all-prompts", 1, 0, 2, 1, {"rename", "refresh"}, 0),
    TitleSetting("none", 1, 0, 1, 2, {"rename", "refresh"}, 1),
    TitleSetting("first-prompt", 1, 1, 1, 1, {"generate", "ensure"}, 0),
    TitleSetting("first-prompt", 1, 0, 2, 0, {}, 1),
    TitleSetting("all-prompts", 2, 2, 0, 1, {"rename"}, 1)>>

CommandSetting(creations, invoked, images, withdrawn, configured, faults) ==
  [creations |-> creations, calls |-> invoked, images |-> images, cancels |-> withdrawn,
   configured |-> configured, faults |-> faults]
CommandSettings ==
  <<CommandSetting(1, 1, TRUE, 1, {}, 2), CommandSetting(1, 2, FALSE, 1, {}, 0),
    CommandSetting(2, 1, FALSE, 0, {}, 1), CommandSetting(1, 0, FALSE, 0, {"global", "override"}, 0),
    CommandSetting(1, 1, FALSE, 0, {"override"}, 0),
    CommandSetting(2, 0, FALSE, 0, {"global"}, 0)>>

AskSetting(asks, kinds, places, stops, exists) ==
  [asks |-> asks, kinds |-> kinds, places |-> places, stops |-> stops, exists |-> exists]
AskSettings ==
  <<AskSetting(2, {"image", "plain", "vision"}, {"a"}, 1, TRUE),
    AskSetting(2, {"image", "plain", "remove", "text"}, {"a"}, 2, TRUE),
    AskSetting(3, {"create", "text"}, {"a", "b"}, 1, FALSE)>>

VARIABLES part, chat, title, worker, feed, owner, requests, used,
          ledger, grain, calls, names, publisher, posts, run,
          agent, header, items, model, tickets, asked, sent, turns

Names == INSTANCE Titles WITH Settings <- TitleSettings
Commanded ==
  INSTANCE Commands WITH Settings <- CommandSettings, chat <- ledger, owner <- grain, used <- run
Talk ==
  INSTANCE Conversation WITH Settings <- AskSettings, requests <- asked, posts <- sent,
                             used <- turns

titleVars == <<chat, title, worker, feed, owner, requests, used>>
commandVars == <<ledger, grain, calls, names, publisher, posts, run>>
talkVars == <<agent, header, items, model, tickets, asked, sent, turns>>
partVars == <<part, vars, titleVars, commandVars, talkVars>>

(* The parts that are not exercised stay in one initial state.              *)
PartInit ==
  /\ part \in {"loop", "titles", "commands", "conversation"}
  /\ Init /\ Names!Init /\ Commanded!Init /\ Talk!Init
  /\ part # "loop" => spent.of = InputSetting /\ log = <<>>
  /\ part # "titles" => used.of = 1
  /\ part # "commands" => run.of = 1
  /\ part # "conversation" => turns.of = 1
PartNext ==
  \/ part = "loop" /\ Next /\ UNCHANGED <<part, titleVars, commandVars, talkVars>>
  \/ part = "titles" /\ Names!Next /\ UNCHANGED <<part, vars, commandVars, talkVars>>
  \/ part = "commands" /\ Commanded!Next /\ UNCHANGED <<part, vars, titleVars, talkVars>>
  \/ part = "conversation" /\ Talk!Next /\ UNCHANGED <<part, vars, titleVars, commandVars>>
PartSpec == PartInit /\ [][PartNext]_partVars

(* A user's title stays, a generated one is of the log (Titles.tla).        *)
TitlesAreTrue == part = "titles" => Names!TitlesAreTrue

(* A command's handler is asked once, for a recorded run, and the answer is *)
(* the recorded one (Commands.tla).                                         *)
CommandsAreTrue == part = "commands" => Commanded!CommandsAreTrue

(* The selected model reads what is there, and requests take turns          *)
(* (Conversation.tla).                                                      *)
ConversationIsTrue == part = "conversation" => Talk!ConversationIsTrue
=============================================================================
