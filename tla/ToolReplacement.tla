--------------------------- MODULE ToolReplacement ---------------------------
(***************************************************************************)
(* Replacing the tools of one Agent: toolruntime.Toolset and Update        *)
(* (tools/runtime), the Runtime Grain that owns the lifetimes of the       *)
(* ToolActors (tools/runtime/actor), the ToolActor and its Tool            *)
(* (tools/tool), and the addresses in the tool Registry (tools/registry).  *)
(*                                                                         *)
(* An Update runs in a task outside the Runtime's mailbox and sends one    *)
(* request at a time, to the Runtime itself (create, find and remove a     *)
(* lifetime) or to a ToolActor (provision, commit, retire, abort).  Every  *)
(* request can outlive its timeout: the task then goes on as if it had     *)
(* failed while the receiver still works on it.  Mailboxes are in order,   *)
(* so a request is admitted where it is sent; what it admits is a task of  *)
(* the receiver that completes later.                                      *)
(***************************************************************************)
EXTENDS Integers, Sequences, FiniteSets, SequencesExt, FiniteSetsExt

CONSTANTS
  NumTools,    \* tool names are 1..NumTools, in the order of their names
  Versions,    \* implementations of a name (provider, schema version)
  MaxUpdates,  \* updates, the initial one included
  MaxFaults,   \* failing constructions, closes and lifecycle exchanges
  MaxTimeouts, \* requests whose sender gives up
  MaxCancels   \* cancelled refreshes

ASSUME BoundsAssumption ==
  {NumTools, MaxUpdates, MaxFaults, MaxTimeouts, MaxCancels} \subseteq Nat

VARIABLES
  set,      \* the Toolset: applied tools, the unfinished Update
  run,      \* the Runtime's operation and the request its task waits for
  inst,     \* the Runtime's record of every ToolActor lifetime
  actor,    \* the ToolActors and their Tools
  registry, \* names with a registered address
  open,     \* resources constructed and not released, as <<name, revision>>
  spent     \* bounded events so far

vars == <<set, run, inst, actor, registry, open, spent>>

Names == 1..NumTools
Targets == UNION {[chosen -> Versions] : chosen \in SUBSET Names}
Sorted(names) == SetToSortSeq(names, <)

----------------------------------------------------------------------------
(* State.                                                                  *)

NoUpdate == [phase |-> "none"]
NoWork == [rev |-> 0, impl |-> "none"]
NoCandidate == [rev |-> 0, impl |-> "none", discard |-> FALSE]
Idle == [k |-> "none", rev |-> 0, impl |-> "none", cancelled |-> FALSE]
NoWait == [k |-> "none", name |-> 0]
NoRun == [kind |-> "none", target |-> <<>>, fresh |-> FALSE, cancelled |-> FALSE, wait |-> NoWait]
NoInstance == [phase |-> "none", was |-> "none", active |-> "none"]
NoActor ==
  [bound |-> FALSE, active |-> Idle, current |-> NoWork, candidate |-> NoCandidate,
   retiring |-> NoWork, closed |-> FALSE]

Init ==
  /\ set = [life |-> "new", current |-> <<>>, pending |-> NoUpdate, ready |-> FALSE, closing |-> FALSE]
  /\ run = NoRun
  /\ inst = [n \in Names |-> NoInstance]
  /\ actor = [n \in Names |-> NoActor]
  /\ registry = {} /\ open = {}
  /\ spent = [updates |-> 0, faults |-> 0, timeouts |-> 0, cancels |-> 0]

Available == set.ready /\ set.pending = NoUpdate /\ ~set.closing

Fault(happens) ==
  /\ happens => spent.faults < MaxFaults
  /\ spent' = [spent EXCEPT !.faults = IF happens THEN @ + 1 ELSE @]

----------------------------------------------------------------------------
(* Update (tools/runtime/update.go).                                       *)

NewUpdate(target, previous, rev) ==
  [phase |-> "preparing", target |-> target, rev |-> rev, next |-> 0, attempted |-> 0,
   failed |-> FALSE,
   preps |-> Sorted({n \in DOMAIN target : n \notin DOMAIN previous \/ target[n] # previous[n]}),
   added |-> Sorted(DOMAIN target \ DOMAIN previous),
   removed |-> Sorted(DOMAIN previous \ DOMAIN target)]

Work(u) ==
  CASE u.phase \in {"preparing", "committing", "retiring"} -> u.preps
    [] u.phase = "aborting" -> SubSeq(u.preps, 1, u.attempted)
    [] u.phase = "removing" -> IF u.failed THEN u.added ELSE u.removed

Following(u) ==
  CASE u.phase = "preparing" -> "committing"
    [] u.phase = "committing" -> "retiring"
    [] u.phase \in {"retiring", "aborting"} -> "removing"
    [] u.phase = "removing" -> "finished"

Transition(u, phase) == [u EXCEPT !.phase = phase, !.next = 0]
Abandon(u) == Transition([u EXCEPT !.failed = TRUE], "aborting")

(* What the task asks for next: the operation of the update's phase.       *)
Operation(u) ==
  CASE u.phase = "preparing" -> "provision"
    [] u.phase = "committing" -> "commit"
    [] u.phase = "retiring" -> "retire"
    [] u.phase = "aborting" -> "abort"
    [] u.phase = "removing" -> "remove"

----------------------------------------------------------------------------
(* The Runtime's operation: its task and its end.                          *)

FinishRun == run' = NoRun

(* A failed request rolls a preparation back and interrupts the rest; what *)
(* is unfinished stays in the Toolset.                                     *)
RequestFails ==
  IF set.pending.phase = "preparing"
  THEN /\ set' = [set EXCEPT !.pending = Abandon(@)]
       /\ run' = [run EXCEPT !.wait = NoWait]
  ELSE FinishRun /\ UNCHANGED set

RequestSucceeds(n) ==
  /\ run' = [run EXCEPT !.wait = NoWait]
  /\ set' = IF set.pending # NoUpdate THEN [set EXCEPT !.pending.next = @ + 1]
            ELSE [set EXCEPT !.current =
                    [m \in DOMAIN set.current \ {n} |-> set.current[m]]]

Answer(n, kind, ok) ==
  IF run.wait # [k |-> kind, name |-> n] THEN UNCHANGED <<set, run>>
  ELSE IF ~ok THEN RequestFails
  ELSE IF kind = "confirm"
    THEN run' = [run EXCEPT !.wait = [k |-> "send", name |-> n]] /\ UNCHANGED set
  ELSE RequestSucceeds(n)

(* A confirmed lifetime: the request proper is sent with the next step.    *)
Confirm(n) ==
  CASE inst[n].phase \in {"closing", "released"} -> RequestFails /\ UNCHANGED inst
    [] inst[n].phase = "initialized" /\ inst[n].active = "none" ->
         /\ run' = [run EXCEPT !.wait = [k |-> "send", name |-> n]]
         /\ UNCHANGED <<set, inst>>
    [] inst[n].phase \in {"none", "reserved", "initialized"} /\ inst[n].active # "none" ->
         RequestFails /\ UNCHANGED inst
    [] inst[n].phase \in {"none", "reserved"} /\ inst[n].active = "none" ->
         /\ inst' = [inst EXCEPT ![n] = [phase |-> "reserved", was |-> "reserved", active |-> "create"]]
         /\ run' = [run EXCEPT !.wait = [k |-> "confirm", name |-> n]]
         /\ UNCHANGED set

(* findTool: a lifetime that was never initialized admitted no provision.  *)
Find(n) ==
  /\ IF inst[n].phase = "initialized"
     THEN run' = [run EXCEPT !.wait = [k |-> "send", name |-> n]] /\ UNCHANGED set
     ELSE RequestSucceeds(n)
  /\ UNCHANGED inst

Admits(n) == actor[n].bound /\ actor[n].active = Idle

(* removeTool: a lifetime with work is closed before its address goes.     *)
RemoveTool(n) ==
  /\ IF inst[n].phase = "none" THEN RequestSucceeds(n) /\ UNCHANGED <<inst, actor>>
     ELSE IF inst[n].active # "none" THEN RequestFails /\ UNCHANGED <<inst, actor>>
     ELSE IF inst[n].phase \in {"reserved", "released"}
       THEN /\ inst' = [inst EXCEPT ![n] = [phase |-> "closing", was |-> "released", active |-> "withdraw"]]
            /\ run' = [run EXCEPT !.wait = [k |-> "remove", name |-> n]]
            /\ UNCHANGED <<set, actor>>
     ELSE IF Admits(n)
       THEN /\ inst' = [inst EXCEPT ![n] = [phase |-> "closing", was |-> "closing", active |-> "close"]]
            /\ actor' = [actor EXCEPT ![n].active = [Idle EXCEPT !.k = "close"]]
            /\ run' = [run EXCEPT !.wait = [k |-> "remove", name |-> n]]
            /\ UNCHANGED set
     ELSE /\ inst' = [inst EXCEPT ![n] = [phase |-> "closing", was |-> "closing", active |-> "none"]]
          /\ RequestFails /\ UNCHANGED actor

(* Tool.Commit: the candidate becomes current, what it replaces retires.   *)
Commit(n, rev) ==
  LET tool == actor[n] IN
  IF ~Admits(n) \/ tool.closed THEN RequestFails /\ UNCHANGED actor
  ELSE IF tool.current.rev = rev THEN RequestSucceeds(n) /\ UNCHANGED actor
  ELSE IF tool.candidate.rev # rev \/ tool.candidate.discard THEN RequestFails /\ UNCHANGED actor
  ELSE /\ actor' = [actor EXCEPT ![n].retiring = tool.current,
                                 ![n].current = [rev |-> rev, impl |-> tool.candidate.impl],
                                 ![n].candidate = NoCandidate]
       /\ RequestSucceeds(n)

(* checkPreparation, and the checks of Retire and Abort.                   *)
Refuses(n, op, rev) ==
  LET tool == actor[n] IN
  CASE op = "provision" -> tool.closed \/ tool.candidate # NoCandidate
                             \/ tool.retiring # NoWork \/ tool.current.rev = rev
    [] op = "retire" -> tool.current.rev # rev
    [] op = "abort" -> IF tool.candidate = NoCandidate THEN tool.current.rev = rev
                       ELSE tool.candidate.rev # rev

(* The request proper to a ToolActor.                                      *)
SendRequest ==
  LET n == run.wait.name
      u == set.pending
      op == Operation(u)
  IN /\ run.wait.k = "send"
     /\ IF op = "provision" /\ run.cancelled THEN RequestFails /\ UNCHANGED actor
        ELSE IF op = "commit" THEN Commit(n, u.rev)
        ELSE IF ~Admits(n) \/ Refuses(n, op, u.rev) THEN RequestFails /\ UNCHANGED actor
        ELSE /\ actor' = [actor EXCEPT ![n].active =
                            [k |-> op, rev |-> u.rev, cancelled |-> FALSE,
                             impl |-> IF op = "provision" THEN u.target[n] ELSE "none"]]
             /\ run' = [run EXCEPT !.wait = [k |-> "act", name |-> n]]
             /\ UNCHANGED set
     /\ UNCHANGED <<inst, registry, open, spent>>

(* Variant: a switch that has begun is rolled back too.                    *)
UpdateProceedsUndoesSwitch ==
  LET u == set.pending IN
  /\ run.kind # "none" /\ run.wait = NoWait
  /\ u # NoUpdate /\ u.phase # "finished"
  /\ IF u.phase \in {"preparing", "committing"} /\ (run.cancelled \/ run.kind = "close")
     THEN set' = [set EXCEPT !.pending = Abandon(u)] /\ UNCHANGED <<run, inst, actor>>
     ELSE IF u.next = Len(Work(u))
     THEN set' = [set EXCEPT !.pending = Transition(u, Following(u))]
          /\ UNCHANGED <<run, inst, actor>>
     ELSE LET n == Work(u)[u.next + 1] IN
          CASE u.phase = "preparing" ->
                 IF u.attempted = u.next
                 THEN set' = [set EXCEPT !.pending.attempted = u.next + 1]
                      /\ UNCHANGED <<run, inst, actor>>
                 ELSE Confirm(n) /\ UNCHANGED actor
            [] u.phase \in {"committing", "retiring"} -> Confirm(n) /\ UNCHANGED actor
            [] u.phase = "aborting" -> Find(n) /\ UNCHANGED actor
            [] u.phase = "removing" -> RemoveTool(n)
  /\ UNCHANGED <<registry, open, spent>>

(* One turn of the loop of Update.Apply.                                   *)
UpdateProceeds ==
  LET u == set.pending IN
  /\ run.kind # "none" /\ run.wait = NoWait
  /\ u # NoUpdate /\ u.phase # "finished"
  /\ IF u.phase = "preparing" /\ (run.cancelled \/ run.kind = "close")
     THEN set' = [set EXCEPT !.pending = Abandon(u)] /\ UNCHANGED <<run, inst, actor>>
     ELSE IF u.next = Len(Work(u))
     THEN set' = [set EXCEPT !.pending = Transition(u, Following(u))]
          /\ UNCHANGED <<run, inst, actor>>
     ELSE LET n == Work(u)[u.next + 1] IN
          CASE u.phase = "preparing" ->
                 (* attempted counts the preparation before it is tried.   *)
                 IF u.attempted = u.next
                 THEN set' = [set EXCEPT !.pending.attempted = u.next + 1]
                      /\ UNCHANGED <<run, inst, actor>>
                 ELSE Confirm(n) /\ UNCHANGED actor
            [] u.phase \in {"committing", "retiring"} -> Confirm(n) /\ UNCHANGED actor
            [] u.phase = "aborting" -> Find(n) /\ UNCHANGED actor
            [] u.phase = "removing" -> RemoveTool(n)
  /\ UNCHANGED <<registry, open, spent>>

(* applyUpdate: the target is adopted only when every step succeeded.      *)
UpdateFinishes ==
  LET u == set.pending IN
  /\ run.kind # "none" /\ u.phase = "finished"
  /\ set' = [set EXCEPT !.current = IF u.failed THEN @ ELSE u.target,
                        !.ready = @ \/ (~u.failed /\ run.kind # "close"),
                        !.pending = NoUpdate]
  /\ run' = IF run.kind # "close" /\ u.failed THEN NoRun ELSE run
  /\ UNCHANGED <<inst, actor, registry, open, spent>>

(* Toolset.Apply creates the update of this operation.                     *)
CreateUpdate ==
  /\ run.kind \in {"init", "refresh"} /\ run.fresh /\ set.pending = NoUpdate
  /\ spent' = [spent EXCEPT !.updates = @ + 1]
  /\ set' = [set EXCEPT !.pending = NewUpdate(run.target, set.current, spent.updates + 1)]
  /\ run' = [run EXCEPT !.fresh = FALSE]
  /\ UNCHANGED <<inst, actor, registry, open>>

OperationEnds ==
  /\ run.kind \in {"init", "refresh"} /\ ~run.fresh /\ set.pending = NoUpdate
  /\ FinishRun
  /\ UNCHANGED <<set, inst, actor, registry, open, spent>>

(* Toolset.Close removes what is applied once the update is settled.       *)
CloseProceeds ==
  /\ run.kind = "close" /\ set.pending = NoUpdate /\ run.wait = NoWait
  /\ IF DOMAIN set.current = {}
     THEN /\ set' = [set EXCEPT !.life = "closed"] /\ FinishRun
          /\ UNCHANGED <<inst, actor>>
     ELSE RemoveTool(Min(DOMAIN set.current))
  /\ UNCHANGED <<registry, open, spent>>

----------------------------------------------------------------------------
(* Requests to the Runtime (runtime.go, runtime_configuration.go).         *)

Initialize ==
  /\ set.life = "new" /\ run = NoRun
  /\ set' = [set EXCEPT !.life = "bound"]
  /\ \E target \in Targets :
       run' = [NoRun EXCEPT !.kind = "init", !.target = target, !.fresh = TRUE]
  /\ UNCHANGED <<inst, actor, registry, open, spent>>

(* A refresh starts from the applied Snapshot and fails without one.       *)
RefreshConfiguration ==
  /\ set.life = "bound" /\ run = NoRun /\ Available
  /\ spent.updates < MaxUpdates
  /\ \E target \in Targets :
       run' = [NoRun EXCEPT !.kind = "refresh", !.target = target, !.fresh = TRUE]
  /\ UNCHANGED <<set, inst, actor, registry, open, spent>>

CancelConfiguration ==
  /\ run.kind = "refresh" /\ ~run.cancelled /\ spent.cancels < MaxCancels
  /\ spent' = [spent EXCEPT !.cancels = @ + 1]
  /\ run' = [run EXCEPT !.cancelled = TRUE]
  /\ actor' = IF run.wait.k = "act" /\ actor[run.wait.name].active.k = "provision"
              THEN [actor EXCEPT ![run.wait.name].active.cancelled = TRUE] ELSE actor
  /\ UNCHANGED <<set, inst, registry, open>>

CloseRuntime ==
  /\ set.life = "bound" /\ run = NoRun
  /\ set' = [set EXCEPT !.closing = TRUE]
  /\ run' = [NoRun EXCEPT !.kind = "close"]
  /\ UNCHANGED <<inst, actor, registry, open, spent>>

(* The task gives up on its request; a provision it leaves behind is       *)
(* cancelled with the operation.                                           *)
RequestExpires ==
  /\ run.wait.k \in {"confirm", "act", "remove"}
  /\ IF run.cancelled /\ set.pending.phase = "preparing" THEN UNCHANGED spent
     ELSE /\ spent.timeouts < MaxTimeouts
          /\ spent' = [spent EXCEPT !.timeouts = @ + 1]
  /\ RequestFails
  /\ UNCHANGED <<inst, actor, registry, open>>

----------------------------------------------------------------------------
(* Lifetimes (runtime_tools.go) and Tools (tools/tool).                    *)

(* Initialize and RegisterTool: either may fail with its effect in doubt.  *)
CreateCompletes(n) ==
  /\ inst[n].active = "create"
  /\ \/ /\ inst' = [inst EXCEPT ![n] = [phase |-> "initialized", was |-> "initialized", active |-> "none"]]
        /\ actor' = [actor EXCEPT ![n].bound = TRUE]
        /\ registry' = registry \cup {n}
        /\ Answer(n, "confirm", TRUE) /\ UNCHANGED spent
     \/ /\ inst' = [inst EXCEPT ![n].active = "none"]
        /\ \E bound \in BOOLEAN, registered \in BOOLEAN :
             /\ registered => bound
             /\ actor' = [actor EXCEPT ![n].bound = @ \/ bound]
             /\ registry' = IF registered THEN registry \cup {n} ELSE registry
        /\ Answer(n, "confirm", FALSE) /\ Fault(TRUE)
  /\ UNCHANGED open

(* The address is withdrawn and the released ToolActor stopped.            *)
WithdrawCompletes(n) ==
  /\ inst[n].active = "withdraw"
  /\ \/ /\ inst' = [inst EXCEPT ![n] = NoInstance]
        /\ actor' = [actor EXCEPT ![n] = NoActor]
        /\ registry' = registry \ {n}
        /\ Answer(n, "remove", TRUE) /\ UNCHANGED spent
     \/ /\ inst' = [inst EXCEPT ![n] = [phase |-> "released", was |-> "released", active |-> "none"]]
        /\ registry' \in {registry, registry \ {n}}
        /\ Answer(n, "remove", FALSE) /\ Fault(TRUE) /\ UNCHANGED actor
  /\ UNCHANGED open

Settled(n, tool) == actor' = [actor EXCEPT ![n] = [tool EXCEPT !.active = Idle]]

(* Variant: a resource that cannot be closed is forgotten.                 *)
ProvisionForgets(n) ==
  LET op == actor[n].active IN
  /\ op.k = "provision"
  /\ \/ /\ Settled(n, [actor[n] EXCEPT !.candidate = [rev |-> op.rev, impl |-> op.impl, discard |-> FALSE]])
        /\ open' = open \cup {<<n, op.rev>>}
        /\ Answer(n, "act", TRUE) /\ UNCHANGED spent
     \/ /\ Settled(n, actor[n]) /\ open' \in {open, open \cup {<<n, op.rev>>}}
        /\ Answer(n, "act", FALSE) /\ Fault(TRUE)
  /\ UNCHANGED <<inst, registry>>

(* Provider.Open may fail with a resource; one that cannot be closed is    *)
(* retained as a candidate that must be discarded.  A provision nobody     *)
(* waits for is cancelled, unless it returned before it noticed.           *)
ProvisionCompletes(n) ==
  LET op == actor[n].active IN
  /\ op.k = "provision"
  /\ \/ /\ Settled(n, [actor[n] EXCEPT !.candidate = [rev |-> op.rev, impl |-> op.impl, discard |-> FALSE]])
        /\ open' = open \cup {<<n, op.rev>>}
        /\ Answer(n, "act", TRUE) /\ UNCHANGED spent
     \/ /\ Settled(n, actor[n]) /\ UNCHANGED open
        /\ Answer(n, "act", FALSE)
        /\ Fault(~op.cancelled /\ run.wait = [k |-> "act", name |-> n])
     \/ /\ Settled(n, [actor[n] EXCEPT !.candidate = [rev |-> op.rev, impl |-> op.impl, discard |-> TRUE]])
        /\ open' = open \cup {<<n, op.rev>>}
        /\ Answer(n, "act", FALSE) /\ Fault(TRUE)
  /\ UNCHANGED <<inst, registry>>

RetireCompletes(n) ==
  /\ actor[n].active.k = "retire"
  /\ \/ /\ Settled(n, [actor[n] EXCEPT !.retiring = NoWork])
        /\ open' = open \ {<<n, actor[n].retiring.rev>>}
        /\ Answer(n, "act", TRUE) /\ UNCHANGED spent
     \/ /\ actor[n].retiring # NoWork
        /\ Settled(n, actor[n]) /\ UNCHANGED open
        /\ Answer(n, "act", FALSE) /\ Fault(TRUE)
  /\ UNCHANGED <<inst, registry>>

AbortCompletes(n) ==
  /\ actor[n].active.k = "abort"
  /\ \/ /\ Settled(n, [actor[n] EXCEPT !.candidate = NoCandidate])
        /\ open' = open \ {<<n, actor[n].candidate.rev>>}
        /\ Answer(n, "act", TRUE) /\ UNCHANGED spent
     \/ /\ actor[n].candidate # NoCandidate
        /\ Settled(n, [actor[n] EXCEPT !.candidate.discard = TRUE]) /\ UNCHANGED open
        /\ Answer(n, "act", FALSE) /\ Fault(TRUE)
  /\ UNCHANGED <<inst, registry>>

(* Tool.Close attempts every release and keeps what would not close.  Its  *)
(* answer moves the removal on, unless the Runtime gave up on it.          *)
CloseCompletes(n) ==
  LET tool == actor[n]
      held == {w \in {tool.candidate.rev, tool.retiring.rev, tool.current.rev} : w # 0}
  IN
  /\ tool.active.k = "close"
  /\ \E kept \in SUBSET held :
       /\ kept # {} /\ ~tool.active.cancelled => spent.faults < MaxFaults
       /\ spent' = [spent EXCEPT !.faults =
                      IF kept # {} /\ ~tool.active.cancelled THEN @ + 1 ELSE @]
       /\ Settled(n, [tool EXCEPT
            !.closed = TRUE,
            !.candidate = IF @.rev \in kept THEN @ ELSE NoCandidate,
            !.retiring = IF @.rev \in kept THEN @ ELSE NoWork,
            !.current = IF @.rev \in kept THEN @ ELSE NoWork])
       /\ open' = open \ {<<n, w>> : w \in held \ kept}
       /\ IF inst[n].active # "close" THEN UNCHANGED <<inst, set, run>>
          ELSE IF kept = {}
            THEN inst' = [inst EXCEPT ![n].active = "withdraw", ![n].was = "released"]
                 /\ UNCHANGED <<set, run>>
          ELSE inst' = [inst EXCEPT ![n].active = "none"] /\ Answer(n, "remove", FALSE)
  /\ UNCHANGED registry

(* The Runtime's own request to close a ToolActor outlives its timeout.    *)
CloseExpires(n) ==
  /\ inst[n].active = "close" /\ spent.timeouts < MaxTimeouts
  /\ spent' = [spent EXCEPT !.timeouts = @ + 1]
  /\ inst' = [inst EXCEPT ![n].active = "none"]
  /\ actor' = [actor EXCEPT ![n].active.cancelled = TRUE]
  /\ Answer(n, "remove", FALSE)
  /\ UNCHANGED <<registry, open>>

----------------------------------------------------------------------------
TaskProceeds ==
  UpdateProceeds \/ SendRequest \/ UpdateFinishes \/ CreateUpdate \/ OperationEnds \/ CloseProceeds
ToolCompletes ==
  \E n \in Names : \/ CreateCompletes(n) \/ WithdrawCompletes(n) \/ ProvisionCompletes(n)
                   \/ RetireCompletes(n) \/ AbortCompletes(n) \/ CloseCompletes(n)

Next ==
  \/ Initialize \/ RefreshConfiguration \/ CancelConfiguration \/ CloseRuntime
  \/ TaskProceeds \/ ToolCompletes
  \/ RequestExpires \/ \E n \in Names : CloseExpires(n)

(* Tasks run and resource operations return; every Turn asks for a         *)
(* refresh, and the Supervisor's owner asks again for a close that failed. *)
Fairness == WF_vars(TaskProceeds) /\ WF_vars(ToolCompletes)
Spec == Init /\ [][Next]_vars
FairSpec ==
  Spec /\ Fairness /\ WF_vars(RefreshConfiguration) /\ WF_vars(CloseRuntime /\ set.closing)

----------------------------------------------------------------------------
(* Properties.                                                             *)

(* The phases of the Runtime's operation, of the lifetimes and the Tools;  *)
(* an update's progress stays inside the work of its phase.                *)
TypeOK ==
  /\ set.life \in {"new", "bound", "closed"} /\ DOMAIN set.current \subseteq Names
  /\ run.kind \in {"none", "init", "refresh", "close"}
  /\ run.wait.k \in {"none", "confirm", "send", "act", "remove"}
  /\ \A n \in Names :
       /\ inst[n].phase \in {"none", "reserved", "initialized", "closing", "released"}
       /\ inst[n].active \in {"none", "create", "close", "withdraw"}
       /\ actor[n].active.k \in {"none", "provision", "retire", "abort", "close"}
  /\ registry \subseteq Names
  /\ set.pending # NoUpdate /\ set.pending.phase # "finished" =>
       set.pending.next <= Len(Work(set.pending))

Retained(n) ==
  {<<n, rev>> : rev \in {actor[n].current.rev, actor[n].candidate.rev, actor[n].retiring.rev} \ {0}}

(* Nothing leaks and nothing is released twice: what is open is exactly    *)
(* what some Tool still holds, through failed constructions, rollbacks,    *)
(* lost answers and stopped ToolActors.                                    *)
NothingLeaks == open = UNION {Retained(n) : n \in Names}

Serves(n, impl) ==
  /\ n \in registry /\ inst[n].phase = "initialized"
  /\ actor[n].current.impl = impl /\ ~actor[n].closed
  /\ <<n, actor[n].current.rev>> \in open

(* A Snapshot is what runs: every tool of it is registered and executable  *)
(* at its applied implementation, with nothing left of any update, and no  *)
(* other tool exists (Toolset.Snapshot, Tool.Definition).                  *)
SnapshotRuns ==
  Available /\ run = NoRun =>
    \A n \in Names :
      IF n \in DOMAIN set.current
      THEN /\ Serves(n, set.current[n]) /\ actor[n].active = Idle
           /\ actor[n].candidate = NoCandidate /\ actor[n].retiring = NoWork
      ELSE n \notin registry /\ inst[n] = NoInstance /\ ~actor[n].bound

(* "preparing opens replacement work while the old work remains available" *)
(* (update.go:25): until an update switches, and through its rollback, the *)
(* applied tools keep serving.                                             *)
OldWorkServes ==
  /\ set.pending # NoUpdate /\ ~set.closing
  /\ set.pending.failed \/ set.pending.phase = "preparing"
  => \A n \in DOMAIN set.current : Serves(n, set.current[n])

(* An update that rolls back has switched nothing, whichever answers its   *)
(* task missed.                                                            *)
RollbackSwitchedNothing ==
  set.pending # NoUpdate /\ set.pending.failed =>
    \A n \in Names : actor[n].current.rev # set.pending.rev

(* A closed Runtime has released every resource, lifetime and address.     *)
ClosedOwnsNothing ==
  set.life = "closed" =>
    open = {} /\ registry = {} /\ \A n \in Names : inst[n] = NoInstance /\ ~actor[n].bound

(* A close that is asked for again until it succeeds does succeed.         *)
CloseEventuallyReleases == set.closing ~> set.life = "closed"

(* "changed retains MCP discovery and failed application work until        *)
(* refresh" (runtime.go:52): a refresh finishes an interrupted update.     *)
RefreshResumes ==
  set.pending # NoUpdate /\ run = NoRun ~> set.pending = NoUpdate \/ set.closing

(* Every resource has an owner, and a closed Runtime has none.             *)
ResourcesAreOwned == TypeOK /\ NothingLeaks /\ ClosedOwnsNothing

(* What an Agent may call is served, before, during and after an update.   *)
ToolsServe == SnapshotRuns /\ OldWorkServes /\ RollbackSwitchedNothing
=============================================================================
