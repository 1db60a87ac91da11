-------------------------------- MODULE Steward --------------------------------
(***************************************************************************)
(* The named Companion of a parent Agent (subagent/companion): the Steward *)
(* that records its relationship in the parent's Session log before it     *)
(* starts a child, follows later changes, and closes the child with the    *)
(* parent; and the StewardProvider that installs and releases Stewards.    *)
(*                                                                         *)
(* One parent Session through several lifetimes and one Companion name.    *)
(* Everything the Steward awaits runs in a task of its own: the write of a *)
(* change, the start of a child, its close.  A command whose expectations  *)
(* do not match is refused and changes nothing, so only matching ones are  *)
(* actions.                                                                *)
(***************************************************************************)
EXTENDS Naturals, Sequences, FiniteSets

CONSTANT
  Settings   \* inputs and bounds; a behaviour keeps to one of them:
             \*   auto      whether Settings hold a policy that creates the Companion
             \*   parents   lifetimes of the parent
             \*   edits     Create, Configure, Remove and Restart commands
             \*   notices   notices that the child's configuration changed
             \*   sends     messages to or from the child
             \*   faults    failed or unanswered requests
             \*   crashes   of the process

VARIABLES
  store,    \* the parent's relationship events, the flushed ones, saved configurations
  steward,  \* the Steward of the current parent lifetime
  entry,    \* its Companion: relationship, unsettled change, child, tasks
  lives,    \* the child lifetimes the Agent Registry was asked for
  slot,     \* the provider's slot of the parent
  told,     \* revisions reported as changed
  spent     \* the setting, and how much of it is used

vars == <<store, steward, entry, lives, slot, told, spent>>

NoRelationship == [rev |-> 0, child |-> 0, enabled |-> FALSE, removed |-> FALSE]

NoMutation == [next |-> NoRelationship, request |-> "none", stage |-> "none", pc |-> "none",
               create |-> FALSE, replies |-> 0]

NoTask == [kind |-> "none", pc |-> "none", cancelled |-> FALSE]
Task(kind, pc) == [kind |-> kind, pc |-> pc, cancelled |-> FALSE]

NoEntry == [known |-> FALSE, rel |-> NoRelationship, mutation |-> NoMutation, creation |-> 0,
            executor |-> FALSE, starting |-> NoTask, closing |-> NoTask,
            phase |-> "stopped", failure |-> FALSE]

NewSteward == [state |-> "uninitialized", waiters |-> 0, sends |-> 0, answer |-> "none"]
NewSlot == [stage |-> "none", release |-> "none", stops |-> 0]

Unused == [parents |-> 1, edits |-> 0, notices |-> 0, sends |-> 0, faults |-> 0, crashes |-> 0]

Init ==
  /\ store = [log |-> <<>>, stored |-> 0, saved |-> {}, ids |-> 0]
  /\ steward = NewSteward
  /\ entry = NoEntry
  /\ lives = <<>>
  /\ slot = NewSlot
  /\ told = {}
  /\ spent \in {[used |-> Unused, of |-> s] : s \in Settings}

Uses(what) ==
  /\ spent.used[what] < spent.of[what]
  /\ spent' = [spent EXCEPT !.used[what] = @ + 1]
Fault == Uses("faults")
Unspent == UNCHANGED spent

Live(l) == lives[l] \in {"creating", "ready", "held"}
LiveStates == {l \in 1..Len(lives) : Live(l)}

----------------------------------------------------------------------------
(* The child of the entry e under a Steward in the given state             *)
(* (steward_children.go).                                                  *)

(* closeChild: a natural end is awaited first when it is asked for.        *)
CloseChild(e, finishCurrent) ==
  [e EXCEPT !.closing = Task("close", IF finishCurrent /\ e.executor THEN "drain" ELSE "release"),
            !.phase = IF finishCurrent THEN "draining" ELSE "stopping"]

StartChild(e) ==
  [e EXCEPT !.creation = Len(lives) + 1, !.phase = "starting", !.starting = Task("create", "prepare")]

Reconcile(e, state) ==
  LET shutting == state = "shuttingDown"
      shouldClose == shutting \/ e.rel.removed \/ ~e.rel.enabled
  IN CASE e.starting # NoTask ->
            IF shouldClose THEN [e EXCEPT !.phase = "stopping", !.starting.cancelled = TRUE] ELSE e
       [] e.starting = NoTask /\ e.closing # NoTask ->
            IF shutting THEN [e EXCEPT !.closing.cancelled = TRUE] ELSE e
       [] e.starting = NoTask /\ e.closing = NoTask /\ e.mutation # NoMutation /\ ~shutting -> e
       [] OTHER ->
            IF e.creation # 0
            THEN IF shouldClose \/ e.failure THEN CloseChild(e, ~shutting /\ ~e.failure) ELSE e
            ELSE IF shouldClose \/ e.failure THEN e ELSE StartChild(e)

(* A new lifetime starts only after the previous one has settled.          *)
Resume(e, state) ==
  IF state = "active" /\ e.starting = NoTask /\ e.closing = NoTask /\ e.creation # 0
  THEN CloseChild(e, TRUE)
  ELSE Reconcile(e, state)

(* Variant: a close that left a child behind is not answered.              *)
FinishCloseSilent(s, e) ==
  LET busy == \/ s.state # "shuttingDown" \/ s.waiters = 0 \/ s.sends > 0
              \/ e.starting # NoTask \/ e.closing # NoTask \/ e.mutation.stage = "inFlight"
  IN IF busy \/ e.creation # 0 THEN s
     ELSE [s EXCEPT !.waiters = 0, !.answer = "ok", !.state = "terminated"]

(* finishClose: the close is answered once nothing is in flight, and only  *)
(* succeeds when no child is left.                                         *)
FinishClose(s, e) ==
  LET busy == \/ s.state # "shuttingDown" \/ s.waiters = 0 \/ s.sends > 0
              \/ e.starting # NoTask \/ e.closing # NoTask \/ e.mutation.stage = "inFlight"
  IN IF busy THEN s
     ELSE [s EXCEPT !.waiters = 0,
             !.answer = IF e.creation = 0 THEN "ok" ELSE "failed",
             !.state = IF e.creation = 0 THEN "terminated" ELSE @]

(* A handler leaves the entry e behind.                                    *)
Leaves(e) ==
  /\ entry' = e
  /\ steward' = FinishClose(steward, e)

----------------------------------------------------------------------------
(* Changes (steward_changes.go): one at a time, retained until it settles; *)
(* the identical request joins or retries it, every other one is refused.  *)

WriteChange(m) ==
  IF m.stage = "inFlight" THEN m ELSE [m EXCEPT !.stage = "inFlight", !.pc = "check"]

Changed(e, request, next, create, replies) ==
  LET m == IF e.mutation # NoMutation THEN e.mutation
           ELSE [NoMutation EXCEPT !.next = next, !.request = request, !.create = create]
  IN [e EXCEPT !.known = TRUE, !.mutation = WriteChange([m EXCEPT !.replies = @ + replies])]

Accepts(request) == entry.mutation = NoMutation \/ entry.mutation.request = request

(* A Create of an unknown, removed or never recorded Companion is for a    *)
(* child Session and a configuration of its own.                           *)
NewRelationship ==
  [rev |-> entry.rel.rev + 1, child |-> store.ids + 1, enabled |-> TRUE, removed |-> FALSE]

Create ==
  /\ steward.state = "active" /\ Uses("edits")
  /\ Accepts("create")
  /\ entry.mutation = NoMutation =>
       /\ entry.rel.rev = 0 \/ entry.rel.removed
       /\ entry.starting = NoTask /\ entry.closing = NoTask /\ entry.creation = 0
  /\ entry' = Changed(entry, "create", NewRelationship, TRUE, 1)
  /\ store' = IF entry.mutation = NoMutation THEN [store EXCEPT !.ids = @ + 1] ELSE store
  /\ UNCHANGED <<steward, lives, slot, told>>

(* Configure and Remove.                                                   *)
Configure ==
  /\ steward.state = "active" /\ Uses("edits")
  /\ entry.rel.rev > 0 /\ ~entry.rel.removed
  /\ \E request \in {"enable", "disable", "remove"} :
       /\ Accepts(request)
       /\ entry' = Changed(entry, request,
                     [entry.rel EXCEPT !.rev = @ + 1, !.enabled = request = "enable",
                                       !.removed = request = "remove"], FALSE, 1)
  /\ UNCHANGED <<store, steward, lives, slot, told>>

(* Record.Build: the change is the next of the history it is appended to.  *)
Fits(next, log) ==
  LET rev == Len(log)
      previous == IF rev = 0 THEN NoRelationship ELSE log[rev]
  IN /\ next.rev = rev + 1
     /\ next.removed => ~next.enabled
     /\ IF rev = 0 THEN ~next.removed
        ELSE IF next.child # previous.child THEN previous.removed /\ ~next.removed
        ELSE ~(previous.removed /\ ~next.removed)
     /\ next.child # previous.child => \A i \in 1..rev : log[i].child # next.child

(* Record.FindCommit: a repeated write is the one the log already holds.   *)
Recorded(next, log) == \E i \in 1..Len(log) : log[i] = next

(* The task of a write: admission, the configuration, the event, a Flush.  *)
(* A request that fails may have had its effect.                           *)
WriteProceeds ==
  LET m == entry.mutation
      Goes(pc) == entry' = [entry EXCEPT !.mutation.pc = pc]
      Step(next, effect) ==
        \/ Goes(next) /\ store' = effect /\ Unspent
        \/ Goes("failed") /\ store' \in {store, effect} /\ Fault
      Refused == Goes("failed") /\ Unspent /\ UNCHANGED store
  IN /\ \/ /\ m.pc = "check"
           /\ IF slot.stops > 0 THEN Refused
              ELSE Step(IF m.create THEN "config" ELSE "commit", store)
        \/ m.pc = "config" /\ Step("commit", [store EXCEPT !.saved = @ \cup {m.next.child}])
        \/ /\ m.pc = "commit"
           /\ IF Recorded(m.next, store.log) THEN Step("flush", store)
              ELSE IF Fits(m.next, store.log)
              THEN Step("flush", [store EXCEPT !.log = Append(@, m.next)])
              ELSE Refused
        \/ m.pc = "flush" /\ Step("done", [store EXCEPT !.stored = Len(store.log)])
     /\ UNCHANGED <<steward, lives, slot, told>>

(* Variant: a failed write is given up.                                    *)
FailedForgotten(m) == NoMutation

Failed(m) == [m EXCEPT !.stage = "failed", !.pc = "none", !.replies = 0]

ChangeSettles ==
  LET m == entry.mutation
      settled == [entry EXCEPT !.rel = m.next, !.mutation = NoMutation]
      renewed == entry.rel.child # m.next.child \/ (~entry.rel.enabled /\ m.next.enabled)
  IN /\ \/ m.pc = "failed" /\ Leaves([entry EXCEPT !.mutation = Failed(m)]) /\ UNCHANGED told
        \/ /\ m.pc = "done"
           /\ Leaves(IF renewed THEN Resume([settled EXCEPT !.failure = FALSE], steward.state)
                     ELSE Reconcile(settled, steward.state))
           /\ told' = IF m.replies > 0 THEN told \cup {m.next.rev} ELSE told
     /\ Unspent /\ UNCHANGED <<store, lives, slot>>

(* Restart: an unrecorded change is written again, a policy prepared again,*)
(* a recorded Companion gets a new lifetime.                               *)
Restart ==
  LET m == entry.mutation
      seen == IF entry.rel.rev > 0 THEN entry.rel ELSE m.next
  IN /\ steward.state = "active" /\ entry.known /\ Uses("edits")
     /\ ~seen.removed /\ (seen.enabled \/ (entry.rel.rev = 0 /\ m = NoMutation))
     /\ entry.starting = NoTask /\ entry.closing = NoTask
     /\ m # NoMutation => entry.rel.rev = 0 /\ m.stage = "failed"
     /\ entry' = IF m # NoMutation THEN [entry EXCEPT !.mutation = WriteChange(m)]
                 ELSE IF entry.rel.rev = 0
                 THEN [entry EXCEPT !.starting = Task("resolve", "prepare"), !.phase = "starting",
                                    !.failure = FALSE]
                 ELSE Resume([entry EXCEPT !.failure = FALSE], steward.state)
     /\ UNCHANGED <<store, steward, lives, slot, told>>

(* RestartChild: the Agent Registry tells of a configuration that changed. *)
RestartConfiguredChild ==
  /\ steward.state = "active" /\ entry.creation # 0 /\ Uses("notices")
  /\ entry' = IF entry.rel.removed \/ ~entry.rel.enabled \/ entry.closing # NoTask THEN entry
              ELSE IF entry.starting # NoTask THEN [entry EXCEPT !.phase = "stopping"]
              ELSE CloseChild([entry EXCEPT !.failure = FALSE], FALSE)
  /\ UNCHANGED <<store, steward, lives, slot, told>>

----------------------------------------------------------------------------
(* Recovery and the policies Settings hold (steward.go, steward_defaults). *)

(* installDefault: never over a recorded relationship; a preparation that  *)
(* fails stays visible.                                                    *)
RecordDefault(e, next) == Changed(e, "default", next, TRUE, 0)

Loaded ==
  LET rel == store.log[Len(store.log)]
  IN /\ steward.state = "initializing"
     /\ \/ /\ Unspent
           /\ steward' = [steward EXCEPT !.state = "active"]
           /\ \/ /\ store.log # <<>>
                 /\ entry' = Reconcile([NoEntry EXCEPT !.known = TRUE, !.rel = rel], "active")
                 /\ UNCHANGED store
              \/ /\ store.log = <<>> /\ spent.of.auto
                 /\ entry' = RecordDefault(entry, NewRelationship)
                 /\ store' = [store EXCEPT !.ids = @ + 1]
              \/ /\ store.log = <<>> /\ ~spent.of.auto
                 /\ UNCHANGED <<entry, store>>
        \/ /\ Fault /\ spent.of.auto /\ store.log = <<>>
           /\ steward' = [steward EXCEPT !.state = "active"]
           /\ entry' = [NoEntry EXCEPT !.known = TRUE, !.failure = TRUE, !.phase = "startFailed"]
           /\ UNCHANGED store
        \/ /\ Fault
           /\ steward' = [steward EXCEPT !.state = "recoveryFailed"]
           /\ UNCHANGED <<entry, store>>
     /\ UNCHANGED <<lives, slot, told>>

(* The recovery of a Steward that is closed meanwhile.                     *)
LoadedLate ==
  /\ steward.state = "shuttingDown" /\ steward.answer = "recovering"
  /\ steward' = FinishClose([steward EXCEPT !.answer = "none"], entry)
  /\ Unspent /\ UNCHANGED <<store, entry, lives, slot, told>>

(* retryDefault, defaultPrepared.                                          *)
DefaultPrepared ==
  LET e == [entry EXCEPT !.starting = NoTask]
      failed == [e EXCEPT !.failure = TRUE, !.phase = "startFailed"]
  IN /\ entry.starting.kind = "resolve"
     /\ \/ /\ steward.state # "active"
           /\ Leaves([e EXCEPT !.phase = "stopped"])
           /\ Unspent /\ UNCHANGED store
        \/ /\ steward.state = "active"
           /\ entry' = RecordDefault(e, NewRelationship)
           /\ store' = [store EXCEPT !.ids = @ + 1]
           /\ Unspent /\ UNCHANGED steward
        \/ steward.state = "active" /\ Fault /\ entry' = failed /\ UNCHANGED <<steward, store>>
     /\ UNCHANGED <<lives, slot, told>>

----------------------------------------------------------------------------
(* The child's start and its end.                                          *)

(* Creator.Start: cancellation holds until the creation is submitted; the  *)
(* Registry admits no child of a closing parent.                           *)
StartPrepared ==
  LET t == entry.starting
      Ends(pc) == entry' = [entry EXCEPT !.starting.pc = pc]
  IN /\ t.kind = "create" /\ t.pc = "prepare"
     /\ \/ t.cancelled /\ Ends("cancelled") /\ lives' = Append(lives, "gone") /\ Unspent
        \/ /\ ~t.cancelled /\ slot.stops = 0
           /\ Ends("submitted") /\ lives' = Append(lives, "creating") /\ Unspent
        \/ ~t.cancelled /\ slot.stops > 0 /\ Ends("failed") /\ lives' = Append(lives, "gone") /\ Unspent
        \/ ~t.cancelled /\ Fault /\ Ends("failed") /\ lives' = Append(lives, "gone")
     /\ UNCHANGED <<store, steward, slot, told>>

(* A creation that fails leaves what it had acquired to its close.         *)
StartSettles ==
  LET Ends(pc, state) ==
        /\ entry' = [entry EXCEPT !.starting.pc = pc]
        /\ lives' = [lives EXCEPT ![entry.creation] = state]
  IN /\ entry.starting.pc = "submitted"
     /\ \/ Ends("ready", "ready") /\ Unspent
        \/ \E state \in {"held", "ready"} : Ends("failed", state) /\ Fault
     /\ UNCHANGED <<store, steward, slot, told>>

(* started: a child that is no longer wanted, or did not start, is closed. *)
Started ==
  LET t == entry.starting
      e == [entry EXCEPT !.starting = NoTask, !.failure = t.pc # "ready"]
      ready == [e EXCEPT !.executor = TRUE, !.phase = "ready"]
  IN /\ t.kind = "create" /\ t.pc \in {"cancelled", "failed", "ready"}
     /\ Leaves(IF entry.phase = "stopping"
               THEN CloseChild([e EXCEPT !.failure = t.pc = "failed"], FALSE)
               ELSE Reconcile(IF t.pc = "ready" THEN ready ELSE [e EXCEPT !.phase = "startFailed"],
                              steward.state))
     /\ Unspent /\ UNCHANGED <<store, lives, slot, told>>

(* The wait for the child's current work: it ends, fails, or is cancelled. *)
Drained ==
  LET Ends(pc) == entry' = [entry EXCEPT !.closing.pc = pc]
  IN /\ entry.closing.pc = "drain"
     /\ \/ Ends("release") /\ Unspent
        \/ Fault /\ Ends(IF entry.closing.cancelled \/ ~Live(entry.creation) THEN "release" ELSE "failed")
     /\ UNCHANGED <<store, steward, lives, slot, told>>

(* CloseAgent: a lifetime the Registry does not know owns nothing.         *)
ReleaseSettles ==
  LET Ends(pc) == entry' = [entry EXCEPT !.closing.pc = pc]
      gone == [lives EXCEPT ![entry.creation] = "gone"]
  IN /\ entry.closing.pc = "release"
     /\ \/ Ends("closed") /\ lives' = gone /\ Unspent
        \/ Ends("failed") /\ lives' \in {lives, gone} /\ Fault
     /\ UNCHANGED <<store, steward, slot, told>>

(* Variant: the lifetime is forgotten although its close failed.           *)
ClosedForgets(e) == [e EXCEPT !.creation = 0, !.failure = TRUE, !.phase = "closeFailed"]

CloseFailed(e) == [e EXCEPT !.failure = TRUE, !.phase = "closeFailed"]

Closed ==
  LET e == [entry EXCEPT !.closing = NoTask]
      free == [e EXCEPT !.creation = 0, !.executor = FALSE,
                 !.phase = IF e.failure THEN "startFailed" ELSE "stopped"]
  IN /\ entry.closing.pc \in {"closed", "failed"}
     /\ Leaves(IF entry.closing.pc = "failed" THEN CloseFailed(e)
               ELSE IF steward.state # "shuttingDown" /\ ~e.failure
               THEN Reconcile(free, steward.state) ELSE free)
     /\ Unspent /\ UNCHANGED <<store, lives, slot, told>>

(* Another owner may close the child.                                      *)
ChildClosedElsewhere ==
  /\ \E l \in LiveStates : lives[l] = "ready" /\ lives' = [lives EXCEPT ![l] = "gone"]
  /\ Fault
  /\ UNCHANGED <<store, steward, entry, slot, told>>

(* Messages to a ready child, reports of any that is not stopping; both    *)
(* are requests the Steward awaits.                                        *)
Sends ==
  /\ steward.state = "active" /\ entry.creation # 0 /\ Uses("sends")
  /\ steward' = [steward EXCEPT !.sends = @ + 1]
  /\ UNCHANGED <<store, entry, lives, slot, told>>

SendMessage == entry.phase = "ready" /\ entry.rel.enabled /\ ~entry.rel.removed /\ Sends
ReportMessage == entry.phase \in {"ready", "starting", "draining"} /\ Sends

Delivered ==
  /\ steward.sends > 0
  /\ steward' = FinishClose([steward EXCEPT !.sends = @ - 1], entry)
  /\ Unspent /\ UNCHANGED <<store, entry, lives, slot, told>>

----------------------------------------------------------------------------
(* The provider (steward_provider.go): installs a Steward for a parent     *)
(* lifetime, and stops it on request, as often as it is asked.             *)

(* Its Steward waits for the parent to be ready and reads its log.         *)
Prepared(s) == [s EXCEPT !.state = "initializing"]

Install ==
  /\ slot.stage = "none"
  /\ slot' = [slot EXCEPT !.stage = "releaseRequired"]
  /\ steward' = Prepared(steward)
  /\ Unspent /\ UNCHANGED <<store, entry, lives, told>>

(* A stop before the installation leaves a tombstone.                      *)
Stop ==
  /\ slot.stage # "grainStopped" /\ slot.stops = 0
  /\ slot' = IF slot.stage = "none" THEN [slot EXCEPT !.stage = "grainStopped"]
             ELSE [slot EXCEPT !.stops = 1,
                     !.release = IF slot.stage = "releaseRequired" THEN "close" ELSE "poison"]
  /\ Unspent /\ UNCHANGED <<store, steward, entry, lives, told>>

(* The Steward's close, until finishClose answers it.                      *)
CloseSteward ==
  /\ slot.release = "close"
  /\ slot' = [slot EXCEPT !.release = "closing"]
  /\ IF steward.state = "terminated"
     THEN steward' = [steward EXCEPT !.answer = "ok"] /\ UNCHANGED entry
     ELSE LET s == [steward EXCEPT !.state = "shuttingDown", !.waiters = @ + 1,
                      !.answer = IF steward.state = "initializing" THEN "recovering" ELSE "none"]
              e == Reconcile(entry, "shuttingDown")
          IN /\ entry' = e
             /\ steward' = IF s.answer = "recovering" THEN s ELSE FinishClose(s, e)
  /\ Unspent /\ UNCHANGED <<store, lives, told>>

(* The release continues only from what is confirmed.                      *)
StewardClosed ==
  /\ slot.release = "closing" /\ steward.answer \in {"ok", "failed"}
  /\ slot' = IF steward.answer = "ok"
             THEN [slot EXCEPT !.stage = "stewardClosed", !.release = "poison"]
             ELSE [slot EXCEPT !.release = "none", !.stops = 0]
  /\ steward' = [steward EXCEPT !.answer = "none"]
  /\ Unspent /\ UNCHANGED <<store, entry, lives, told>>

Poisoned ==
  /\ slot.release = "poison"
  /\ \/ slot' = [slot EXCEPT !.stage = "grainStopped", !.release = "none", !.stops = 0] /\ Unspent
     \/ slot' = [slot EXCEPT !.release = "none", !.stops = 0] /\ Fault
  /\ UNCHANGED <<store, steward, entry, lives, told>>

(* A new lifetime of the parent, whose Session was flushed and closed.     *)
NewParent ==
  /\ slot.stage = "grainStopped" /\ Uses("parents")
  /\ slot' = NewSlot /\ steward' = NewSteward /\ entry' = NoEntry
  /\ store' = [store EXCEPT !.stored = Len(store.log)]
  /\ UNCHANGED <<lives, told>>

WriteBehind ==
  /\ store.stored < Len(store.log) /\ spent.used.crashes < spent.of.crashes
  /\ store' = [store EXCEPT !.stored = Len(store.log)]
  /\ Unspent /\ UNCHANGED <<steward, entry, lives, slot, told>>

Crash ==
  /\ Uses("crashes")
  /\ slot' = NewSlot /\ steward' = NewSteward /\ entry' = NoEntry
  /\ lives' = [l \in 1..Len(lives) |-> "gone"]
  /\ store' = [store EXCEPT !.log = SubSeq(@, 1, store.stored)]
  /\ UNCHANGED told

----------------------------------------------------------------------------
Tasks ==
  \/ WriteProceeds \/ StartPrepared \/ StartSettles \/ Drained \/ ReleaseSettles
  \/ CloseSteward \/ Poisoned

Results ==
  \/ ChangeSettles \/ Loaded \/ LoadedLate \/ DefaultPrepared \/ Started \/ Closed \/ Delivered
  \/ StewardClosed

Environment ==
  \/ Create \/ Configure \/ Restart \/ RestartConfiguredChild \/ ChildClosedElsewhere
  \/ SendMessage \/ ReportMessage \/ Install \/ Stop \/ NewParent \/ WriteBehind \/ Crash

Next == Tasks \/ Results \/ Environment

(* Tasks run and their results arrive; a component that failed to stop is  *)
(* asked again (agent/registry); commands and faults are never owed.       *)
Fairness ==
  /\ WF_vars(Tasks) /\ WF_vars(Results)
  /\ WF_vars(Stop /\ steward.state = "shuttingDown")

Spec == Init /\ [][Next]_vars
FairSpec == Spec /\ Fairness

----------------------------------------------------------------------------
(* Properties.                                                             *)

(* The Steward, its Companion and the provider's slot stand where their    *)
(* code can stand.                                                         *)
TypeOK ==
  /\ store.stored \in 0..Len(store.log) /\ store.saved \subseteq 1..store.ids
  /\ steward.state \in {"uninitialized", "initializing", "recoveryFailed", "active",
                        "shuttingDown", "terminated"}
  /\ entry.phase \in {"stopped", "starting", "ready", "draining", "stopping", "startFailed",
                      "closeFailed"}
  /\ entry.starting = NoTask \/ entry.closing = NoTask
  /\ entry.creation \in 0..Len(lives) + 1
  /\ slot.stage \in {"none", "releaseRequired", "stewardClosed", "grainStopped"}

(* However often a change is written again, and whatever became of earlier *)
(* attempts, the Session never refuses it: it is the next revision of the  *)
(* log it meets, or already there.                                         *)
ChangesFit ==
  entry.mutation.pc = "commit" =>
    Recorded(entry.mutation.next, store.log) \/ Fits(entry.mutation.next, store.log)

(* "Once admitted, a caller timeout does not abandon a potentially         *)
(* committed write": what was reported is in the log and on disk.          *)
ReportedIsDurable == told \subseteq 1..store.stored

(* "Create persists the intent before starting any child resources": a     *)
(* child exists only for a relationship on disk, with its configuration    *)
(* saved.                                                                  *)
IntentBeforeChild ==
  LiveStates # {} =>
    /\ \E i \in 1..store.stored : store.log[i].child = entry.rel.child
    /\ entry.rel.child \in store.saved

RelationshipsAreSound == TypeOK /\ ChangesFit /\ ReportedIsDurable /\ IntentBeforeChild

(* Never two lifetimes of a Companion, and none the Steward has forgotten. *)
OneLifetime == LiveStates \subseteq {entry.creation}

(* A Steward that reported its close, and a Grain that is stopped, leave   *)
(* no child and no work.                                                   *)
ClosedLeavesNothing ==
  steward.state = "terminated" \/ slot.stage = "grainStopped" =>
    /\ LiveStates = {} /\ steward.sends = 0
    /\ entry.starting = NoTask /\ entry.closing = NoTask /\ entry.mutation.stage # "inFlight"

(* A child is told to end only when it should: it is ready although its    *)
(* relationship is off only while a change or its close is under way.      *)
ChildFollowsRelationship ==
  steward.state = "active" /\ entry.phase = "ready" =>
    entry.rel.enabled /\ ~entry.rel.removed

ChildrenAreOwned == OneLifetime /\ ClosedLeavesNothing /\ ChildFollowsRelationship

(* Every caller is answered, every close ends, a disabled Companion is     *)
(* stopped and an enabled one started, unless something failed.            *)
StewardSettles ==
  /\ entry.mutation.replies > 0 ~> entry.mutation.replies = 0
  /\ steward.state = "shuttingDown" ~> steward.state # "shuttingDown"
  /\ (steward.state = "active" /\ entry.rel.rev > 0 /\ ~entry.failure)
       ~> (\/ steward.state # "active" \/ entry.failure \/ entry.mutation # NoMutation
           \/ entry.phase = "ready" /\ entry.rel.enabled
           \/ entry.phase = "stopped" /\ ~entry.rel.enabled)
================================================================================
