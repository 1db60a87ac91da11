--------------------------- MODULE SessionRegistry ---------------------------
(***************************************************************************)
(* The Session Registry (session/registry): one SessionID, the creations   *)
(* that compete for it, the reservation that one of them holds, and the    *)
(* lifecycle record that opens its Session Grain, closes it, deactivates   *)
(* it and frees the identity.                                              *)
(*                                                                         *)
(* The Session Grain is modelled by what the Registry sees of it: the      *)
(* admission, the recovery and the two closes (session/actor), each with   *)
(* the requests in flight between the two mailboxes.  How it writes its    *)
(* log is in module SessionGrain.                                          *)
(*                                                                         *)
(* One coordinator registers a creation before it closes it and never      *)
(* again afterwards (registry_messages.go: retries reuse a creation, new   *)
(* creations must not).  Start and Close requests of any creation, current *)
(* or not, may arrive at any time.                                         *)
(***************************************************************************)
EXTENDS Integers, FiniteSets, Sequences, SequencesExt

CONSTANTS
  Creation,     \* creation identities
  NoCreation,   \* the empty creation identity
  Callers,      \* requests whose reply the Registry may defer
  MaxInst,      \* bound: activations of the Session Grain
  MaxAttempts,  \* bound: business closes sent for one creation
  MaxFaults     \* bound: framework errors, time-outs and lost activations

ASSUME RegistryAssumption ==
  /\ NoCreation \notin Creation
  /\ {MaxInst, MaxAttempts, MaxFaults} \subseteq Nat

VARIABLES
  up,      \* the Registry Grain is active
  grant,   \* authority.registrations[SessionID]
  entry,   \* RegistryGrain.sessions[SessionID]
  opening, \* the Initialize or Resume request in flight
  closes,  \* the business Close requests in flight, oldest first
  task,    \* the closure's task outside the mailbox
  grain,   \* the Session Grain
  calls,   \* what each caller waits for
  hist,    \* history: who opened, whose close was acknowledged
  spent    \* bounds used: activations and faults

registryVars == <<up, grant, entry>>
vars == <<up, grant, entry, opening, closes, task, grain, calls, hist, spent>>

-----------------------------------------------------------------------------
(* State.                                                                  *)

NoGrant == [creation |-> NoCreation, instance |-> 0, retired |-> FALSE]
NoOpening == [at |-> "none", creation |-> NoCreation, mode |-> "none"]
NoTask == [stage |-> "none", attempt |-> 0]
NoCall == [for |-> "nothing", creation |-> NoCreation]

\* A new creation replaces the whole lifecycle record.
NewEntry(c) ==
  [creation |-> c, header |-> FALSE, input |-> "none", openers |-> {}, settled |-> TRUE,
   closing |-> FALSE, checkpoint |-> FALSE, closers |-> {}, running |-> FALSE, result |-> FALSE]

\* dirty: committed events that storage does not hold yet.
NoGrain ==
  [inst |-> 0, phase |-> "empty", creation |-> NoCreation, closing |-> FALSE, dirty |-> FALSE]

Init ==
  /\ up = TRUE
  /\ grant = NoGrant
  /\ entry = NewEntry(NoCreation)
  /\ opening = NoOpening
  /\ closes = <<>>
  /\ task = NoTask
  /\ grain = NoGrain
  /\ calls = [k \in Callers |-> NoCall]
  /\ hist = [owners |-> [c \in Creation |-> {}], acked |-> {}, lost |-> {}]
  /\ spent = [inst |-> 0, faults |-> 0]

Fault ==
  /\ spent.faults < MaxFaults
  /\ spent' = [spent EXCEPT !.faults = @ + 1]

Answered(who) == [k \in Callers |-> IF k \in who THEN NoCall ELSE calls[k]]

-----------------------------------------------------------------------------
(* The creation authority (authority.go).                                  *)

ReserveAllows(c) == grant = NoGrant \/ (grant.creation = c /\ ~grant.retired)
Reserved(c) == IF grant = NoGrant THEN [NoGrant EXCEPT !.creation = c] ELSE grant

\* A reactivated Grain may use the grant of the activation before it.
ClaimAnyInstance(c, i) == grant.creation = c /\ ~grant.retired

ClaimAllows(c, i) ==
  grant.creation = c /\ ~grant.retired /\ grant.instance \in {0, i}

Check(c) == grant.creation = c

Retire == grant' = [grant EXCEPT !.retired = TRUE]
ReleaseAllows(c) == grant = NoGrant \/ (grant.creation = c /\ grant.retired)

\* RegistryGrain.reserve: a completed creation is refused while its record lasts.
Reserve(c) == ~(entry.result /\ entry.creation = c) /\ ReserveAllows(c)
EntryOf(c) == IF entry.creation = c THEN entry ELSE NewEntry(c)

-----------------------------------------------------------------------------
(* Registration and opening (registry_registration.go, registry_open.go).  *)

Matches(e, mode) == e.input \in {"none", mode}

RegisterSession(c, mode) ==
  /\ up /\ c \notin hist.acked
  /\ ~entry.closing /\ Reserve(c) /\ EntryOf(c).input = "none"
  /\ grant' = Reserved(c)
  /\ entry' = [EntryOf(c) EXCEPT !.input = mode]
  /\ UNCHANGED <<up, opening, closes, task, grain, calls, hist, spent>>

\* GrainOf fails: this attempt ends at once with an error.
RouteFails(e, k) ==
  /\ Fault
  /\ entry' = [e EXCEPT !.openers = {}]
  /\ UNCHANGED <<opening, calls>>

SendOpen(e, c, mode, k) ==
  /\ entry' = [e EXCEPT !.openers = {k}, !.settled = FALSE]
  /\ opening' = [at |-> "mail", creation |-> c, mode |-> mode]
  /\ calls' = [calls EXCEPT ![k] = [for |-> "open", creation |-> c]]
  /\ UNCHANGED spent

JoinOpen(e, c, k) ==
  /\ entry' = [e EXCEPT !.openers = @ \cup {k}]
  /\ calls' = [calls EXCEPT ![k] = [for |-> "open", creation |-> c]]
  /\ UNCHANGED <<opening, spent>>

OpenSession(k, c, mode) ==
  /\ up /\ calls[k] = NoCall
  /\ ~entry.closing /\ Reserve(c) /\ Matches(EntryOf(c), mode)
  /\ grant' = Reserved(c)
  /\ LET e == [EntryOf(c) EXCEPT !.input = mode] IN
       IF e.openers = {} THEN RouteFails(e, k) \/ SendOpen(e, c, mode, k)
                         ELSE JoinOpen(e, c, k)
  /\ UNCHANGED <<up, closes, task, grain, hist>>

\* CreateSession and ResumeSession carry their input.
CreateOrResume(k, c, mode) == c \notin hist.acked /\ OpenSession(k, c, mode)

\* StartSession uses the registered input, and only while c owns the identity.
StartSession(k, c) ==
  /\ Check(c) /\ entry.creation = c /\ entry.input # "none"
  /\ OpenSession(k, c, entry.input)

\* The callback of the initialization request.
OpenReturns ==
  /\ up /\ opening.at \in {"ok", "err"}
  /\ entry' = [entry EXCEPT !.header = @ \/ (opening.at = "ok" /\ opening.creation = entry.creation),
                            !.openers = {}, !.settled = TRUE]
  /\ calls' = Answered(entry.openers)
  /\ opening' = NoOpening
  /\ UNCHANGED <<up, grant, closes, task, grain, hist, spent>>

-----------------------------------------------------------------------------
(* Closing (registry_close.go, registry_close_wait.go).                    *)

Running(e) == [e EXCEPT !.running = TRUE]
CloseFails(e) == [e EXCEPT !.closers = {}, !.running = FALSE]

Attempt == IF closes = <<>> THEN 1 ELSE Last(closes).attempt + 1

\* The address or the task may be refused; a retained business close is not sent again.
RunClosure(e, callsNow) ==
  \/ /\ Fault
     /\ entry' = CloseFails(e)
     /\ task' = NoTask
     /\ calls' = [k \in Callers |-> IF k \in e.closers THEN NoCall ELSE callsNow[k]]
     /\ UNCHANGED closes
  \/ /\ e.checkpoint
     /\ entry' = Running(e)
     /\ task' = [stage |-> "authorized", attempt |-> 0]
     /\ calls' = callsNow
     /\ UNCHANGED <<closes, spent>>
  \/ /\ ~e.checkpoint /\ Attempt <= MaxAttempts
     /\ entry' = Running(e)
     /\ task' = [stage |-> "business", attempt |-> Attempt]
     /\ closes' = Append(closes, [at |-> "mail", attempt |-> Attempt, creation |-> e.creation])
     /\ calls' = callsNow
     /\ UNCHANGED spent

WaitForInitialization(e, callsNow) ==
  /\ entry' = Running(e)
  /\ task' = [stage |-> "settling", attempt |-> 0]
  /\ calls' = callsNow
  /\ UNCHANGED <<closes, spent>>

CloseSession(k, c) ==
  /\ up /\ calls[k] = NoCall
  /\ ~(entry.result /\ entry.creation = c) /\ Check(c)
  /\ LET e == [entry EXCEPT !.closing = TRUE, !.closers = @ \cup {k}]
         callsNow == [calls EXCEPT ![k] = [for |-> "close", creation |-> c]] IN
       IF e.running
       THEN /\ entry' = e /\ calls' = callsNow
            /\ UNCHANGED <<closes, task, spent>>
       ELSE IF ~e.settled THEN WaitForInitialization(e, callsNow)
                          ELSE RunClosure(e, callsNow)
  /\ UNCHANGED <<up, grant, opening, grain, hist>>

\* The close goes on while the initialization is still in flight.
ContinueClosureEarly ==
  /\ up /\ task.stage = "settling"
  /\ RunClosure([entry EXCEPT !.running = FALSE], calls)
  /\ UNCHANGED <<up, grant, opening, grain, hist>>

\* The task saw the initialization settle; continueClosure goes on with the close.
ContinueClosure ==
  /\ up /\ task.stage = "settling" /\ entry.settled
  /\ RunClosure([entry EXCEPT !.running = FALSE], calls)
  /\ UNCHANGED <<up, grant, opening, grain, hist>>

Awaited == {n \in DOMAIN closes : closes[n].attempt = task.attempt}

\* The callback of the awaited business close; a late answer finds no callback.
CloseReturns(n) ==
  /\ up /\ task.stage = "business" /\ n \in Awaited
  /\ \/ /\ closes[n].at = "ok"
        /\ Retire
        /\ entry' = [entry EXCEPT !.checkpoint = TRUE]
        /\ task' = [task EXCEPT !.stage = "authorized"]
     \/ /\ closes[n].at = "err"
        /\ task' = [task EXCEPT !.stage = "failed"]
        /\ UNCHANGED <<grant, entry>>
  /\ closes' = RemoveAt(closes, n)
  /\ UNCHANGED <<up, opening, grain, calls, hist, spent>>

CloseTimesOut ==
  /\ up /\ task.stage = "business" /\ Fault
  /\ \A n \in Awaited : closes[n].at \notin {"ok", "err"}
  /\ task' = [task EXCEPT !.stage = "failed"]
  /\ UNCHANGED <<up, grant, entry, opening, closes, grain, calls, hist>>

Unanswered == {"claim", "claimed", "refused", "restoring", "drain"}
Failing(r) == IF r.at \in Unanswered THEN [r EXCEPT !.at = "err"] ELSE r

\* An activation ends: OnDeactivate answers what it still holds, memory is gone.
Deactivate ==
  /\ grain' = NoGrain
  /\ closes' = [n \in DOMAIN closes |-> Failing(closes[n])]
  /\ opening' = Failing(opening)

\* PoisonPill: TellGrain returns when the target processed it.
Poison ==
  /\ up /\ task.stage = "authorized"
  /\ Deactivate
  /\ task' = [task EXCEPT !.stage = "stopped"]
  /\ UNCHANGED <<up, grant, entry, calls, hist, spent>>

\* It reports a failure, whether the target processed it or not.
PoisonFails ==
  /\ up /\ task.stage = "authorized" /\ Fault
  /\ Deactivate \/ UNCHANGED <<grain, closes, opening>>
  /\ task' = [task EXCEPT !.stage = "failed"]
  /\ UNCHANGED <<up, grant, entry, calls, hist>>

\* A failed close keeps its callers for the retry.
FinishClosureSilent ==
  /\ up /\ task.stage \in {"stopped", "failed"}
  /\ task' = NoTask
  /\ IF task.stage = "stopped" /\ ReleaseAllows(entry.creation)
     THEN /\ grant' = NoGrant
          /\ entry' = [NewEntry(entry.creation) EXCEPT !.header = entry.header, !.result = TRUE]
          /\ hist' = [hist EXCEPT !.acked = @ \cup {entry.creation}]
          /\ calls' = Answered(entry.closers)
     ELSE /\ entry' = [entry EXCEPT !.running = FALSE]
          /\ UNCHANGED <<grant, hist, calls>>
  /\ UNCHANGED <<up, opening, closes, grain, spent>>

\* closureFinished reaches the mailbox.
FinishClosure ==
  /\ up /\ task.stage \in {"stopped", "failed"}
  /\ task' = NoTask
  /\ IF task.stage = "stopped" /\ ReleaseAllows(entry.creation)
     THEN /\ grant' = NoGrant
          /\ entry' = [NewEntry(entry.creation) EXCEPT !.header = entry.header, !.result = TRUE]
          /\ hist' = [hist EXCEPT !.acked = @ \cup {entry.creation}]
     ELSE /\ entry' = CloseFails(entry)
          /\ UNCHANGED <<grant, hist>>
  /\ calls' = Answered(entry.closers)
  /\ UNCHANGED <<up, opening, closes, grain, spent>>

\* OnDeactivate at system shutdown: everyone is answered, the records are gone.
StopRegistry ==
  /\ up /\ up' = FALSE
  /\ entry' = NewEntry(NoCreation)
  /\ task' = NoTask
  /\ calls' = Answered(entry.openers \cup entry.closers)
  /\ UNCHANGED <<grant, opening, closes, grain, hist, spent>>

-----------------------------------------------------------------------------
(* The Session Grain (session/actor).                                      *)

\* Any request activates the Grain; OnActivate draws a fresh instanceID.
MayActivate == grain.inst # 0 \/ spent.inst < MaxInst
Active == IF grain.inst = 0 THEN [NoGrain EXCEPT !.inst = spent.inst + 1] ELSE grain
Activated == IF grain.inst = 0 THEN [spent EXCEPT !.inst = @ + 1] ELSE spent
Busy == grain.phase \in {"admitting", "restoring"}

\* Initialize or Resume.
TakeOpen ==
  /\ opening.at = "mail" /\ MayActivate
  /\ spent' = Activated
  /\ IF Busy \/ Active.closing \/ (grain.phase = "open" /\ grain.creation # opening.creation)
     THEN grain' = Active /\ opening' = [opening EXCEPT !.at = "err"]
     ELSE IF grain.phase = "open"
     THEN grain' = Active /\ opening' = [opening EXCEPT !.at = "ok"]
     ELSE grain' = [Active EXCEPT !.phase = "admitting"] /\ opening' = [opening EXCEPT !.at = "claim"]
  /\ UNCHANGED <<registryVars, closes, task, calls, hist>>

\* The Registry answers the Claim of an admission.
ClaimForOpen ==
  /\ up /\ opening.at = "claim"
  /\ IF ClaimAllows(opening.creation, grain.inst)
     THEN /\ grant' = [grant EXCEPT !.instance = grain.inst]
          /\ opening' = [opening EXCEPT !.at = "claimed"]
     ELSE /\ opening' = [opening EXCEPT !.at = "refused"]
          /\ UNCHANGED grant
  /\ UNCHANGED <<up, entry, closes, task, grain, calls, hist, spent>>

\* finishAdmission: a fresh log is installed, a stored one is read first.
FinishAdmission ==
  \/ /\ opening.at = "refused"
     /\ grain' = [grain EXCEPT !.phase = "empty"]
     /\ opening' = [opening EXCEPT !.at = "err"]
     /\ UNCHANGED <<registryVars, closes, task, calls, hist, spent>>
  \/ /\ opening.at = "claimed" /\ opening.mode = "resume"
     /\ grain' = [grain EXCEPT !.phase = "restoring"]
     /\ opening' = [opening EXCEPT !.at = "restoring"]
     /\ UNCHANGED <<registryVars, closes, task, calls, hist, spent>>
  \/ /\ opening.at = "claimed" /\ opening.mode = "create"
     /\ \E unwritten \in BOOLEAN :
          grain' = [grain EXCEPT !.phase = "open", !.creation = opening.creation, !.dirty = unwritten]
     /\ opening' = [opening EXCEPT !.at = "ok"]
     /\ hist' = [hist EXCEPT !.owners[opening.creation] = @ \cup {grain.inst}]
     /\ UNCHANGED <<registryVars, closes, task, calls, spent>>

FinishResume ==
  /\ opening.at = "restoring"
  /\ \/ /\ grain' = [grain EXCEPT !.phase = "open", !.creation = opening.creation]
        /\ opening' = [opening EXCEPT !.at = "ok"]
        /\ hist' = [hist EXCEPT !.owners[opening.creation] = @ \cup {grain.inst}]
        /\ UNCHANGED spent
     \/ /\ Fault
        /\ grain' = [grain EXCEPT !.phase = "empty"]
        /\ opening' = [opening EXCEPT !.at = "err"]
        /\ UNCHANGED hist
  /\ UNCHANGED <<registryVars, closes, task, calls>>

Commit ==
  /\ grain.phase = "open" /\ ~grain.closing
  /\ grain' = [grain EXCEPT !.dirty = TRUE]
  /\ UNCHANGED <<registryVars, opening, closes, task, calls, hist, spent>>

Draining(at) == [n \in DOMAIN closes |->
  IF closes[n].at = "drain" THEN [closes[n] EXCEPT !.at = at] ELSE closes[n]]

\* completeWrite and finishClose: everyone who waits for the drain is answered.
WriteEnds ==
  /\ grain.phase = "open" /\ grain.dirty
  /\ \/ grain' = [grain EXCEPT !.dirty = FALSE] /\ closes' = Draining("ok") /\ UNCHANGED spent
     \/ closes' = Draining("err") /\ Fault /\ UNCHANGED grain
  /\ UNCHANGED <<registryVars, opening, task, calls, hist>>

\* Requests of one sender are processed in order.
FirstInMail(n) == closes[n].at = "mail" /\ \A m \in DOMAIN closes : m < n => closes[m].at # "mail"

Becomes(n, at) == closes' = [closes EXCEPT ![n].at = at]

\* startClose with a log, closeEmpty without one.
TakeClose(n) ==
  /\ n \in DOMAIN closes /\ FirstInMail(n) /\ MayActivate
  /\ spent' = Activated
  /\ CASE grain.phase = "open" /\ grain.creation # closes[n].creation ->
            grain' = grain /\ Becomes(n, "err")
       [] grain.phase = "open" /\ grain.creation = closes[n].creation ->
            /\ grain' = [grain EXCEPT !.closing = TRUE]
            /\ Becomes(n, IF grain.dirty THEN "drain" ELSE "ok")
       [] Busy -> grain' = grain /\ Becomes(n, "err")
       [] grain.phase = "empty" /\ Active.closing ->
            grain' = grain /\ Becomes(n, IF grain.creation = closes[n].creation THEN "ok" ELSE "err")
       [] grain.phase = "empty" /\ ~Active.closing ->
            grain' = Active /\ Becomes(n, "claim")
  /\ UNCHANGED <<registryVars, opening, task, calls, hist>>

\* An empty close asks the Registry for the same authority as an admission.
ClaimForClose(n) ==
  /\ up /\ n \in DOMAIN closes /\ closes[n].at = "claim"
  /\ IF ClaimAllows(closes[n].creation, grain.inst)
     THEN grant' = [grant EXCEPT !.instance = grain.inst] /\ Becomes(n, "claimed")
     ELSE Becomes(n, "refused") /\ UNCHANGED grant
  /\ UNCHANGED <<up, entry, opening, task, grain, calls, hist, spent>>

FinishEmptyClose(n) ==
  /\ n \in DOMAIN closes
  /\ \/ /\ closes[n].at = "claimed" /\ grain.phase = "empty"
        /\ grain' = [grain EXCEPT !.closing = TRUE, !.creation = closes[n].creation]
        /\ Becomes(n, "ok")
     \/ /\ closes[n].at = "refused" \/ (closes[n].at = "claimed" /\ grain.phase # "empty")
        /\ Becomes(n, "err") /\ UNCHANGED grain
  /\ UNCHANGED <<registryVars, opening, task, calls, hist, spent>>

\* The Registry's answer to a Claim is late or lost.
ClaimTimesOut ==
  /\ Fault
  /\ \/ /\ opening.at \in {"claim", "claimed"}
        /\ opening' = [opening EXCEPT !.at = "refused"] /\ UNCHANGED closes
     \/ /\ \E n \in DOMAIN closes : closes[n].at \in {"claim", "claimed"} /\ Becomes(n, "refused")
        /\ UNCHANGED opening
  /\ UNCHANGED <<registryVars, task, grain, calls, hist>>

\* The answer of a business close nobody waits for any more.
LateAnswer(n) ==
  /\ n \in DOMAIN closes /\ closes[n].at \in {"ok", "err"}
  /\ task.stage # "business" \/ n \notin Awaited
  /\ closes' = RemoveAt(closes, n)
  /\ UNCHANGED <<registryVars, opening, task, grain, calls, hist, spent>>

\* The framework loses an activation.
GrainLost ==
  /\ grain.inst # 0 /\ Fault
  /\ Deactivate
  /\ hist' = [hist EXCEPT !.lost = @ \cup {grain.inst}]
  /\ UNCHANGED <<registryVars, task, calls>>

-----------------------------------------------------------------------------
(* Specification.                                                          *)

Modes == {"create", "resume"}

Clients ==
  \/ \E c \in Creation, mode \in Modes : RegisterSession(c, mode)
  \/ \E k \in Callers, c \in Creation, mode \in Modes : CreateOrResume(k, c, mode)
  \/ \E k \in Callers, c \in Creation : StartSession(k, c) \/ CloseSession(k, c)
  \/ Commit

Answers == ClaimForOpen \/ \E n \in DOMAIN closes : ClaimForClose(n) \/ CloseReturns(n) \/ LateAnswer(n)
Mailbox == OpenReturns \/ ContinueClosure \/ FinishClosure
Session ==
  TakeOpen \/ FinishAdmission \/ \E n \in DOMAIN closes : TakeClose(n) \/ FinishEmptyClose(n)

Next ==
  \/ Clients \/ Answers \/ Mailbox \/ Session
  \/ FinishResume \/ WriteEnds \/ Poison
  \/ PoisonFails \/ CloseTimesOut \/ ClaimTimesOut \/ GrainLost \/ StopRegistry

Spec == Init /\ [][Next]_vars

\* Mailboxes deliver, storage and TellGrain return; clients need not call again.
Fairness ==
  /\ WF_vars(Answers) /\ WF_vars(Mailbox) /\ WF_vars(Session)
  /\ WF_vars(FinishResume) /\ WF_vars(WriteEnds) /\ WF_vars(Poison)

FairSpec == Spec /\ Fairness

-----------------------------------------------------------------------------
(* Properties.                                                             *)

\* Every variable has its type; a record that holds a result holds no work
\* (the comment on lifecycle.result).
TypeOK ==
  /\ entry.result => entry.input = "none" /\ ~entry.closing /\ ~entry.checkpoint
  /\ up \in BOOLEAN
  /\ grant \in [creation : Creation \cup {NoCreation}, instance : 0 .. MaxInst, retired : BOOLEAN]
  /\ entry \in [creation : Creation \cup {NoCreation}, header : BOOLEAN, input : Modes \cup {"none"},
                openers : SUBSET Callers, settled : BOOLEAN, closing : BOOLEAN, checkpoint : BOOLEAN,
                closers : SUBSET Callers, running : BOOLEAN, result : BOOLEAN]
  /\ opening \in [at : Unanswered \cup {"none", "mail", "ok", "err"},
                  creation : Creation \cup {NoCreation}, mode : Modes \cup {"none"}]
  /\ closes \in Seq([at : Unanswered \cup {"mail", "ok", "err"}, attempt : 1 .. MaxAttempts,
                     creation : Creation])
  /\ task \in [stage : {"none", "settling", "business", "authorized", "stopped", "failed"},
               attempt : 0 .. MaxAttempts]
  /\ grain \in [inst : 0 .. MaxInst, phase : {"empty", "admitting", "restoring", "open"},
                creation : Creation \cup {NoCreation}, closing : BOOLEAN, dirty : BOOLEAN]
  /\ calls \in [Callers -> [for : {"nothing", "open", "close"}, creation : Creation \cup {NoCreation}]]
  /\ hist \in [owners : [Creation -> SUBSET (1 .. MaxInst)], acked : SUBSET Creation,
               lost : SUBSET (1 .. MaxInst)]
  /\ spent \in [inst : 0 .. MaxInst, faults : 0 .. MaxFaults]

Owner == IF grain.phase = "restoring" THEN opening.creation ELSE grain.creation

\* A Session Grain that reads or holds a log is the one activation the current
\* reservation was granted to (Claim and Release in authority.go).
OneOwner ==
  grain.phase \in {"restoring", "open"} => grant.creation = Owner /\ grant.instance = grain.inst

\* A creation opens in one activation only: one that lost its memory may not
\* open again with what storage happens to hold (Claim's instance check).
OneActivation == \A c \in Creation : Cardinality(hist.owners[c]) <= 1

\* While the Session Grain still owes an answer to a business close, of whatever
\* attempt, no initialization is in flight (settled, entry.closure).
CloseAwaitsOpening ==
  opening # NoOpening => \A n \in DOMAIN closes : closes[n].at \in {"ok", "err"}

\* An acknowledged close left neither the reservation nor a log of that creation
\* (finishClosure), and nothing brings them back.
AcknowledgedIsGone ==
  \A c \in hist.acked :
    /\ grant.creation # c
    /\ grain.phase \in {"restoring", "open"} => Owner # c

\* A free identity has no log and no request in flight that could make one.
FreeIdentityIsQuiet == grant = NoGrant => grain.phase = "empty" /\ opening = NoOpening

\* The Grain is deactivated only when its admission was revoked and everything
\* it acknowledged is stored (runClosure: close, retire, then PoisonPill).
DeactivatesDrained ==
  task.stage = "authorized" =>
    /\ grant.retired
    /\ ~Busy
    /\ grain.phase = "open" => grain.closing /\ ~grain.dirty

Listed ==
  up /\ grant # NoGrant /\ ~grant.retired /\ entry.creation = grant.creation /\ entry.header

\* What ListSessions, FindSession and ResolveSession show is a log that is open
\* under that creation, unless the framework lost its activation.
ListedIsOpen ==
  Listed /\ grant.instance \notin hist.lost =>
    grain.phase = "open" /\ grain.creation = entry.creation /\ grain.inst = grant.instance

\* The input a creation was registered with stays the one it opens with.
OpensAsRegistered == up /\ opening # NoOpening => opening.mode = entry.input

\* Every caller whose reply was deferred is answered.
CallersAnswered == \A k \in Callers : calls[k] # NoCall ~> calls[k] = NoCall

\* One creation owns the Session, in one activation, with its own input.
OwnershipIsUnique == TypeOK /\ OneOwner /\ OneActivation /\ OpensAsRegistered

\* A close that was acknowledged ended a drained Session and left nothing.
ClosedIsGone ==
  /\ AcknowledgedIsGone /\ FreeIdentityIsQuiet
  /\ DeactivatesDrained /\ CloseAwaitsOpening /\ ListedIsOpen

\* A Session has one owner, and a Session reported closed is gone before its
\* identity is free.
SessionsAreOwned == OwnershipIsUnique /\ ClosedIsGone
=============================================================================
