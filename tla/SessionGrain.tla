----------------------------- MODULE SessionGrain -----------------------------
(***************************************************************************)
(* One Session: the Grain that owns its in-memory log                      *)
(* (session/actor), the creation authority that decides which activation   *)
(* may own it (session/registry/authority.go), and the SQLite log it       *)
(* writes behind (session/persistence/sqlite/adapter.go).                  *)
(*                                                                         *)
(* A commit is acknowledged from memory; one detached task at a time       *)
(* copies the unwritten suffix to storage.  Flush and Close are the only   *)
(* acknowledgements of durability.  Between any two steps an activation    *)
(* may be torn down by the framework (its tasks then run on as orphans),   *)
(* the process may crash, a storage call may fail, and a storage call may  *)
(* commit although it reports a failure.  Behind the rows that can be read *)
(* storage may hold a torn tail, rows that do not decode: nobody can write *)
(* behind it, and only the repair of a recovery removes it.                *)
(***************************************************************************)
EXTENDS Integers, Sequences, SequencesExt

CONSTANTS
    Creation,   \* creation identities (UUIDs chosen by the coordinator)
    None,       \* absent creation or header
    Seeds,      \* kinds of the inherited prefixes a creation may start from
    Batches,    \* kinds of the event batches a WritePlan may build
    MaxTears,   \* bound: torn tails that storage ever gets
    MaxLen,     \* bound: length of the in-memory log
    MaxInst     \* bound: activations of the Grain over all process lives

Kind == {"turn/start", "turn/end", "session/end-seed"}

ASSUME ConstantsAssumption ==
    /\ None \notin Creation
    /\ Seeds \subseteq Seq(Kind)
    /\ Batches \subseteq Seq(Kind)
    /\ MaxTears \in Nat
    /\ MaxLen \in Nat
    /\ MaxInst \in Nat

Inst == 1 .. MaxInst

\* An Event keeps the identity of whoever built it, so that two logs that
\* disagree at one sequence number differ in the model as they do in bytes.
Author == Creation \cup {"recovery"}
Event == [kind : Kind, by : Author]

-----------------------------------------------------------------------------
VARIABLES
    disk,       \* the stored header, readable rows and torn tail of the Session
    grant,      \* authority.registrations[SessionID]
    modes,      \* how each creation was registered: "none", "create", "resume"
    inst,       \* running activation, 0 when the Grain is not active
    spawned,    \* activations started so far (each draws a fresh instanceID)
    opening,    \* owner.admission and owner.restoring
    emptyClose, \* closeEmpty waiting for its Claim reply
    live,       \* owner.history # nil
    owner,      \* owner.creationID
    header,     \* history.Header(), named by the creation that wrote it
    mem,        \* the committed in-memory log
    durable,    \* owner.durable
    writing,    \* owner.writing # nil
    failed,     \* owner.writeErr # nil
    flushes,    \* barriers of the pending Flush requests
    closing,    \* owner.closing # nil
    closeAt,    \* owner.closing.barrier
    waiters,    \* owner.closing.replies is not empty
    task,       \* storage task started by each activation
    rest,       \* restore task started by each activation
    ackedLog,   \* history: the longest log acknowledged as durable
    drained,    \* history: creations whose Close was answered without error
    served      \* history: the activation that installed each creation

ownerVars == <<live, owner, header, mem, durable>>
writeVars == <<writing, failed, flushes, waiters>>
closeVars == <<closing, closeAt>>
histVars == <<ackedLog, drained, served>>
authVars == <<grant, modes>>
vars == <<disk, grant, modes, inst, spawned, opening, emptyClose, ownerVars,
          writeVars, closeVars, task, rest, histVars>>

-----------------------------------------------------------------------------
(* Data. *)

Events(kinds, who) == [k \in 1 .. Len(kinds) |-> [kind |-> kinds[k], by |-> who]]

Take(log, n) == SubSeq(log, 1, n)

\* NewLog closes an inherited prefix with an end-seed marker of its own.
EndSeed(log, who) ==
    IF log # <<>> /\ Last(log).kind = "session/end-seed"
    THEN log
    ELSE Append(log, [kind |-> "session/end-seed", by |-> who])

TurnMarks == {"turn/start", "turn/end"}

\* The last turn mark opens a turn that nothing closed.
OpenTurn(log) ==
    \E i \in 1 .. Len(log) :
        /\ log[i].kind = "turn/start"
        /\ \A j \in (i + 1) .. Len(log) : log[j].kind \notin TurnMarks

Closers(log) ==
    IF OpenTurn(log) THEN <<[kind |-> "turn/end", by |-> "recovery"]>> ELSE <<>>

Idle == [stage |-> "idle", header |-> None, log |-> <<>>, first |-> 0,
         fresh |-> FALSE, err |-> FALSE]
NoRest == [stage |-> "idle", log |-> <<>>, torn |-> FALSE, cuts |-> 0,
           err |-> FALSE]
NotOpening == [stage |-> "none", creation |-> None, mode |-> "none"]
NoGrant == [creation |-> None, instance |-> 0, retired |-> FALSE]

\* rows are the rows a Load can read, torn is the marker it returns with them,
\* and cuts counts the tails removed so far.
NoDisk == [header |-> None, rows |-> <<>>, torn |-> FALSE, cuts |-> 0]

-----------------------------------------------------------------------------
(* Creation authority: session/registry/authority.go.                      *)

\* Reserve binds the SessionID to a fresh creation; its mode stays fixed.
Reserve(c, mode) ==
    /\ grant = NoGrant
    /\ modes[c] = "none"
    /\ grant' = [NoGrant EXCEPT !.creation = c]
    /\ modes' = [modes EXCEPT ![c] = mode]
    /\ UNCHANGED <<disk, inst, spawned, opening, emptyClose, ownerVars,
                   writeVars, closeVars, task, rest, histVars>>

MayClaimAnyInstance(c, i) == grant.creation = c /\ ~grant.retired

MayClaim(c, i) ==
    /\ grant.creation = c
    /\ ~grant.retired
    /\ grant.instance \in {0, i}

\* The answer of the authority, bound to the first activation that asks.
Claimed(c, i) ==
    IF MayClaim(c, i) THEN [grant EXCEPT !.instance = i] ELSE grant

\* After the business close answered, the registry revokes the admission.
Retire ==
    /\ grant.creation \in drained
    /\ ~grant.retired
    /\ grant' = [grant EXCEPT !.retired = TRUE]
    /\ UNCHANGED <<disk, modes, inst, spawned, opening, emptyClose, ownerVars,
                   writeVars, closeVars, task, rest, histVars>>

\* The identity becomes free once the retired activation is gone.
Release ==
    /\ grant.retired
    /\ inst = 0
    /\ grant' = NoGrant
    /\ UNCHANGED <<disk, modes, inst, spawned, opening, emptyClose, ownerVars,
                   writeVars, closeVars, task, rest, histVars>>

-----------------------------------------------------------------------------
(* Activation, deactivation, crash.                                        *)

\* Every OnActivate draws a new instanceID.
Activate ==
    /\ inst = 0
    /\ spawned < MaxInst
    /\ grant # NoGrant
    /\ spawned' = spawned + 1
    /\ inst' = spawned + 1
    /\ UNCHANGED <<disk, authVars, opening, emptyClose, ownerVars, writeVars,
                   closeVars, task, rest, histVars>>

\* finishFlushes and finishClose with an error.
KeepWaiters == UNCHANGED <<flushes, waiters>>
FailWaiters == flushes' = {} /\ waiters' = FALSE

GrainGone ==
    /\ inst' = 0
    /\ opening' = NotOpening
    /\ emptyClose' = None
    /\ live' = FALSE /\ owner' = None /\ header' = None
    /\ mem' = <<>> /\ durable' = 0
    /\ writing' = FALSE /\ failed' = FALSE /\ flushes' = {} /\ waiters' = FALSE
    /\ closing' = FALSE /\ closeAt' = 0

\* OnDeactivate cancels the contexts of its tasks and fails every waiting
\* request.  A cancelled storage call may still commit, so the task record
\* survives as an orphan: forced teardown (any time) and the PoisonPill of a
\* finished close are the same handler.
Deactivate ==
    /\ inst # 0
    /\ GrainGone
    /\ UNCHANGED <<disk, authVars, spawned, task, rest, histVars>>

\* The process dies: memory, tasks and the authority are lost, storage stays.
Crash ==
    /\ grant # NoGrant
    /\ GrainGone
    /\ grant' = NoGrant
    /\ task' = [i \in Inst |-> Idle]
    /\ rest' = [i \in Inst |-> NoRest]
    /\ UNCHANGED <<disk, modes, spawned, histVars>>

\* Damage from outside: a row that does not decode takes the next sequence
\* number (what TestAdapterMarksAndRepairsOnlyATornTail inserts).
TailTorn ==
    /\ disk.header # None
    /\ ~disk.torn
    /\ disk.cuts < MaxTears
    /\ disk' = [disk EXCEPT !.torn = TRUE]
    /\ UNCHANGED <<authVars, inst, spawned, opening, emptyClose, ownerVars,
                   writeVars, closeVars, task, rest, histVars>>

-----------------------------------------------------------------------------
(* Write-behind: session/actor/grain_persistence.go.                       *)

NewTaskFromLast(log, hdr, first, bad) ==
    [stage |-> IF first = 0 \/ bad THEN "load" ELSE "append",
     header |-> hdr, log |-> log, first |-> first - 1,
     fresh |-> first = 0, err |-> FALSE]

NewTask(log, hdr, first, bad) ==
    [stage |-> IF first = 0 \/ bad THEN "load" ELSE "append",
     header |-> hdr, log |-> log, first |-> first,
     fresh |-> first = 0, err |-> FALSE]

\* startWrite on the log and durable prefix of the next state: nothing to do,
\* a task is launched, or PipeToSelf refuses it and every waiter is failed.
StartWrite(tasks, busy, bad, fl, wt) ==
    \/ /\ busy \/ durable' >= Len(mem')
       /\ writing' = busy /\ failed' = bad /\ flushes' = fl /\ waiters' = wt
       /\ task' = tasks
    \/ /\ ~busy /\ durable' < Len(mem')
       /\ writing' = TRUE /\ failed' = bad /\ flushes' = fl /\ waiters' = wt
       /\ task' = [tasks EXCEPT ![inst] = NewTask(mem', header', durable', bad)]
    \/ /\ ~busy /\ durable' < Len(mem')
       /\ writing' = FALSE /\ failed' = TRUE /\ FailWaiters
       /\ task' = tasks

\* persist, first half: an uncertain or first write compares storage with
\* the captured log before it appends.
Reconciled(t) ==
    IF disk.header = None
    THEN IF t.first # 0
         THEN [t EXCEPT !.stage = "done", !.err = TRUE]
         ELSE [t EXCEPT !.stage = "append"]
    ELSE IF \/ disk.torn
            \/ disk.header # t.header
            \/ ~IsPrefix(disk.rows, t.log)
            \/ Len(disk.rows) < t.first
         THEN [t EXCEPT !.stage = "done", !.err = TRUE]
         ELSE [t EXCEPT !.stage = IF Len(disk.rows) = Len(t.log)
                                  THEN "done" ELSE "append",
                        !.first = Len(disk.rows), !.fresh = FALSE]

PersistLoad(i) ==
    /\ task[i].stage = "load"
    /\ task' = [task EXCEPT ![i] = Reconciled(@)]
    /\ UNCHANGED <<disk, authVars, inst, spawned, opening, emptyClose,
                   ownerVars, writeVars, closeVars, rest, histVars>>

\* The batch starts where the rows that can be read end.
Continues(t) ==
    /\ t.fresh <=> disk.header = None
    /\ t.first = Len(disk.rows)

\* AppendBatch: one transaction.  The primary keys refuse a second session
\* row and a sequence number that is taken, by a readable row or by a torn
\* one; the foreign key refuses a missing session.
Accepts(t) == Continues(t) /\ ~disk.torn

PersistAppend(i) ==
    /\ task[i].stage = "append"
    /\ Accepts(task[i])
    /\ disk' = [disk EXCEPT
                  !.header = IF task[i].fresh THEN task[i].header ELSE @,
                  !.rows = @ \o SubSeq(task[i].log, task[i].first + 1,
                                       Len(task[i].log))]
    /\ \E lost \in BOOLEAN : \* an uncertain commit reports an error
        task' = [task EXCEPT ![i].stage = "done", ![i].err = lost]
    /\ UNCHANGED <<authVars, inst, spawned, opening, emptyClose, ownerVars,
                   writeVars, closeVars, rest, histVars>>

\* Any storage call of the task fails without an effect.
PersistFails(i) ==
    /\ task[i].stage \in {"load", "append"}
    /\ task' = [task EXCEPT ![i].stage = "done", ![i].err = TRUE]
    /\ UNCHANGED <<disk, authVars, inst, spawned, opening, emptyClose,
                   ownerVars, writeVars, closeVars, rest, histVars>>

Longer(s, t) == IF Len(t) > Len(s) THEN t ELSE s

TokenMatches(i) == writing /\ i = inst

\* owner.writing.nextSeq, captured when the write was started.
CurrentLength(i) == Len(mem)
Captured(i) == Len(task[i].log)

Unsatisfied(fl, prefix) == {b \in fl : b > prefix}

\* completeWrite: durability advances to the captured prefix, satisfied
\* flushes are answered, the next suffix is started, a close is answered.
WriteSucceeds(i) ==
    /\ task[i].stage = "done" /\ ~task[i].err
    /\ TokenMatches(i)
    /\ durable' = Captured(i)
    /\ mem' = mem /\ header' = header
    /\ LET kept == Unsatisfied(flushes, durable')
           closed == closing /\ durable' >= Len(mem) /\ durable' >= closeAt
       IN  /\ StartWrite([task EXCEPT ![i] = Idle], FALSE, FALSE, kept,
                      waiters /\ ~closed)
           /\ ackedLog' = IF kept # flushes \/ (closed /\ waiters)
                          THEN Longer(ackedLog, Take(mem, durable'))
                          ELSE ackedLog
           /\ drained' = IF closed /\ waiters THEN drained \cup {owner} ELSE drained
    /\ UNCHANGED <<disk, authVars, inst, spawned, opening, emptyClose, live,
                   owner, closeVars, rest, served>>

WriteFails(i) ==
    /\ task[i].stage = "done" /\ task[i].err
    /\ TokenMatches(i)
    /\ writing' = FALSE /\ failed' = TRUE /\ FailWaiters
    /\ task' = [task EXCEPT ![i] = Idle]
    /\ UNCHANGED <<disk, authVars, inst, spawned, opening, emptyClose,
                   ownerVars, closeVars, rest, histVars>>

\* The completion of an earlier activation carries a foreign token.
WriteStale(i) ==
    /\ task[i].stage = "done"
    /\ inst # 0
    /\ ~TokenMatches(i)
    /\ task' = [task EXCEPT ![i] = Idle]
    /\ UNCHANGED <<disk, authVars, inst, spawned, opening, emptyClose,
                   ownerVars, writeVars, closeVars, rest, histVars>>

-----------------------------------------------------------------------------
(* Requests served from memory: session/actor/grain.go.                    *)

Authorized(c) == inst # 0 /\ live /\ c = owner

AcceptsWrites == ~closing

\* Commit appends one whole batch, answers, and wakes the writer.
Commit(c, kinds) ==
    /\ Authorized(c)
    /\ AcceptsWrites
    /\ Len(kinds) > 0
    /\ Len(mem) + Len(kinds) <= MaxLen
    /\ mem' = mem \o Events(kinds, c)
    /\ UNCHANGED <<live, owner, header, durable>>
    /\ StartWrite(task, writing, failed, flushes, waiters)
    /\ UNCHANGED <<disk, authVars, inst, spawned, opening, emptyClose,
                   closeVars, rest, histVars>>

\* Flush of a committed prefix: answered now, or kept until a write ends.
Flush(c, barrier) ==
    /\ Authorized(c)
    /\ barrier \in 0 .. Len(mem)
    /\ UNCHANGED ownerVars
    /\ IF durable >= barrier
       THEN /\ ackedLog' = Longer(ackedLog, Take(mem, durable))
            /\ UNCHANGED <<writeVars, task>>
       ELSE /\ StartWrite(task, writing, failed, flushes \cup {barrier}, waiters)
            /\ UNCHANGED ackedLog
    /\ UNCHANGED <<disk, authVars, inst, spawned, opening, emptyClose,
                   closeVars, rest, drained, served>>

Quiescent(barrier) == ~writing /\ durable >= barrier

\* Close seals the log and answers once everything committed is durable.
Close(c) ==
    LET barrier == IF closing THEN closeAt ELSE Len(mem)
    IN  /\ Authorized(c)
        /\ UNCHANGED ownerVars
        /\ closing' = TRUE
        /\ closeAt' = barrier
        /\ IF Quiescent(barrier)
           THEN /\ ackedLog' = Longer(ackedLog, Take(mem, durable))
                /\ drained' = drained \cup {c}
                /\ UNCHANGED <<writeVars, task>>
           ELSE /\ StartWrite(task, writing, failed, flushes, TRUE)
                /\ UNCHANGED <<ackedLog, drained>>
        /\ UNCHANGED <<disk, authVars, inst, spawned, opening, emptyClose,
                       rest, served>>

-----------------------------------------------------------------------------
(* Initialization: session/actor/grain_admission.go and grain_recovery.go. *)

\* Initialize and Resume share their guards: one opening at a time, no
\* second creation over a live log, nothing after a close.
MayOpenAfterClose(c) == inst # 0 /\ opening.stage = "none" /\ ~live

MayOpen(c) ==
    /\ inst # 0
    /\ opening.stage = "none"
    /\ ~live
    /\ ~closing

Open(c) ==
    /\ modes[c] # "none"
    /\ MayOpen(c)
    /\ opening' = [stage |-> "claim", creation |-> c, mode |-> modes[c]]
    /\ UNCHANGED <<disk, authVars, inst, spawned, emptyClose, ownerVars,
                   writeVars, closeVars, task, rest, histVars>>

\* The authority handles the Claim; its reply may be lost on the way back.
ClaimAnswered ==
    /\ opening.stage = "claim"
    /\ grant' = Claimed(opening.creation, inst)
    /\ \E lost \in BOOLEAN :
        opening' = [opening EXCEPT !.stage =
            IF MayClaim(opening.creation, inst) /\ ~lost
            THEN "granted" ELSE "denied"]
    /\ UNCHANGED <<disk, modes, inst, spawned, emptyClose, ownerVars,
                   writeVars, closeVars, task, rest, histVars>>

AdmissionDenied ==
    /\ opening.stage = "denied"
    /\ opening' = NotOpening
    /\ UNCHANGED <<disk, authVars, inst, spawned, emptyClose, ownerVars,
                   writeVars, closeVars, task, rest, histVars>>

\* finishAdmission of a fresh log: install it, publish it, wake the writer.
AdmissionCreates(seed) ==
    LET c == opening.creation
    IN  /\ opening.stage = "granted" /\ opening.mode = "create"
        /\ opening' = NotOpening
        /\ live' = TRUE /\ owner' = c /\ header' = c
        /\ mem' = IF seed = <<>> THEN <<>> ELSE EndSeed(Events(seed, c), c)
        /\ durable' = 0
        /\ served' = [served EXCEPT ![c] = inst]
        /\ StartWrite(task, writing, failed, flushes, waiters)
        /\ UNCHANGED <<disk, authVars, inst, spawned, emptyClose, closeVars,
                       rest, ackedLog, drained>>

\* finishAdmission of a recovery starts the restore task.
AdmissionRestores ==
    /\ opening.stage = "granted" /\ opening.mode = "resume"
    /\ opening' = [opening EXCEPT !.stage = "restore"]
    /\ rest' = [rest EXCEPT ![inst] = [NoRest EXCEPT !.stage = "load"]]
    /\ UNCHANGED <<disk, authVars, inst, spawned, emptyClose, ownerVars,
                   writeVars, closeVars, task, histVars>>

RestOnly == UNCHANGED <<authVars, inst, spawned, opening, emptyClose,
                        ownerVars, writeVars, closeVars, task, histVars>>

\* restore: load a snapshot, or fail on an absent log.
RestoreLoad(i) ==
    /\ rest[i].stage = "load"
    /\ rest' = [rest EXCEPT ![i] =
                  IF disk.header = None
                  THEN [NoRest EXCEPT !.stage = "done", !.err = TRUE]
                  ELSE [NoRest EXCEPT !.stage = "check", !.log = disk.rows,
                                      !.torn = disk.torn, !.cuts = disk.cuts]]
    /\ UNCHANGED disk /\ RestOnly

\* Every transaction adds rows or removes a tail, so the two counts stand for
\* the revision.
SameRevision(r) == Len(disk.rows) = Len(r.log) /\ disk.cuts = r.cuts

RestoreCheck(i) ==
    /\ rest[i].stage = "check"
    /\ rest' = [rest EXCEPT ![i].stage =
                  IF ~SameRevision(rest[i]) THEN "load"
                  ELSE IF rest[i].torn \/ Closers(rest[i].log) # <<>>
                       THEN "repair" ELSE "done"]
    /\ UNCHANGED disk /\ RestOnly

RepairedFromLast(log) == Take(disk.rows, Len(log) - 1) \o Closers(log)

\* DeleteEventsFrom the marker, which stands where the loaded rows ended, and
\* InsertEvent of the closers.  Without a marker nothing is behind them.
Repaired(log) == Take(disk.rows, Len(log)) \o Closers(log)

\* A removal takes whatever is stored behind the marker by then: no key
\* refuses it.  Closers alone need their sequence numbers free.
RepairFits(r) == r.torn \/ (Len(disk.rows) = Len(r.log) /\ ~disk.torn)

\* CommitRepair removes the torn tail and appends the closers in one
\* transaction, then restore reloads.
RestoreRepair(i) ==
    /\ rest[i].stage = "repair"
    /\ RepairFits(rest[i])
    /\ disk' = [disk EXCEPT !.rows = Repaired(rest[i].log),
                            !.torn = FALSE,
                            !.cuts = IF rest[i].torn THEN @ + 1 ELSE @]
    /\ \E lost \in BOOLEAN :
        rest' = [rest EXCEPT ![i].stage = IF lost THEN "done" ELSE "load",
                             ![i].err = lost]
    /\ RestOnly

RestoreFails(i) ==
    /\ rest[i].stage \in {"load", "check", "repair"}
    /\ rest' = [rest EXCEPT ![i].stage = "done", ![i].err = TRUE]
    /\ UNCHANGED disk /\ RestOnly

OwnsRestore(i) == opening.stage = "restore" /\ i = inst

\* finishResume installs the restored log and writes its end-seed marker.
ResumeFinishes(i) ==
    LET c == opening.creation
    IN  /\ rest[i].stage = "done" /\ ~rest[i].err
        /\ OwnsRestore(i)
        /\ opening' = NotOpening
        /\ live' = TRUE /\ owner' = c /\ header' = disk.header
        /\ mem' = EndSeed(rest[i].log, c)
        /\ durable' = Len(rest[i].log)
        /\ rest' = [rest EXCEPT ![i] = NoRest]
        /\ served' = [served EXCEPT ![c] = inst]
        /\ StartWrite(task, writing, failed, flushes, waiters)
        /\ UNCHANGED <<disk, authVars, inst, spawned, emptyClose, closeVars,
                       ackedLog, drained>>

ResumeFails(i) ==
    /\ rest[i].stage = "done" /\ rest[i].err
    /\ OwnsRestore(i)
    /\ opening' = NotOpening
    /\ rest' = [rest EXCEPT ![i] = NoRest]
    /\ UNCHANGED <<disk, authVars, inst, spawned, emptyClose, ownerVars,
                   writeVars, closeVars, task, histVars>>

\* The restore of an earlier activation carries a foreign token.
ResumeStale(i) ==
    /\ rest[i].stage = "done"
    /\ inst # 0
    /\ ~OwnsRestore(i)
    /\ rest' = [rest EXCEPT ![i] = NoRest]
    /\ UNCHANGED disk /\ RestOnly

-----------------------------------------------------------------------------
(* Close of a Grain without a log: session/actor/grain_close_empty.go.     *)

CloseEmptyAgain(c) ==
    /\ inst # 0 /\ ~live /\ closing
    /\ owner = c
    /\ drained' = drained \cup {c}
    /\ UNCHANGED <<disk, authVars, inst, spawned, opening, emptyClose,
                   ownerVars, writeVars, closeVars, task, rest, ackedLog, served>>

CloseEmptyAsk(c) ==
    /\ modes[c] # "none"
    /\ inst # 0 /\ ~live /\ ~closing
    /\ opening.stage = "none"
    /\ emptyClose = None
    /\ emptyClose' = c
    /\ UNCHANGED <<disk, authVars, inst, spawned, opening, ownerVars,
                   writeVars, closeVars, task, rest, histVars>>

\* The authority answers and the callback re-reads the Grain: an
\* initialization that slipped in since the question was asked wins.
CloseEmptyAnswered ==
    /\ emptyClose # None
    /\ grant' = Claimed(emptyClose, inst)
    /\ emptyClose' = None
    /\ IF MayClaim(emptyClose, inst) /\ opening.stage = "none" /\ ~live
       THEN /\ closing' = TRUE /\ closeAt' = 0 /\ owner' = emptyClose
            /\ drained' = drained \cup {emptyClose}
       ELSE UNCHANGED <<closing, closeAt, owner, drained>>
    /\ UNCHANGED <<disk, modes, inst, spawned, opening, live, header, mem,
                   durable, writeVars, task, rest, ackedLog, served>>

-----------------------------------------------------------------------------
Init ==
    /\ disk = NoDisk
    /\ grant = NoGrant
    /\ modes = [c \in Creation |-> "none"]
    /\ inst = 0 /\ spawned = 0
    /\ opening = NotOpening
    /\ emptyClose = None
    /\ live = FALSE /\ owner = None /\ header = None /\ mem = <<>> /\ durable = 0
    /\ writing = FALSE /\ failed = FALSE /\ flushes = {} /\ waiters = FALSE
    /\ closing = FALSE /\ closeAt = 0
    /\ task = [i \in Inst |-> Idle]
    /\ rest = [i \in Inst |-> NoRest]
    /\ ackedLog = <<>> /\ drained = {} /\ served = [c \in Creation |-> 0]

Authority ==
    \/ \E c \in Creation, mode \in {"create", "resume"} : Reserve(c, mode)
    \/ Retire
    \/ Release

Lifecycle == Activate \/ Deactivate \/ Crash

Requests ==
    \E c \in Creation :
        \/ Open(c)
        \/ \E kinds \in Batches : Commit(c, kinds)
        \/ \E barrier \in 0 .. MaxLen : Flush(c, barrier)
        \/ Close(c)
        \/ CloseEmptyAgain(c)
        \/ CloseEmptyAsk(c)

Replies ==
    \/ ClaimAnswered
    \/ AdmissionDenied
    \/ \E seed \in Seeds : AdmissionCreates(seed)
    \/ AdmissionRestores
    \/ CloseEmptyAnswered

Storage(i) == PersistLoad(i) \/ PersistAppend(i) \/ PersistFails(i)
Completion(i) == WriteSucceeds(i) \/ WriteFails(i) \/ WriteStale(i)
Restore(i) ==
    \/ RestoreLoad(i) \/ RestoreCheck(i) \/ RestoreRepair(i) \/ RestoreFails(i)
    \/ ResumeFinishes(i) \/ ResumeFails(i) \/ ResumeStale(i)

Next ==
    \/ Authority
    \/ Lifecycle
    \/ TailTorn
    \/ Requests
    \/ Replies
    \/ \E i \in Inst : Storage(i) \/ Completion(i) \/ Restore(i)

Spec == Init /\ [][Next]_vars

\* A started goroutine ends, its completion is delivered, and the Claim reply
\* (or its failure) reaches the Grain: the Go scheduler and the mailbox run.
Fairness ==
    /\ WF_vars(ClaimAnswered)
    /\ WF_vars(AdmissionDenied)
    /\ WF_vars(AdmissionRestores)
    /\ WF_vars(\E seed \in Seeds : AdmissionCreates(seed))
    /\ WF_vars(CloseEmptyAnswered)
    /\ \A i \in Inst :
        WF_vars(Storage(i)) /\ WF_vars(Completion(i)) /\ WF_vars(Restore(i))

FairSpec == Spec /\ Fairness

-----------------------------------------------------------------------------
(* Properties. *)

Stages == {"idle", "load", "append", "done"}
RestStages == {"idle", "load", "check", "repair", "done"}
OpenStages == {"none", "claim", "granted", "denied", "restore"}
Logs == Seq(Event)
MaybeCreation == Creation \cup {None}
Modes == {"none", "create", "resume"}
Tasks == [stage : Stages, header : MaybeCreation, log : Logs, first : Nat,
          fresh : BOOLEAN, err : BOOLEAN]
Restores == [stage : RestStages, log : Logs, torn : BOOLEAN, cuts : Nat,
             err : BOOLEAN]
Disks == [header : MaybeCreation, rows : Logs, torn : BOOLEAN, cuts : Nat]

\* Every variable keeps its type; the record shapes are those of the Grain
\* struct, the authority registration and the two detached task closures.
TypeOK ==
    /\ disk \in Disks
    /\ grant \in [creation : MaybeCreation, instance : Nat, retired : BOOLEAN]
    /\ modes \in [Creation -> Modes]
    /\ spawned \in 0 .. MaxInst
    /\ inst \in 0 .. spawned
    /\ opening \in [stage : OpenStages, creation : MaybeCreation, mode : Modes]
    /\ emptyClose \in MaybeCreation
    /\ live \in BOOLEAN
    /\ owner \in MaybeCreation /\ header \in MaybeCreation
    /\ mem \in Logs
    /\ durable \in Nat
    /\ writing \in BOOLEAN /\ failed \in BOOLEAN
    /\ flushes \subseteq Nat
    /\ waiters \in BOOLEAN /\ closing \in BOOLEAN
    /\ closeAt \in Nat
    /\ task \in [Inst -> Tasks]
    /\ rest \in [Inst -> Restores]
    /\ ackedLog \in Logs
    /\ drained \subseteq Creation
    /\ served \in [Creation -> Nat]

\* Everything a Flush or a Close acknowledged is in storage, event for event,
\* through failed writes, uncertain commits, orphaned tasks and crashes.
AckedIsDurable == IsPrefix(ackedLog, disk.rows)

\* What can be read stays: no transaction of any activation takes back or
\* rewrites a readable row or the session header.  AppendBatch only inserts,
\* but CommitRepair deletes everything from the marker of an earlier Load on
\* (adapter.go:302): what it deletes must still be the torn tail that Load
\* saw, and never a row written since.
StorageAppendOnly ==
    [][ /\ IsPrefix(disk.rows, disk'.rows)
        /\ disk.header # None => disk'.header = disk.header ]_vars

\* owner.durable never runs ahead of storage, and what storage holds below it
\* is exactly what the Grain serves from memory.
DurablePrefixIsStored ==
    live /\ durable > 0 =>
        /\ disk.header = header
        /\ IsPrefix(Take(mem, durable), disk.rows)

\* The batch about to be appended continues exactly the rows that can be read:
\* the primary keys have nothing to refuse but a batch in front of a torn tail.
AppendContinuesStorage ==
    \A i \in Inst : task[i].stage = "append" => Continues(task[i])

\* Storage never gets ahead of, or disagrees with, the live log of the same
\* creation: an orphaned writer cannot add events that the owner lacks.
OneWriterHistory ==
    live /\ disk.header = header => IsPrefix(disk.rows, mem)

\* A deferred Flush or Close is only ever parked behind a running write: the
\* replies are answered by completeWrite, so without one they would hang.
WaitersHaveWriter == flushes # {} \/ waiters => writing

\* A parked Flush waits for a committed prefix that is not durable yet.
FlushesArePending == \A b \in flushes : durable < b /\ b <= Len(mem)

\* From the first Close on, this activation's log is sealed: the barrier that
\* was promised stays the end of the log until the activation ends.
SealedLog == closing /\ live => closeAt = Len(mem)

\* A creation is installed by at most one activation over its whole life: the
\* authority binds its grant to the first instance that claims it.
OneActivationPerCreation ==
    [][\A c \in Creation : served[c] # 0 => served'[c] = served[c]]_vars

\* An activation that was closed while empty never becomes the owner later.
EmptyCloseIsFinal == closing /\ ~live => opening.stage = "none"

\* Once Close of a creation was answered, nothing of it is left to write: its
\* whole log is durable and no task of its activation can reach storage.
DrainedIsQuiet ==
    live /\ owner \in drained =>
        /\ closing /\ ~writing
        /\ durable = Len(mem)
        /\ task[inst].stage = "idle"

\* The Grain, its storage and the authority together implement DurableLog: the
\* history clients see is the live log of the activation whose creation wrote
\* the stored header (or found none), and the readable rows otherwise.
Visible ==
    IF live /\ disk.header \in {None, header} THEN mem ELSE disk.rows

Durable == INSTANCE DurableLog
    WITH log <- Visible, stable <- disk.rows, acked <- ackedLog

ImplementsDurableLog == Durable!Spec

\* Every parked Flush is answered, whatever storage does.
FlushAnswered ==
    \A b \in 0 .. MaxLen + 1 : (b \in flushes) ~> (b \notin flushes)

\* Every deferred Close is answered.
CloseAnswered == waiters ~> ~waiters

\* An initialization or recovery never stays in flight for ever.
OpeningEnds == (opening.stage # "none") ~> (opening.stage = "none")

\* A log that was closed stays what it was closed at (grain_close.go,
\* grain_close_empty.go).
ClosedStaysClosed == SealedLog /\ EmptyCloseIsFinal

\* Storage, its writers and the owner's memory tell one history.
OneHistory == OneWriterHistory /\ AppendContinuesStorage /\ DrainedIsQuiet

\* Neither what can be read of storage nor who may write it is ever taken back.
WritersAreFixed == StorageAppendOnly /\ OneActivationPerCreation

\* Whoever waits for the Grain is answered.
RequestsAnswered == FlushAnswered /\ CloseAnswered /\ OpeningEnds
=============================================================================
