-------------------------- MODULE SessionGrainProofs --------------------------
(***************************************************************************)
(* Lemmas about SessionGrain, for every set of creations, every bound on   *)
(* the log, the activations and the torn tails, and every family of seeds  *)
(* and plans.  SessionGrainHistory draws the theorems from them.           *)
(*                                                                         *)
(* AckedIsDurable is not inductive: that an acknowledged prefix is stored  *)
(* rests on owner.durable being stored (LogInv), which rests on the write  *)
(* that advanced it (WriterInv, TaskInv) or the restore that set it        *)
(* (RestInv), and on the phases of the Grain excluding each other          *)
(* (PhaseInv).  IInv is their conjunction.                                 *)
(*                                                                         *)
(* By itself IInv is not inductive either: CommitRepair deletes all that   *)
(* is stored behind the marker of an earlier Load.  TailInv says that      *)
(* there is nothing but the torn tail; that it stays true needs the        *)
(* authority, and is shown in SessionGrainHistory.                         *)
(***************************************************************************)
EXTENDS SessionGrain, PrefixLemmas

\* Which parts of the Grain's state may be in use together.
PhaseInv ==
    /\ opening.stage # "none" =>
        inst # 0 /\ ~live /\ ~closing /\ opening.creation \in Creation
    /\ emptyClose # None => inst # 0
    /\ live => inst # 0 /\ owner \in Creation /\ header \in Creation
    /\ waiters => closing
    /\ ~live => /\ mem = <<>> /\ durable = 0
                /\ ~writing /\ ~waiters /\ flushes = {}

\* The durable prefix of the log is what storage holds.
LogInv ==
    /\ durable <= Len(mem)
    /\ durable > 0 => disk.header = header
    /\ IsPrefix(Take(mem, durable), disk.rows)

\* A storage task appends a log of which storage holds the first part.
TaskOK(t) ==
    /\ t.stage # "idle" => t.header \in Creation
    /\ t.stage \in {"load", "append"} =>
        /\ t.first <= Len(t.log)
        /\ t.fresh => t.first = 0
        /\ IsPrefix(Take(t.log, t.first), disk.rows)
    /\ t.stage = "load" /\ ~t.fresh => t.first > 0
    /\ t.stage = "append" /\ ~t.fresh => disk.header = t.header
    /\ t.stage = "done" /\ ~t.err =>
        disk.header = t.header /\ IsPrefix(t.log, disk.rows)

TaskInv == \A i \in Inst : TaskOK(task[i])

\* The write a Grain waits for runs, and captured a prefix of its log.
WriterInv ==
    writing => /\ inst \in Inst
               /\ task[inst].stage # "idle"
               /\ task[inst].header = header
               /\ IsPrefix(task[inst].log, mem)

\* A restored log is stored.
RestOK(r) ==
    r.stage \in {"check", "repair"} \/ (r.stage = "done" /\ ~r.err) =>
        disk.header # None /\ IsPrefix(r.log, disk.rows)

RestInv == \A i \in Inst : RestOK(rest[i])

IInv ==
    /\ TypeOK
    /\ PhaseInv
    /\ LogInv
    /\ TaskInv
    /\ WriterInv
    /\ RestInv
    /\ WaitersHaveWriter
    /\ FlushesArePending
    /\ SealedLog
    /\ AckedIsDurable

-----------------------------------------------------------------------------
(* The helpers keep their types. *)

\* The records that a Commit builds from a batch of kinds are events.
LEMMA EventsType ==
    ASSUME NEW kinds \in Seq(Kind), NEW who \in Author
    PROVE  Events(kinds, who) \in Logs
<1>1. Len(kinds) \in Nat /\ \A k \in 1 .. Len(kinds) : kinds[k] \in Kind
  BY LenProperties, ElementOfSeq
<1>2. Events(kinds, who) \in [1 .. Len(kinds) -> Event]
  BY <1>1 DEF Events, Event
<1> QED
  BY <1>1, <1>2, SeqDef DEF Logs

\* Sealing a creation's seed only adds a marker at the end of the log.
LEMMA EndSeedExtends ==
    ASSUME NEW log \in Logs, NEW who \in Author
    PROVE  EndSeed(log, who) \in Logs /\ IsPrefix(log, EndSeed(log, who))
<1> DEFINE marker == [kind |-> "session/end-seed", by |-> who]
<1>1. marker \in Event /\ <<marker>> \in Logs
  BY DEF Event, Kind, Logs
<1>2. Append(log, marker) = log \o <<marker>>
  BY <1>1, AppendIsConcat DEF Logs
<1>3. Append(log, marker) \in Logs /\ IsPrefix(log, Append(log, marker))
  BY <1>1, <1>2, PrefixOfConcat DEF Logs
<1>4. IsPrefix(log, log)
  BY PrefixPointwise DEF Logs
<1> QED
  BY <1>3, <1>4 DEF EndSeed

\* The repair of a restored log is a log of recovery events.
LEMMA ClosersType == \A log : Closers(log) \in Logs
<1> DEFINE closer == [kind |-> "turn/end", by |-> "recovery"]
<1>1. closer \in Event
  BY DEF Event, Kind, Author
<1>2. <<closer>> \in Logs /\ <<>> \in Logs
  BY <1>1 DEF Logs
<1> QED
  BY <1>2 DEF Closers

\* Reconciling a task with the stored rows (persist) leaves a task.
LEMMA ReconciledType ==
    ASSUME NEW t \in Tasks, disk.rows \in Logs
    PROVE  Reconciled(t) \in Tasks
<1>1. Len(disk.rows) \in Nat
  BY LenProperties DEF Logs
<1> QED
  BY <1>1 DEF Reconciled, Tasks, Stages

\* Grain.startWrite launches a well-typed persistence task.
LEMMA NewTaskType ==
    ASSUME NEW log \in Logs, NEW hdr \in MaybeCreation, NEW first \in Nat,
           NEW bad
    PROVE  NewTask(log, hdr, first, bad) \in Tasks
BY DEF NewTask, Tasks, Stages

\* The idle task, the idle restore and the empty log have their types.
LEMMA IdleTypes == Idle \in Tasks /\ NoRest \in Restores /\ <<>> \in Logs
<1>1. <<>> \in Logs /\ None \in MaybeCreation
  BY DEF Logs, MaybeCreation
<1> QED
  BY <1>1 DEF Idle, NoRest, Tasks, Restores, Stages, RestStages

\* Facts about the logs of a state that its types imply.
LEMMA LogFacts ==
    ASSUME TypeOK
    PROVE  /\ disk.rows \in Logs /\ Len(disk.rows) \in Nat
           /\ mem \in Logs /\ Len(mem) \in Nat
           /\ \A i \in Inst : task[i].log \in Logs /\ Len(task[i].log) \in Nat
           /\ \A i \in Inst : rest[i].log \in Logs /\ Len(rest[i].log) \in Nat
<1>1. /\ disk.rows \in Logs /\ mem \in Logs
      /\ \A i \in Inst : task[i].log \in Logs /\ rest[i].log \in Logs
  BY DEF TypeOK, Disks, Tasks, Restores
<1> QED
  BY <1>1, LenProperties DEF Logs

\* What is a prefix of storage stays one when storage grows.
LEMMA StoredStays ==
    ASSUME TypeOK, TypeOK', IsPrefix(disk.rows, disk'.rows),
           NEW log \in Logs, IsPrefix(log, disk.rows)
    PROVE  IsPrefix(log, disk'.rows)
BY PrefixTransitive DEF TypeOK, Disks, Logs

-----------------------------------------------------------------------------
(* The invariant holds initially. *)

\* Before any activation the invariant holds: nothing is owned or stored.
LEMMA InvariantInit == Init => IInv
<1> SUFFICES ASSUME Init PROVE IInv
  OBVIOUS
<1> USE ConstantsAssumption
<1>1. <<>> \in Logs /\ Len(<<>>) = 0 /\ None \in MaybeCreation
  BY DEF Logs, MaybeCreation
<1>2. TypeOK
  <2>1. /\ disk \in Disks
        /\ grant \in [creation : MaybeCreation, instance : Nat, retired : BOOLEAN]
        /\ opening \in [stage : OpenStages, creation : MaybeCreation, mode : Modes]
    BY <1>1 DEF Init, NoDisk, Disks, NoGrant, NotOpening, OpenStages, Modes
  <2>2. /\ task \in [Inst -> Tasks] /\ rest \in [Inst -> Restores]
        /\ served \in [Creation -> Nat] /\ modes \in [Creation -> Modes]
    BY IdleTypes DEF Init, Modes
  <2> QED
    <3>1. spawned \in 0 .. MaxInst /\ inst \in 0 .. spawned
      BY DEF Init
    <3>2. /\ durable \in Nat /\ closeAt \in Nat
          /\ flushes \subseteq Nat /\ drained \subseteq Creation
      BY DEF Init
    <3>3. /\ live \in BOOLEAN /\ writing \in BOOLEAN /\ failed \in BOOLEAN
          /\ waiters \in BOOLEAN /\ closing \in BOOLEAN
      BY DEF Init
    <3>4. /\ emptyClose \in MaybeCreation /\ owner \in MaybeCreation
          /\ header \in MaybeCreation /\ mem \in Logs /\ ackedLog \in Logs
      BY <1>1 DEF Init
    <3> QED
      BY <2>1, <2>2, <3>1, <3>2, <3>3, <3>4, Zenon DEF TypeOK
<1>3. IsPrefix(<<>>, <<>>) /\ Take(<<>>, 0) = <<>>
  <2>1. Take(<<>>, 0) = <<>>
    BY SubSeqEmpty DEF Take
  <2>2. IsPrefix(<<>>, <<>>)
    BY <1>1 DEF IsPrefix
  <2> QED
    BY <2>1, <2>2
<1>4. PhaseInv
  BY DEF Init, PhaseInv, NotOpening
<1>5. LogInv
  BY <1>1, <1>3 DEF Init, LogInv, NoDisk
<1>6. TaskInv
  BY DEF Init, TaskInv, TaskOK, Idle
<1>7. RestInv
  BY DEF Init, RestInv, RestOK, NoRest
<1> QED
  BY <1>2, <1>3, <1>4, <1>5, <1>6, <1>7
  DEF IInv, Init, WriterInv, WaitersHaveWriter, FlushesArePending, SealedLog,
      AckedIsDurable, NoDisk

-----------------------------------------------------------------------------
(* Every step preserves the invariant. *)

\* The parts of IInv that speak of the log, the writer and storage.
DataInv ==
    /\ LogInv
    /\ TaskInv
    /\ WriterInv
    /\ WaitersHaveWriter
    /\ FlushesArePending
    /\ SealedLog
    /\ AckedIsDurable

\* Steps that leave log, writer and storage alone keep those parts.
LEMMA DataFrame ==
    ASSUME IInv, UNCHANGED <<disk, ownerVars, writeVars, task, ackedLog>>,
           writing => inst' = inst,
           live => UNCHANGED closeVars
    PROVE  DataInv'
BY DEF IInv, DataInv, LogInv, TaskInv, TaskOK, WriterInv, WaitersHaveWriter,
   FlushesArePending, SealedLog, AckedIsDurable, ownerVars, writeVars, closeVars

\* The registry's Reserve, Retire and Release do not touch the Grain.
LEMMA AuthoritySteps ==
    ASSUME IInv, Authority
    PROVE  IInv'
<1>1. TypeOK'
  <2>1. ASSUME NEW c \in Creation, NEW mode \in {"create", "resume"},
               Reserve(c, mode)
        PROVE  TypeOK'
    <3>1. /\ grant' \in [creation : MaybeCreation, instance : Nat, retired : BOOLEAN]
          /\ modes' \in [Creation -> Modes]
      BY <2>1 DEF IInv, TypeOK, Reserve, NoGrant, MaybeCreation, Modes
    <3> QED
      BY <2>1, <3>1 DEF IInv, TypeOK, Reserve, ownerVars, writeVars, closeVars,
         histVars
  <2>2. CASE Retire
    BY <2>2 DEF IInv, TypeOK, Retire, ownerVars, writeVars, closeVars, histVars
  <2>3. CASE Release
    <3>1. grant' \in [creation : MaybeCreation, instance : Nat, retired : BOOLEAN]
      BY <2>3 DEF Release, NoGrant, MaybeCreation
    <3> QED
      BY <2>3, <3>1 DEF IInv, TypeOK, Release, ownerVars, writeVars, closeVars,
         histVars
  <2> QED
    BY <2>1, <2>2, <2>3 DEF Authority
<1>2. UNCHANGED <<disk, inst, opening, emptyClose, ownerVars, writeVars, closeVars,
                  task, rest, ackedLog>>
  BY DEF Authority, Reserve, Retire, Release, histVars
<1>3. DataInv'
  BY <1>2, DataFrame
<1>4. PhaseInv' /\ RestInv'
  BY <1>2 DEF IInv, PhaseInv, RestInv, RestOK, ownerVars, writeVars, closeVars
<1> QED
  BY <1>1, <1>3, <1>4 DEF IInv, DataInv

\* A new activation (OnActivate) starts with no log and no waiter.
LEMMA ActivateStep ==
    ASSUME IInv, Activate
    PROVE  IInv'
<1>1. TypeOK'
  BY ConstantsAssumption DEF IInv, TypeOK, Activate, authVars, ownerVars,
     writeVars, closeVars, histVars
<1>2. DataInv'
  BY DataFrame DEF IInv, PhaseInv, Activate, WriterInv, Inst, histVars
<1>3. PhaseInv' /\ RestInv'
  BY DEF IInv, TypeOK, Activate, PhaseInv, RestInv, RestOK, ownerVars,
     writeVars, closeVars
<1> QED
  BY <1>1, <1>2, <1>3 DEF IInv, DataInv

\* Both ends of an activation leave no log and no waiter behind.
LEMMA GoneFacts ==
    ASSUME IInv, GrainGone, UNCHANGED <<disk, ackedLog>>
    PROVE  /\ PhaseInv' /\ LogInv' /\ WriterInv' /\ WaitersHaveWriter'
           /\ FlushesArePending' /\ SealedLog' /\ AckedIsDurable'
<1>1. disk.rows \in Logs /\ Len(<<>>) = 0
  BY LogFacts DEF IInv
<1>2. Take(<<>>, 0) = <<>>
  BY SubSeqEmpty DEF Take
<1>3. IsPrefix(<<>>, disk.rows)
  BY <1>1, EmptyIsPrefix DEF Logs
<1>4. LogInv'
  BY <1>1, <1>2, <1>3 DEF GrainGone, LogInv
<1> QED
  BY <1>4 DEF IInv, GrainGone, PhaseInv, NotOpening, WriterInv,
     WaitersHaveWriter, FlushesArePending, SealedLog, AckedIsDurable

\* Neither a graceful OnDeactivate nor a crash breaks the invariant: it
\* drops the Grain's memory and leaves its storage tasks running.
LEMMA EndSteps ==
    ASSUME IInv, Deactivate \/ Crash
    PROVE  IInv'
<1>1. UNCHANGED <<disk, spawned, modes, histVars>> /\ GrainGone
  BY DEF Deactivate, Crash, authVars
<1>2. /\ grant' \in [creation : MaybeCreation, instance : Nat, retired : BOOLEAN]
      /\ task' \in [Inst -> Tasks] /\ rest' \in [Inst -> Restores]
      /\ TaskInv' /\ RestInv'
  <2>1. CASE Deactivate
    BY <2>1 DEF IInv, TypeOK, Deactivate, TaskInv, TaskOK, RestInv, RestOK,
       authVars
  <2>2. CASE Crash
    <3>1. grant' \in [creation : MaybeCreation, instance : Nat, retired : BOOLEAN]
      BY <2>2 DEF Crash, NoGrant, MaybeCreation
    <3>2. task' \in [Inst -> Tasks] /\ rest' \in [Inst -> Restores]
      BY <2>2, IdleTypes DEF Crash
    <3>3. TaskInv' /\ RestInv'
      BY <2>2 DEF Crash, TaskInv, TaskOK, RestInv, RestOK, Idle, NoRest
    <3> QED
      BY <3>1, <3>2, <3>3
  <2> QED
    BY <2>1, <2>2
<1>3. opening' \in [stage : OpenStages, creation : MaybeCreation, mode : Modes]
  BY <1>1 DEF GrainGone, NotOpening, OpenStages, Modes, MaybeCreation
<1>4. TypeOK'
  <2>1. /\ disk' \in Disks
        /\ modes' \in [Creation -> Modes] /\ spawned' \in 0 .. MaxInst
        /\ ackedLog' \in Logs /\ drained' \subseteq Creation
        /\ served' \in [Creation -> Nat]
    BY <1>1 DEF IInv, TypeOK, histVars
  <2>2. /\ inst' \in 0 .. spawned' /\ durable' \in Nat /\ closeAt' \in Nat
        /\ flushes' \subseteq Nat
    BY <1>1, <2>1 DEF GrainGone
  <2>3. /\ live' \in BOOLEAN /\ writing' \in BOOLEAN /\ failed' \in BOOLEAN
        /\ waiters' \in BOOLEAN /\ closing' \in BOOLEAN
        /\ emptyClose' \in MaybeCreation /\ owner' \in MaybeCreation
        /\ header' \in MaybeCreation /\ mem' \in Logs
    BY <1>1, IdleTypes DEF GrainGone, MaybeCreation
  <2> QED
    BY <1>2, <1>3, <2>1, <2>2, <2>3, Zenon DEF TypeOK
<1> QED
  BY <1>1, <1>2, <1>4, GoneFacts DEF IInv, histVars

\* Grain.beginAdmission records the pending open and asks the registry.
LEMMA OpenStep ==
    ASSUME IInv, NEW c \in Creation, Open(c)
    PROVE  IInv'
<1>1. opening' \in [stage : OpenStages, creation : MaybeCreation, mode : Modes]
  BY DEF IInv, TypeOK, Open, OpenStages, MaybeCreation, Modes
<1>2. TypeOK'
  BY <1>1 DEF IInv, TypeOK, Open, authVars, ownerVars, writeVars, closeVars,
     histVars
<1>3. DataInv'
  BY DataFrame DEF Open, histVars
<1>4. PhaseInv' /\ RestInv'
  BY DEF IInv, Open, MayOpen, PhaseInv, RestInv, RestOK, ownerVars, writeVars,
     closeVars
<1> QED
  BY <1>2, <1>3, <1>4 DEF IInv, DataInv

\* The registry's replies leave every variable with its type.
LEMMA ReplyStepTypes ==
    ASSUME IInv, ClaimAnswered \/ AdmissionDenied \/ AdmissionRestores
                 \/ CloseEmptyAnswered
    PROVE  TypeOK'
<1>1. ASSUME NEW c \in Creation
      PROVE  Claimed(c, inst) \in
               [creation : MaybeCreation, instance : Nat, retired : BOOLEAN]
  BY DEF IInv, TypeOK, Claimed
<1>2. CASE ClaimAnswered
  <2>1. /\ opening' \in [stage : OpenStages, creation : MaybeCreation, mode : Modes]
        /\ opening.creation \in Creation
    BY <1>2 DEF IInv, TypeOK, PhaseInv, ClaimAnswered, OpenStages
  <2>2. grant' \in [creation : MaybeCreation, instance : Nat, retired : BOOLEAN]
    BY <1>1, <1>2, <2>1 DEF ClaimAnswered
  <2> QED
    BY <1>2, <2>1, <2>2 DEF IInv, TypeOK, ClaimAnswered, ownerVars, writeVars,
       closeVars, histVars
<1>3. CASE AdmissionDenied
  <2>1. opening' \in [stage : OpenStages, creation : MaybeCreation, mode : Modes]
    BY <1>3 DEF AdmissionDenied, NotOpening, OpenStages, Modes, MaybeCreation
  <2> QED
    BY <1>3, <2>1 DEF IInv, TypeOK, AdmissionDenied, authVars, ownerVars,
       writeVars, closeVars, histVars
<1>4. CASE AdmissionRestores
  <2>1. opening' \in [stage : OpenStages, creation : MaybeCreation, mode : Modes]
    BY <1>4 DEF IInv, TypeOK, AdmissionRestores, OpenStages
  <2>2. [NoRest EXCEPT !.stage = "load"] \in Restores
    BY IdleTypes DEF Restores, RestStages
  <2>3. rest' \in [Inst -> Restores]
    BY <1>4, <2>2 DEF IInv, TypeOK, AdmissionRestores
  <2> QED
    BY <1>4, <2>1, <2>3 DEF IInv, TypeOK, AdmissionRestores, authVars,
       ownerVars, writeVars, closeVars, histVars
<1>5. CASE CloseEmptyAnswered
  <2>1. emptyClose \in Creation /\ emptyClose' \in MaybeCreation
    BY <1>5 DEF IInv, TypeOK, CloseEmptyAnswered, MaybeCreation
  <2>2. grant' \in [creation : MaybeCreation, instance : Nat, retired : BOOLEAN]
    BY <1>1, <1>5, <2>1 DEF CloseEmptyAnswered
  <2>3. /\ closing' \in BOOLEAN /\ closeAt' \in Nat
        /\ owner' \in MaybeCreation /\ drained' \subseteq Creation
    <3>1. CASE UNCHANGED <<closing, closeAt, owner, drained>>
      BY <3>1 DEF IInv, TypeOK
    <3>2. CASE /\ closing' = TRUE /\ closeAt' = 0 /\ owner' = emptyClose
               /\ drained' = drained \cup {emptyClose}
      BY <2>1, <3>2 DEF IInv, TypeOK, MaybeCreation
    <3> QED
      BY <1>5, <3>1, <3>2 DEF CloseEmptyAnswered
  <2> QED
    BY <1>5, <2>1, <2>2, <2>3 DEF IInv, TypeOK, CloseEmptyAnswered, writeVars
<1> QED
  BY <1>2, <1>3, <1>4, <1>5

\* A reply of the registry to Claim that opens no log yet keeps the
\* invariant, because the Grain holds no log while an open is pending.
LEMMA ReplySteps ==
    ASSUME IInv, ClaimAnswered \/ AdmissionDenied \/ AdmissionRestores
    PROVE  IInv'
<1>1. UNCHANGED <<disk, inst, emptyClose, ownerVars, writeVars, closeVars,
                  task, ackedLog>>
  BY DEF ClaimAnswered, AdmissionDenied, AdmissionRestores, histVars
<1>2. DataInv'
  BY <1>1, DataFrame
<1>3. PhaseInv'
  <2>1. opening'.stage # "none" =>
            opening.stage # "none" /\ opening'.creation = opening.creation
    BY DEF IInv, TypeOK, ClaimAnswered, AdmissionDenied, AdmissionRestores,
       NotOpening
  <2> QED
    BY <1>1, <2>1 DEF IInv, PhaseInv, ownerVars, writeVars, closeVars
<1>4. RestInv'
  <2>1. CASE rest' = rest
    BY <1>1, <2>1 DEF IInv, RestInv, RestOK
  <2>2. CASE rest' = [rest EXCEPT ![inst] = [NoRest EXCEPT !.stage = "load"]]
    <3>1. \A i \in Inst : rest'[i] = rest[i] \/ rest'[i].stage = "load"
      BY <2>2 DEF IInv, TypeOK, NoRest
    <3> QED
      BY <1>1, <3>1 DEF IInv, RestInv, RestOK
  <2> QED
    BY <2>1, <2>2 DEF ClaimAnswered, AdmissionDenied, AdmissionRestores
<1> QED
  BY <1>2, <1>3, <1>4, ReplyStepTypes DEF IInv, DataInv

\* closeEmpty and its answer keep the invariant: there is no log to lose.
LEMMA CloseEmptySteps ==
    ASSUME IInv,
           \/ CloseEmptyAnswered
           \/ \E c \in Creation : CloseEmptyAsk(c) \/ CloseEmptyAgain(c)
    PROVE  IInv'
<1>1. CASE CloseEmptyAnswered
  <2>1. /\ UNCHANGED <<disk, inst, opening, live, header, mem, durable, writeVars,
                       task, rest, ackedLog>>
        /\ emptyClose' = None
        /\ live => UNCHANGED <<owner, closeVars>>
        /\ UNCHANGED <<closing, closeAt, owner>> \/ opening.stage = "none"
    BY <1>1 DEF CloseEmptyAnswered, closeVars
  <2>2. LogInv' /\ TaskInv' /\ WriterInv' /\ WaitersHaveWriter'
        /\ FlushesArePending' /\ SealedLog' /\ AckedIsDurable'
    BY <2>1 DEF IInv, LogInv, TaskInv, TaskOK, WriterInv, WaitersHaveWriter,
       FlushesArePending, SealedLog, AckedIsDurable, writeVars, closeVars
  <2>3. PhaseInv' /\ RestInv'
    BY <2>1 DEF IInv, PhaseInv, RestInv, RestOK, writeVars, closeVars
  <2> QED
    BY <1>1, <2>2, <2>3, ReplyStepTypes DEF IInv
<1>2. ASSUME NEW c \in Creation, CloseEmptyAsk(c) \/ CloseEmptyAgain(c)
      PROVE  IInv'
  <2>1. TypeOK'
    BY <1>2 DEF IInv, TypeOK, CloseEmptyAsk, CloseEmptyAgain, authVars,
       ownerVars, writeVars, closeVars, histVars, MaybeCreation
  <2>2. DataInv'
    BY <1>2, DataFrame DEF CloseEmptyAsk, CloseEmptyAgain, histVars
  <2>3. PhaseInv' /\ RestInv'
    BY <1>2 DEF IInv, CloseEmptyAsk, CloseEmptyAgain, PhaseInv, RestInv, RestOK,
       ownerVars, writeVars, closeVars
  <2> QED
    BY <2>1, <2>2, <2>3 DEF IInv, DataInv
<1> QED
  BY <1>1, <1>2

\* Growing storage preserves what the invariant says about it.
StorageGrows ==
    /\ IsPrefix(disk.rows, disk'.rows)
    /\ disk.header # None => disk'.header = disk.header

\* When storage grows, the Grain's durable prefix and every acknowledged
\* log stay in it.
LEMMA GrowthKeepsLogs ==
    ASSUME IInv, TypeOK', StorageGrows, UNCHANGED <<ownerVars, ackedLog>>
    PROVE  LogInv' /\ AckedIsDurable'
<1>1. /\ ackedLog \in Logs
      /\ Take(mem, durable) \in Logs
      /\ durable > 0 => header # None
  <2>1. mem \in Logs /\ durable \in 0 .. Len(mem)
    BY LogFacts DEF IInv, TypeOK, LogInv
  <2>2. Take(mem, durable) \in Logs
    BY <2>1, PrefixOfSubSeq DEF Take, Logs
  <2> QED
    BY <2>2, ConstantsAssumption DEF IInv, TypeOK, PhaseInv
<1>2. IsPrefix(ackedLog, disk'.rows) /\ IsPrefix(Take(mem, durable), disk'.rows)
  BY <1>1, StoredStays DEF IInv, LogInv, AckedIsDurable, StorageGrows
<1> QED
  BY <1>1, <1>2 DEF IInv, LogInv, AckedIsDurable, ownerVars, StorageGrows

\* When storage grows, a persistence task that did not move stays valid.
LEMMA GrowthKeepsTasks ==
    ASSUME IInv, TypeOK', StorageGrows, NEW i \in Inst, task'[i] = task[i]
    PROVE  TaskOK(task[i])'
<1> DEFINE t == task[i]
<1>1. t \in Tasks /\ t.log \in Logs /\ Len(t.log) \in Nat /\ TaskOK(t)
  BY LogFacts DEF IInv, TypeOK, TaskInv
<1>2. t.header \in Creation => t.header # None
  BY ConstantsAssumption
<1>3. t.stage \in {"load", "append"} =>
         /\ Take(t.log, t.first) \in Logs
         /\ IsPrefix(Take(t.log, t.first), disk'.rows)
  <2>1. SUFFICES ASSUME t.stage \in {"load", "append"}
                 PROVE  /\ Take(t.log, t.first) \in Logs
                        /\ IsPrefix(Take(t.log, t.first), disk'.rows)
    OBVIOUS
  <2>2. t.first \in 0 .. Len(t.log) /\ IsPrefix(Take(t.log, t.first), disk.rows)
    BY <1>1, <2>1 DEF TaskOK, Tasks
  <2>3. Take(t.log, t.first) \in Logs
    BY <1>1, <2>2, PrefixOfSubSeq DEF Take, Logs
  <2> QED
    BY <2>2, <2>3, StoredStays DEF IInv, StorageGrows
<1>4. t.stage = "done" /\ ~t.err => IsPrefix(t.log, disk'.rows)
  BY <1>1, StoredStays DEF IInv, TaskOK, StorageGrows
<1>5. t.stage # "idle" /\ disk.header = t.header => disk'.header = t.header
  BY <1>1, <1>2 DEF TaskOK, StorageGrows
<1>6. TaskOK(t)'
  BY <1>1, <1>3, <1>4, <1>5 DEF TaskOK
<1> QED
  BY <1>6

\* When storage grows, a restore task that did not move stays valid.
LEMMA GrowthKeepsRestores ==
    ASSUME IInv, TypeOK', StorageGrows, NEW i \in Inst, rest'[i] = rest[i]
    PROVE  RestOK(rest[i])'
<1>1. rest[i].log \in Logs /\ RestOK(rest[i])
  BY DEF IInv, TypeOK, RestInv, Restores
<1>2. IsPrefix(rest[i].log, disk.rows) => IsPrefix(rest[i].log, disk'.rows)
  BY <1>1, StoredStays DEF IInv, StorageGrows
<1>3. disk.header # None => disk'.header # None
  BY DEF StorageGrows
<1> QED
  BY <1>1, <1>2, <1>3 DEF RestOK

\* Storage that does not change has grown by nothing.
LEMMA SameStorage == TypeOK /\ disk' = disk => StorageGrows
<1> SUFFICES ASSUME TypeOK, disk' = disk PROVE StorageGrows
  OBVIOUS
<1>1. IsPrefix(disk.rows, disk.rows)
  BY LogFacts, PrefixPointwise DEF Logs
<1> QED
  BY <1>1 DEF StorageGrows

\* A step of one storage task: the Grain does not move, the task stays started.
LEMMA TaskStep ==
    ASSUME IInv, TypeOK', StorageGrows, NEW i \in Inst, NEW t \in Tasks,
           task' = [task EXCEPT ![i] = t], TaskOK(t)',
           t.stage # "idle", t.log = task[i].log, t.header = task[i].header,
           UNCHANGED <<inst, opening, emptyClose, ownerVars, writeVars,
                       closeVars, rest, ackedLog>>
    PROVE  IInv'
<1>1. LogInv' /\ AckedIsDurable'
  BY GrowthKeepsLogs
<1>2. TaskInv'
  <2>1. ASSUME NEW j \in Inst PROVE TaskOK(task[j])'
    <3>1. CASE j = i
      BY <3>1 DEF IInv, TypeOK
    <3>2. CASE j # i
      BY <3>2, GrowthKeepsTasks DEF IInv, TypeOK
    <3> QED
      BY <3>1, <3>2
  <2> QED
    BY <2>1 DEF TaskInv
<1>3. WriterInv'
  BY DEF IInv, TypeOK, WriterInv, ownerVars, writeVars
<1>4. RestInv'
  BY GrowthKeepsRestores DEF RestInv
<1>5. PhaseInv' /\ WaitersHaveWriter' /\ FlushesArePending' /\ SealedLog'
  BY DEF IInv, PhaseInv, WaitersHaveWriter, FlushesArePending, SealedLog,
     ownerVars, writeVars, closeVars
<1> QED
  BY <1>1, <1>2, <1>3, <1>4, <1>5 DEF IInv

\* persist reading the stored rows keeps the invariant.
LEMMA LoadStep ==
    ASSUME IInv, NEW i \in Inst, PersistLoad(i)
    PROVE  IInv'
<1> DEFINE t == task[i]
           u == Reconciled(t)
<1>1. /\ t \in Tasks /\ t.log \in Logs /\ disk.rows \in Logs
      /\ Len(t.log) \in Nat /\ Len(disk.rows) \in Nat
      /\ TaskOK(t) /\ t.stage = "load"
  BY LogFacts DEF IInv, TypeOK, TaskInv, PersistLoad
<1>2. u \in Tasks
  BY <1>1, ReconciledType
<1>3. TypeOK'
  BY <1>2 DEF IInv, TypeOK, PersistLoad, authVars, ownerVars, writeVars,
     closeVars, histVars
<1>4. /\ u.stage \in {"append", "done"} /\ u.log = t.log /\ u.header = t.header
  BY <1>1 DEF Reconciled, Tasks
<1>5. TaskOK(u)
  <2>1. CASE disk.header = None
    <3>1. t.fresh => t.first = 0
      BY <1>1 DEF TaskOK
    <3>2. ~t.fresh => t.first > 0
      BY <1>1 DEF TaskOK
    <3> QED
      BY <1>1, <1>4, <2>1, <3>1, <3>2 DEF TaskOK, Reconciled, Tasks
  <2>2. CASE /\ ~disk.torn
             /\ disk.header = t.header
             /\ IsPrefix(disk.rows, t.log)
             /\ t.first <= Len(disk.rows)
    <3>1. /\ Len(disk.rows) \in 0 .. Len(t.log)
          /\ Take(t.log, Len(disk.rows)) = disk.rows
      BY <1>1, <2>2, PrefixIsSubSeq DEF Take, Logs
    <3>2. IsPrefix(disk.rows, disk.rows)
      BY <1>1, PrefixPointwise DEF Logs
    <3>3. Len(disk.rows) = Len(t.log) => disk.rows = t.log
      BY <1>1, <3>1, SubSeqFull DEF Take, Logs
    <3>4. disk.header # None
      BY <1>1, <2>2, ConstantsAssumption DEF TaskOK
    <3>5. u = [t EXCEPT !.stage = IF Len(disk.rows) = Len(t.log)
                                  THEN "done" ELSE "append",
                        !.first = Len(disk.rows), !.fresh = FALSE]
      BY <1>1, <2>2, <3>4 DEF Reconciled, Tasks
    <3>6. /\ u.first = Len(disk.rows) /\ ~u.fresh
          /\ u.stage = "done" => Len(disk.rows) = Len(t.log)
      BY <1>1, <3>5 DEF Tasks
    <3>7. u.stage = "append" => IsPrefix(Take(u.log, u.first), disk.rows)
      BY <1>4, <3>1, <3>2, <3>6
    <3>8. u.stage = "done" => IsPrefix(u.log, disk.rows)
      BY <1>4, <3>2, <3>3, <3>6
    <3>9. u.header \in Creation
      BY <1>1, <1>4 DEF TaskOK
    <3> QED
      BY <1>4, <2>2, <3>1, <3>6, <3>7, <3>8, <3>9 DEF TaskOK
  <2>3. CASE /\ disk.header # None
             /\ ~(/\ ~disk.torn
                  /\ disk.header = t.header
                  /\ IsPrefix(disk.rows, t.log)
                  /\ t.first <= Len(disk.rows))
    <3>1. u = [t EXCEPT !.stage = "done", !.err = TRUE]
      BY <1>1, <2>3 DEF Reconciled, Tasks
    <3> QED
      BY <1>1, <1>4, <3>1 DEF TaskOK, Tasks
  <2> QED
    BY <2>1, <2>2, <2>3
<1>6. PICK next \in Tasks : next = u
  BY <1>2
<1>7. StorageGrows /\ TaskOK(next)'
  <2>1. disk' = disk /\ TaskOK(next)
    BY <1>5, <1>6 DEF PersistLoad
  <2> QED
    BY <2>1, SameStorage DEF IInv, TaskOK
<1> QED
  <2>1. task' = [task EXCEPT ![i] = next]
    BY <1>6 DEF PersistLoad
  <2>2. UNCHANGED <<inst, opening, emptyClose, ownerVars, writeVars, closeVars,
                    rest, ackedLog>>
    BY DEF PersistLoad, histVars
  <2>3. /\ next.stage # "idle"
        /\ next.log = task[i].log /\ next.header = task[i].header
    BY <1>4, <1>6
  <2> QED
    BY <1>3, <1>7, <2>1, <2>2, <2>3, TaskStep

\* AppendBatch extends what can be read and never rewrites it, even when
\* another activation's task wrote first.
LEMMA AppendStep ==
    ASSUME IInv, NEW i \in Inst, PersistAppend(i)
    PROVE  IInv' /\ StorageGrows
<1> DEFINE t == task[i]
           batch == SubSeq(t.log, t.first + 1, Len(t.log))
<1>1. /\ t \in Tasks /\ t.log \in Logs /\ disk.rows \in Logs
      /\ Len(t.log) \in Nat /\ Len(disk.rows) \in Nat
      /\ TaskOK(t) /\ t.stage = "append" /\ Continues(t)
  BY LogFacts DEF IInv, TypeOK, TaskInv, PersistAppend, Accepts
<1>2. /\ t.first \in 0 .. Len(t.log) /\ t.first = Len(disk.rows)
      /\ IsPrefix(Take(t.log, t.first), disk.rows)
      /\ t.header \in Creation
  BY <1>1 DEF TaskOK, Continues, Tasks
<1>3. Take(t.log, t.first) = disk.rows
  <2>1. /\ Take(t.log, t.first) \in Logs
        /\ Len(Take(t.log, t.first)) = Len(disk.rows)
    BY <1>1, <1>2, PrefixOfSubSeq DEF Take, Logs
  <2>2. Take(disk.rows, Len(disk.rows)) = Take(t.log, t.first)
    BY <1>1, <1>2, <2>1, PrefixIsSubSeq DEF Take, Logs
  <2> QED
    BY <1>1, <2>2, SubSeqFull DEF Take, Logs
<1>4. disk.rows \o batch = t.log
  BY <1>1, <1>2, <1>3, SubSeqContinues DEF Take, Logs
<1>5. batch \in Logs
  BY <1>1, <1>2, SubSeqContinues DEF Logs
<1>6. /\ disk'.rows = t.log
      /\ disk'.header = t.header
      /\ disk' \in Disks
  <2>1. /\ disk' = [disk EXCEPT !.header = IF t.fresh THEN t.header ELSE @,
                                !.rows = @ \o batch]
        /\ disk \in Disks
    BY DEF PersistAppend, IInv, TypeOK
  <2>2. ~t.fresh => disk.header = t.header
    BY <1>1 DEF TaskOK
  <2> HIDE DEF batch
  <2> QED
    BY <1>1, <1>2, <1>4, <2>1, <2>2 DEF MaybeCreation, Disks
<1>7. StorageGrows
  <2>1. IsPrefix(disk.rows, t.log)
    BY <1>1, <1>4, <1>5, PrefixOfConcat DEF Logs
  <2>2. disk.header # None => disk.header = t.header
    BY <1>1 DEF TaskOK, Continues
  <2> QED
    BY <1>6, <2>1, <2>2 DEF StorageGrows
<1>8. PICK lost \in BOOLEAN :
        task' = [task EXCEPT ![i].stage = "done", ![i].err = lost]
  BY DEF PersistAppend
<1>9. PICK u \in Tasks :
        /\ task' = [task EXCEPT ![i] = u]
        /\ u.log = t.log /\ u.header = t.header /\ u.stage = "done"
  <2>1. [t EXCEPT !.stage = "done", !.err = lost] \in Tasks
    BY <1>1, <1>8 DEF Tasks, Stages
  <2> QED
    BY <1>1, <1>8, <2>1 DEF IInv, TypeOK, Tasks
<1>10. TypeOK'
  BY <1>6, <1>9 DEF IInv, TypeOK, PersistAppend, authVars, ownerVars, writeVars,
     closeVars, histVars
<1>11. TaskOK(u)'
  <2>1. IsPrefix(t.log, t.log)
    BY <1>1, PrefixPointwise DEF Logs
  <2> QED
    BY <1>2, <1>6, <1>9, <2>1 DEF TaskOK
<1> QED
  <2>1. UNCHANGED <<inst, opening, emptyClose, ownerVars, writeVars, closeVars,
                    rest, ackedLog>>
    BY DEF PersistAppend, histVars
  <2>2. u.stage # "idle"
    BY <1>9
  <2> QED
    BY <1>7, <1>9, <1>10, <1>11, <2>1, <2>2, TaskStep

\* A failing storage call of a persistence task keeps the invariant.
LEMMA FailStep ==
    ASSUME IInv, NEW i \in Inst, PersistFails(i)
    PROVE  IInv'
<1> DEFINE t == task[i]
<1>1. t \in Tasks /\ TaskOK(t) /\ t.stage # "idle"
  BY DEF IInv, TypeOK, TaskInv, PersistFails
<1>2. PICK u \in Tasks :
        /\ task' = [task EXCEPT ![i] = u]
        /\ u.log = t.log /\ u.header = t.header
        /\ u.stage = "done" /\ u.err
  <2>1. [t EXCEPT !.stage = "done", !.err = TRUE] \in Tasks
    BY <1>1 DEF Tasks, Stages
  <2> QED
    BY <1>1, <2>1 DEF IInv, TypeOK, Tasks, PersistFails
<1>3. TypeOK'
  <2>1. task' \in [Inst -> Tasks]
    BY <1>2 DEF IInv, TypeOK
  <2> QED
    BY <2>1 DEF IInv, TypeOK, PersistFails, authVars, ownerVars, writeVars,
       closeVars, histVars
<1>4. StorageGrows /\ TaskOK(u)'
  <2>1. disk' = disk /\ TypeOK
    BY DEF IInv, PersistFails
  <2>2. u.header \in Creation
    BY <1>1, <1>2 DEF TaskOK
  <2>3. ~(u.stage \in {"load", "append"}) /\ u.stage # "load" /\ u.stage # "append"
    BY <1>2
  <2>4. TaskOK(u)'
    BY <1>2, <2>2, <2>3 DEF TaskOK
  <2> QED
    BY <2>1, <2>4, SameStorage
<1> QED
  <2>1. UNCHANGED <<inst, opening, emptyClose, ownerVars, writeVars, closeVars,
                    rest, ackedLog>>
    BY DEF PersistFails, histVars
  <2>2. u.stage # "idle"
    BY <1>2
  <2> QED
    BY <1>2, <1>3, <1>4, <2>1, <2>2, TaskStep

\* A restore task moves; the Grain and its writer do not.
LEMMA RestoreStep ==
    ASSUME IInv, TypeOK', StorageGrows, NEW i \in Inst, NEW r \in Restores,
           rest' = [rest EXCEPT ![i] = r], RestOK(r)',
           UNCHANGED <<inst, opening, emptyClose, ownerVars, writeVars,
                       closeVars, task, ackedLog>>
    PROVE  IInv'
<1>1. LogInv' /\ AckedIsDurable'
  BY GrowthKeepsLogs
<1>2. TaskInv'
  BY GrowthKeepsTasks DEF TaskInv
<1>3. RestInv'
  <2>1. ASSUME NEW j \in Inst PROVE RestOK(rest[j])'
    <3>1. CASE j = i
      BY <3>1 DEF IInv, TypeOK
    <3>2. CASE j # i
      BY <3>2, GrowthKeepsRestores DEF IInv, TypeOK
    <3> QED
      BY <3>1, <3>2
  <2> QED
    BY <2>1 DEF RestInv
<1>4. PhaseInv' /\ WriterInv' /\ WaitersHaveWriter' /\ FlushesArePending'
      /\ SealedLog'
  BY DEF IInv, PhaseInv, WriterInv, WaitersHaveWriter, FlushesArePending,
     SealedLog, ownerVars, writeVars, closeVars
<1> QED
  BY <1>1, <1>2, <1>3, <1>4 DEF IInv

\* What CommitRepair is about to delete is the torn tail alone: the marker was
\* read in an earlier transaction, and still stands behind all that can be read.
TailInv == \A i \in Inst : rest[i].stage = "repair" => rest[i].log = disk.rows

\* Removing the tail of a marker that still fits removes no readable row.
LEMMA RepairExtends ==
    ASSUME TypeOK, NEW i \in Inst, rest[i].log = disk.rows
    PROVE  /\ Repaired(rest[i].log) = disk.rows \o Closers(rest[i].log)
           /\ Repaired(rest[i].log) \in Logs
           /\ IsPrefix(disk.rows, Repaired(rest[i].log))
<1>1. disk.rows \in Logs /\ Closers(rest[i].log) \in Logs
  BY LogFacts, ClosersType
<1>2. Take(disk.rows, Len(disk.rows)) = disk.rows
  BY <1>1, SubSeqFull DEF Take, Logs
<1>3. Repaired(rest[i].log) = disk.rows \o Closers(rest[i].log)
  BY <1>2 DEF Repaired
<1> QED
  BY <1>1, <1>3, PrefixOfConcat DEF Logs

\* Each step of restore (load, check, CommitRepair, failure)
\* keeps the invariant and only adds to what can be read.
LEMMA RestoreSteps ==
    ASSUME IInv, TailInv, NEW i \in Inst,
           RestoreLoad(i) \/ RestoreCheck(i) \/ RestoreRepair(i) \/ RestoreFails(i)
    PROVE  IInv' /\ StorageGrows
<1> DEFINE r == rest[i]
<1>1. /\ r \in Restores /\ r.log \in Logs /\ disk.rows \in Logs /\ RestOK(r)
      /\ Closers(r.log) \in Logs
  BY LogFacts, ClosersType DEF IInv, TypeOK, RestInv
<1>2. /\ UNCHANGED <<inst, opening, emptyClose, ownerVars, writeVars, closeVars,
                     task, ackedLog>>
      /\ UNCHANGED <<authVars, spawned, histVars>>
  BY DEF RestoreLoad, RestoreCheck, RestoreRepair, RestoreFails, RestOnly,
     histVars
<1>3. /\ disk' \in Disks
      /\ StorageGrows
  <2>1. CASE disk' = disk
    BY <2>1, SameStorage DEF IInv, TypeOK
  <2>2. CASE RestoreRepair(i)
    <3> DEFINE rows == Repaired(r.log)
               cuts == IF r.torn THEN disk.cuts + 1 ELSE disk.cuts
    <3>1. disk' = [disk EXCEPT !.rows = rows, !.torn = FALSE, !.cuts = cuts]
      BY <2>2 DEF RestoreRepair
    <3>2. rows \in Logs /\ IsPrefix(disk.rows, rows)
      BY <2>2, RepairExtends DEF IInv, TailInv, RestoreRepair
    <3>3. cuts \in Nat /\ disk \in Disks
      BY DEF IInv, TypeOK, Disks
    <3> HIDE DEF rows, cuts
    <3>4. /\ disk' \in Disks /\ disk'.rows = rows /\ disk'.header = disk.header
      BY <3>1, <3>2, <3>3 DEF Disks
    <3> QED
      BY <3>2, <3>4 DEF StorageGrows
  <2> QED
    BY <2>1, <2>2 DEF RestoreLoad, RestoreCheck, RestoreFails
<1>4. PICK s \in Restores :
        /\ rest' = [rest EXCEPT ![i] = s]
        /\ \/ s.stage = "load"
           \/ s.stage = "done" /\ s.err
           \/ s.log = disk.rows /\ disk.header # None /\ disk' = disk
           \/ /\ s.log = r.log
              /\ r.stage \in {"check", "repair"}
  <2>1. CASE RestoreLoad(i)
    <3> DEFINE s == IF disk.header = None
                    THEN [NoRest EXCEPT !.stage = "done", !.err = TRUE]
                    ELSE [NoRest EXCEPT !.stage = "check", !.log = disk.rows,
                                        !.torn = disk.torn, !.cuts = disk.cuts]
    <3>1. s \in Restores
      <4>1. disk \in Disks
        BY DEF IInv, TypeOK
      <4> QED
        BY <1>1, <4>1, IdleTypes DEF NoRest, Restores, RestStages, Disks
    <3>2. rest' = [rest EXCEPT ![i] = s] /\ disk' = disk
      BY <2>1 DEF RestoreLoad
    <3> QED
      BY <3>1, <3>2 DEF NoRest
  <2>2. CASE RestoreCheck(i)
    <3>1. PICK stage \in {"load", "repair", "done"} :
            rest' = [rest EXCEPT ![i].stage = stage]
      BY <2>2 DEF RestoreCheck
    <3>2. [r EXCEPT !.stage = stage] \in Restores
      BY <1>1, <3>1 DEF Restores, RestStages
    <3> QED
      BY <1>1, <2>2, <3>1, <3>2 DEF IInv, TypeOK, Restores, RestoreCheck
  <2>3. CASE RestoreRepair(i)
    <3>1. PICK lost \in BOOLEAN :
            rest' = [rest EXCEPT ![i].stage = IF lost THEN "done" ELSE "load",
                                 ![i].err = lost]
      BY <2>3 DEF RestoreRepair
    <3>2. [r EXCEPT !.stage = IF lost THEN "done" ELSE "load", !.err = lost]
            \in Restores
      BY <1>1, <3>1 DEF Restores, RestStages
    <3> QED
      BY <1>1, <3>1, <3>2, ZenonT(90) DEF IInv, TypeOK, Restores
  <2>4. CASE RestoreFails(i)
    <3>1. [r EXCEPT !.stage = "done", !.err = TRUE] \in Restores
      BY <1>1 DEF Restores, RestStages
    <3> QED
      BY <1>1, <2>4, <3>1 DEF IInv, TypeOK, Restores, RestoreFails
  <2> QED
    BY <2>1, <2>2, <2>3, <2>4
<1>5. TypeOK'
  BY <1>2, <1>3, <1>4 DEF IInv, TypeOK, authVars, ownerVars, writeVars,
     closeVars, histVars
<1>6. RestOK(s)'
  <2>1. IsPrefix(disk.rows, disk.rows)
    BY <1>1, PrefixPointwise DEF Logs
  <2>2. r.stage \in {"check", "repair"} =>
            disk'.header # None /\ IsPrefix(r.log, disk'.rows)
    BY <1>1, <1>3, <1>5, StoredStays DEF IInv, RestOK, StorageGrows
  <2> QED
    BY <1>4, <2>1, <2>2 DEF RestOK
<1> QED
  BY <1>2, <1>3, <1>4, <1>5, <1>6, RestoreStep

\* startWrite: whatever it decides, a waiter keeps a writer, and the task it
\* launches holds a log whose durable prefix is stored.
LEMMA StartWriteInv ==
    ASSUME NEW tasks \in [Inst -> Tasks], NEW busy \in BOOLEAN,
           NEW bad \in BOOLEAN, NEW fl \in SUBSET Nat, NEW wt \in BOOLEAN,
           StartWrite(tasks, busy, bad, fl, wt),
           inst \in Inst, inst' = inst, live',
           mem' \in Logs, header' \in Creation, durable' \in Nat, LogInv',
           \A i \in Inst : TaskOK(tasks[i])',
           busy => /\ tasks[inst].stage # "idle"
                   /\ tasks[inst].header = header'
                   /\ IsPrefix(tasks[inst].log, mem'),
           \A b \in fl : durable' < b /\ b <= Len(mem'),
           wt => busy \/ durable' < Len(mem')
    PROVE  /\ task' \in [Inst -> Tasks]
           /\ writing' \in BOOLEAN /\ failed' \in BOOLEAN
           /\ flushes' \subseteq Nat /\ waiters' \in BOOLEAN
           /\ TaskInv' /\ WriterInv' /\ WaitersHaveWriter' /\ FlushesArePending'
           /\ waiters' => wt
<1>l. Len(mem') \in Nat
  BY LenProperties DEF Logs
<1>1. CASE /\ busy \/ durable' >= Len(mem')
           /\ writing' = busy /\ failed' = bad /\ flushes' = fl /\ waiters' = wt
           /\ task' = tasks
  <2>1. WaitersHaveWriter'
    <3>1. ASSUME NEW b \in fl PROVE durable' < Len(mem')
      BY <1>l
    <3>2. fl # {} => durable' < Len(mem')
      BY <3>1
    <3>3. durable' < Len(mem') => ~(durable' >= Len(mem'))
      BY <1>l
    <3> QED
      BY <1>1, <3>2, <3>3, Zenon DEF WaitersHaveWriter
  <2>2. FlushesArePending'
    BY <1>1 DEF FlushesArePending
  <2>3. TaskInv'
    BY <1>1 DEF TaskInv
  <2>4. WriterInv'
    BY <1>1 DEF WriterInv
  <2> QED
    BY <1>1, <2>1, <2>2, <2>3, <2>4
<1>2. CASE /\ ~busy /\ durable' < Len(mem')
           /\ writing' = TRUE /\ failed' = bad /\ flushes' = fl /\ waiters' = wt
           /\ task' = [tasks EXCEPT ![inst] =
                         NewTask(mem', header', durable', bad)]
  <2>1. PICK t \in Tasks : t = NewTask(mem', header', durable', bad)
    BY NewTaskType DEF MaybeCreation
  <2>2. /\ t.log = mem' /\ t.header = header' /\ t.first = durable'
        /\ t.stage \in {"load", "append"} /\ t.fresh = (durable' = 0)
        /\ t.stage = "append" => durable' # 0
    BY <2>1 DEF NewTask
  <2>3. TaskOK(t)'
    <3>1. durable' # 0 <=> durable' > 0
      OBVIOUS
    <3>2. /\ t.first <= Len(t.log)
          /\ IsPrefix(Take(t.log, t.first), disk'.rows)
          /\ t.first > 0 => disk'.header = t.header
      BY <2>2 DEF LogInv
    <3> QED
      BY <2>2, <3>1, <3>2 DEF TaskOK
  <2>4. /\ task' \in [Inst -> Tasks] /\ task'[inst] = t
        /\ \A i \in Inst : task'[i] = t \/ task'[i] = tasks[i]
    BY <1>2, <2>1
  <2>5. TaskInv'
    BY <2>3, <2>4 DEF TaskInv
  <2>6. IsPrefix(mem', mem')
    BY <1>l, PrefixPointwise DEF Logs
  <2>7. WriterInv'
    BY <2>2, <2>4, <2>6 DEF WriterInv
  <2>8. WaitersHaveWriter' /\ FlushesArePending'
    BY <1>2 DEF WaitersHaveWriter, FlushesArePending
  <2> QED
    BY <1>2, <2>4, <2>5, <2>7, <2>8
<1>3. CASE /\ writing' = FALSE /\ failed' = TRUE /\ FailWaiters
           /\ task' = tasks
  BY <1>3 DEF FailWaiters, TaskInv, WriterInv, WaitersHaveWriter,
     FlushesArePending
<1> QED
  BY <1>1, <1>2, <1>3 DEF StartWrite

\* A Commit appends to the owned log and may start a write.
LEMMA CommitStep ==
    ASSUME IInv, NEW c \in Creation, NEW kinds \in Batches, Commit(c, kinds)
    PROVE  IInv'
<1>1. /\ live /\ inst \in Inst /\ ~closing /\ header \in Creation
      /\ durable \in 0 .. Len(mem) /\ mem \in Logs /\ Len(mem) \in Nat
      /\ TypeOK
  BY LogFacts, ConstantsAssumption DEF IInv, TypeOK, PhaseInv, LogInv, Commit,
     Authorized, AcceptsWrites, Inst
<1>2. /\ mem' \in Logs /\ IsPrefix(mem, mem') /\ Len(mem) <= Len(mem')
      /\ Len(mem') \in Nat
  <2>1. Events(kinds, c) \in Logs
    BY EventsType, ConstantsAssumption DEF Author
  <2>2. mem' = mem \o Events(kinds, c)
    BY DEF Commit
  <2>3. mem' \in Logs /\ IsPrefix(mem, mem')
    BY <1>1, <2>1, <2>2, PrefixOfConcat DEF Logs
  <2> QED
    BY <2>3, LenProperties DEF IsPrefix, Logs
<1>3. UNCHANGED <<disk, authVars, inst, spawned, opening, emptyClose, live, owner,
                  header, durable, closeVars, rest, histVars>>
  BY DEF Commit
<1>4. LogInv'
  <2>1. Take(mem', durable) = Take(mem, durable)
    BY <1>1, <1>2, SamePrefix DEF Take, Logs
  <2> QED
    BY <1>1, <1>2, <1>3, <2>1 DEF IInv, LogInv
<1>5. PICK tasks \in [Inst -> Tasks], busy \in BOOLEAN, bad \in BOOLEAN,
           fl \in SUBSET Nat, wt \in BOOLEAN :
        /\ tasks = task /\ busy = writing /\ bad = failed /\ fl = flushes
        /\ wt = waiters
        /\ StartWrite(tasks, busy, bad, fl, wt)
  BY DEF IInv, TypeOK, Commit
<1>6. \A i \in Inst : TaskOK(tasks[i])'
  BY <1>3, <1>5 DEF IInv, TaskInv, TaskOK
<1>7. busy => /\ tasks[inst].stage # "idle"
              /\ tasks[inst].header = header'
              /\ IsPrefix(tasks[inst].log, mem')
  <2>1. SUFFICES ASSUME busy PROVE IsPrefix(task[inst].log, mem')
    BY <1>3, <1>5 DEF IInv, WriterInv
  <2>2. task[inst].log \in Logs /\ IsPrefix(task[inst].log, mem)
    BY <1>1, <1>5, <2>1, LogFacts DEF IInv, WriterInv
  <2> QED
    BY <1>1, <1>2, <2>2, PrefixTransitive DEF Logs
<1>8. \A b \in fl : durable' < b /\ b <= Len(mem')
  BY <1>1, <1>2, <1>3, <1>5 DEF IInv, FlushesArePending
<1>9. wt => busy
  BY <1>5 DEF IInv, WaitersHaveWriter
<1>10. /\ task' \in [Inst -> Tasks]
       /\ writing' \in BOOLEAN /\ failed' \in BOOLEAN
       /\ flushes' \subseteq Nat /\ waiters' \in BOOLEAN
       /\ TaskInv' /\ WriterInv' /\ WaitersHaveWriter' /\ FlushesArePending'
       /\ waiters' => waiters
  <2>1. live' /\ inst' = inst /\ header' \in Creation /\ durable' \in Nat
    BY <1>1, <1>3
  <2> QED
    BY <1>1, <1>2, <1>4, <1>5, <1>6, <1>7, <1>8, <1>9, <2>1, StartWriteInv
<1>11. TypeOK'
  BY <1>1, <1>2, <1>3, <1>10 DEF TypeOK, authVars, closeVars, histVars
<1>12. PhaseInv' /\ RestInv' /\ SealedLog' /\ AckedIsDurable'
  BY <1>1, <1>3, <1>10 DEF IInv, PhaseInv, RestInv, RestOK, SealedLog,
     AckedIsDurable, closeVars, histVars
<1> QED
  BY <1>4, <1>10, <1>11, <1>12 DEF IInv

\* What an acknowledgement records is stored.
LEMMA AcknowledgeStored ==
    ASSUME TypeOK, NEW log \in Logs, IsPrefix(log, disk.rows), AckedIsDurable
    PROVE  /\ Longer(ackedLog, log) \in Logs
           /\ IsPrefix(Longer(ackedLog, log), disk.rows)
BY DEF TypeOK, Longer, AckedIsDurable

\* A request that leaves the log alone and may start a write.
LEMMA RequestFacts ==
    ASSUME IInv, NEW c \in Creation, Authorized(c)
    PROVE  /\ live /\ inst \in Inst /\ header \in Creation /\ owner = c
           /\ durable \in 0 .. Len(mem) /\ mem \in Logs /\ Len(mem) \in Nat
           /\ Take(mem, durable) \in Logs
           /\ Longer(ackedLog, Take(mem, durable)) \in Logs
           /\ IsPrefix(Longer(ackedLog, Take(mem, durable)), disk.rows)
<1>1. /\ live /\ inst \in Inst /\ header \in Creation /\ owner = c
      /\ durable \in 0 .. Len(mem) /\ mem \in Logs /\ Len(mem) \in Nat
  BY LogFacts, ConstantsAssumption DEF IInv, TypeOK, PhaseInv, LogInv,
     Authorized, Inst
<1>2. Take(mem, durable) \in Logs
  BY <1>1, PrefixOfSubSeq DEF Take, Logs
<1> QED
  BY <1>1, <1>2, AcknowledgeStored DEF IInv, LogInv

\* A request that leaves the log alone, records a waiter and may start a
\* write keeps the invariant: whoever waits has a writer.
LEMMA RequestStep ==
    ASSUME IInv, NEW c \in Creation, Authorized(c),
           NEW fl \in SUBSET Nat, NEW wt \in BOOLEAN,
           StartWrite(task, writing, failed, fl, wt),
           \A b \in fl : durable < b /\ b <= Len(mem),
           wt => writing \/ durable < Len(mem),
           UNCHANGED <<disk, inst, ownerVars>>
    PROVE  /\ task' \in [Inst -> Tasks]
           /\ writing' \in BOOLEAN /\ failed' \in BOOLEAN
           /\ flushes' \subseteq Nat /\ waiters' \in BOOLEAN
           /\ LogInv' /\ TaskInv' /\ WriterInv' /\ WaitersHaveWriter'
           /\ FlushesArePending'
           /\ waiters' => wt
<1>1. PICK tasks \in [Inst -> Tasks], busy \in BOOLEAN, bad \in BOOLEAN :
        /\ tasks = task /\ busy = writing /\ bad = failed
        /\ StartWrite(tasks, busy, bad, fl, wt)
  BY DEF IInv, TypeOK
<1>2. LogInv'
  BY DEF IInv, LogInv, ownerVars
<1>3. \A i \in Inst : TaskOK(tasks[i])'
  BY <1>1 DEF IInv, TaskInv, TaskOK
<1>4. busy => /\ tasks[inst].stage # "idle"
              /\ tasks[inst].header = header'
              /\ IsPrefix(tasks[inst].log, mem')
  BY <1>1 DEF IInv, WriterInv, ownerVars
<1>5. /\ live' /\ inst \in Inst /\ inst' = inst /\ header' \in Creation
      /\ durable' \in Nat /\ mem' \in Logs
      /\ \A b \in fl : durable' < b /\ b <= Len(mem')
      /\ wt => busy \/ durable' < Len(mem')
  BY <1>1, RequestFacts DEF ownerVars
<1> QED
  BY <1>1, <1>2, <1>3, <1>4, <1>5, StartWriteInv, ZenonT(40)

\* Grain.startFlush answers at once or parks a barrier that a write will reach.
LEMMA FlushStep ==
    ASSUME IInv, NEW c \in Creation, NEW barrier \in 0 .. MaxLen,
           Flush(c, barrier)
    PROVE  IInv'
<1>1. /\ Authorized(c) /\ barrier \in 0 .. Len(mem)
      /\ UNCHANGED <<disk, authVars, inst, spawned, opening, emptyClose, ownerVars,
                     closeVars, rest, drained, served>>
  BY DEF Flush
<1>2. /\ live /\ inst \in Inst /\ durable \in 0 .. Len(mem) /\ Len(mem) \in Nat
  BY <1>1, RequestFacts
<1>3. ackedLog' \in Logs /\ AckedIsDurable'
  BY <1>1, RequestFacts DEF Flush, IInv, TypeOK, AckedIsDurable
<1>4. /\ task' \in [Inst -> Tasks]
      /\ writing' \in BOOLEAN /\ failed' \in BOOLEAN
      /\ flushes' \subseteq Nat /\ waiters' \in BOOLEAN
      /\ LogInv' /\ TaskInv' /\ WriterInv' /\ WaitersHaveWriter'
      /\ FlushesArePending'
      /\ waiters' => waiters
  <2>1. CASE durable >= barrier
    <3>1. UNCHANGED <<disk, inst, ownerVars, writeVars, task>>
      BY <1>1, <2>1 DEF Flush
    <3> QED
      BY <3>1 DEF IInv, TypeOK, LogInv, TaskInv, TaskOK, WriterInv,
         WaitersHaveWriter, FlushesArePending, ownerVars, writeVars
  <2>2. CASE ~(durable >= barrier)
    <3>1. PICK fl \in SUBSET Nat, wt \in BOOLEAN :
            /\ fl = flushes \cup {barrier} /\ wt = waiters
            /\ StartWrite(task, writing, failed, fl, wt)
      BY <1>1, <2>2 DEF Flush, IInv, TypeOK
    <3>2. \A b \in fl : durable < b /\ b <= Len(mem)
      BY <1>1, <1>2, <2>2, <3>1 DEF IInv, FlushesArePending
    <3>3. wt => writing
      BY <3>1 DEF IInv, WaitersHaveWriter
    <3> QED
      BY <1>1, <3>1, <3>2, <3>3, RequestStep
  <2> QED
    BY <2>1, <2>2
<1>5. TypeOK'
  BY <1>1, <1>3, <1>4 DEF IInv, TypeOK, authVars, ownerVars, closeVars
<1>6. PhaseInv' /\ RestInv' /\ SealedLog'
  BY <1>1, <1>2, <1>4 DEF IInv, PhaseInv, RestInv, RestOK, SealedLog, ownerVars,
     closeVars
<1> QED
  BY <1>3, <1>4, <1>5, <1>6 DEF IInv

\* Grain.startClose seals the log and waits for what is not durable yet.
LEMMA CloseStep ==
    ASSUME IInv, NEW c \in Creation, Close(c)
    PROVE  IInv'
<1> DEFINE barrier == IF closing THEN closeAt ELSE Len(mem)
<1>1. /\ Authorized(c) /\ closing' = TRUE /\ closeAt' = barrier
      /\ UNCHANGED <<disk, authVars, inst, spawned, opening, emptyClose, ownerVars,
                     rest, served>>
  BY DEF Close
<1>2. /\ live /\ inst \in Inst /\ durable \in 0 .. Len(mem) /\ Len(mem) \in Nat
      /\ owner = c /\ barrier = Len(mem)
  BY <1>1, RequestFacts DEF IInv, SealedLog
<1>3. ackedLog' \in Logs /\ AckedIsDurable' /\ drained' \subseteq Creation
  BY <1>1, RequestFacts DEF Close, IInv, TypeOK, AckedIsDurable
<1>4. /\ task' \in [Inst -> Tasks]
      /\ writing' \in BOOLEAN /\ failed' \in BOOLEAN
      /\ flushes' \subseteq Nat /\ waiters' \in BOOLEAN
      /\ LogInv' /\ TaskInv' /\ WriterInv' /\ WaitersHaveWriter'
      /\ FlushesArePending'
  <2>1. CASE Quiescent(barrier)
    <3>1. UNCHANGED <<disk, inst, ownerVars, writeVars, task>>
      BY <1>1, <2>1 DEF Close
    <3> QED
      BY <3>1 DEF IInv, TypeOK, LogInv, TaskInv, TaskOK, WriterInv,
         WaitersHaveWriter, FlushesArePending, ownerVars, writeVars
  <2>2. CASE ~Quiescent(barrier)
    <3>1. PICK fl \in SUBSET Nat, wt \in BOOLEAN :
            /\ fl = flushes /\ wt = TRUE
            /\ StartWrite(task, writing, failed, fl, wt)
      BY <1>1, <2>2 DEF Close, IInv, TypeOK
    <3>2. \A b \in fl : durable < b /\ b <= Len(mem)
      BY <3>1 DEF IInv, FlushesArePending
    <3>3. writing \/ durable < Len(mem)
      BY <1>2, <2>2 DEF Quiescent
    <3> QED
      BY <1>1, <3>1, <3>2, <3>3, RequestStep
  <2> QED
    BY <2>1, <2>2
<1>5. TypeOK'
  BY <1>1, <1>2, <1>3, <1>4 DEF IInv, TypeOK, authVars, ownerVars
<1>6. PhaseInv' /\ RestInv' /\ SealedLog'
  BY <1>1, <1>2 DEF IInv, PhaseInv, RestInv, RestOK, SealedLog, ownerVars
<1> QED
  BY <1>3, <1>4, <1>5, <1>6 DEF IInv

\* A successful write advances durable to what its task stored, answers
\* the satisfied barriers and keeps a writer for the rest.
LEMMA WriteSucceedsStep ==
    ASSUME IInv, NEW i \in Inst, WriteSucceeds(i)
    PROVE  IInv'
<1> DEFINE t == task[i]
           kept == Unsatisfied(flushes, durable')
           closed == closing /\ durable' >= Len(mem) /\ durable' >= closeAt
<1>1. /\ i = inst /\ writing /\ t.stage = "done" /\ ~t.err
      /\ durable' = Len(t.log) /\ mem' = mem /\ header' = header
      /\ UNCHANGED <<disk, authVars, inst, spawned, opening, emptyClose, live,
                     owner, closeVars, rest, served>>
      /\ StartWrite([task EXCEPT ![i] = Idle], FALSE, FALSE, kept,
                    waiters /\ ~closed)
      /\ ackedLog' = IF kept # flushes \/ (closed /\ waiters)
                     THEN Longer(ackedLog, Take(mem, durable')) ELSE ackedLog
      /\ drained' = IF closed /\ waiters THEN drained \cup {owner} ELSE drained
  BY DEF WriteSucceeds, TokenMatches, Captured
<1>2. /\ live /\ owner \in Creation /\ header \in Creation
      /\ mem \in Logs /\ Len(mem) \in Nat /\ t.log \in Logs /\ Len(t.log) \in Nat
      /\ IsPrefix(t.log, mem) /\ IsPrefix(t.log, disk.rows)
      /\ disk.header = header
  BY <1>1, LogFacts DEF IInv, PhaseInv, WriterInv, TaskInv, TaskOK
<1>3. durable' \in 0 .. Len(mem) /\ Take(mem, durable') = t.log
  BY <1>1, <1>2, PrefixIsSubSeq DEF Take, Logs
<1>4. LogInv'
  BY <1>1, <1>2, <1>3 DEF LogInv
<1>5. ackedLog' \in Logs /\ AckedIsDurable' /\ drained' \subseteq Creation
  <2>1. drained' \subseteq Creation
    BY <1>1, <1>2 DEF IInv, TypeOK
  <2>2. /\ Longer(ackedLog, t.log) \in Logs
        /\ IsPrefix(Longer(ackedLog, t.log), disk.rows)
    BY <1>2, AcknowledgeStored DEF IInv
  <2> HIDE DEF t, kept, closed
  <2> QED
    BY <1>1, <1>3, <2>1, <2>2 DEF IInv, TypeOK, AckedIsDurable
<1>6. PICK tasks \in [Inst -> Tasks], fl \in SUBSET Nat, wt \in BOOLEAN :
        /\ tasks = [task EXCEPT ![i] = Idle]
        /\ fl = kept /\ (wt <=> waiters /\ ~closed)
        /\ StartWrite(tasks, FALSE, FALSE, fl, wt)
  <2>1. [task EXCEPT ![i] = Idle] \in [Inst -> Tasks]
    BY IdleTypes DEF IInv, TypeOK
  <2>2. kept \in SUBSET Nat
    BY DEF IInv, TypeOK, Unsatisfied
  <2>3. (waiters /\ ~closed) \in BOOLEAN
    OBVIOUS
  <2> HIDE DEF kept, closed
  <2> QED
    BY <1>1, <2>1, <2>2, <2>3
<1>7. \A j \in Inst : TaskOK(tasks[j])'
  <2>1. ASSUME NEW j \in Inst PROVE TaskOK(tasks[j])'
    <3>1. CASE j = i
      BY <1>6, <3>1 DEF IInv, TypeOK, TaskOK, Idle
    <3>2. CASE j # i
      BY <1>1, <1>6, <3>2 DEF IInv, TypeOK, TaskInv, TaskOK
    <3> QED
      BY <3>1, <3>2
  <2> QED
    BY <2>1
<1>8. \A b \in fl : durable' < b /\ b <= Len(mem')
  BY <1>1, <1>3, <1>6 DEF IInv, TypeOK, FlushesArePending, Unsatisfied
<1>9. wt => durable' < Len(mem')
  <2>1. waiters => closing /\ closeAt = Len(mem)
    BY <1>2 DEF IInv, PhaseInv, SealedLog
  <2> QED
    BY <1>1, <1>2, <1>3, <1>6, <2>1
<1>10. /\ task' \in [Inst -> Tasks]
       /\ writing' \in BOOLEAN /\ failed' \in BOOLEAN
       /\ flushes' \subseteq Nat /\ waiters' \in BOOLEAN
       /\ TaskInv' /\ WriterInv' /\ WaitersHaveWriter' /\ FlushesArePending'
       /\ waiters' => wt
  <2>1. /\ inst \in Inst /\ inst' = inst /\ live' /\ mem' \in Logs
        /\ header' \in Creation /\ durable' \in Nat
    BY <1>1, <1>2
  <2>2. FALSE \in BOOLEAN
    OBVIOUS
  <2> QED
    BY <1>4, <1>6, <1>7, <1>8, <1>9, <2>1, <2>2, StartWriteInv
<1>11. TypeOK'
  BY <1>1, <1>5, <1>10 DEF IInv, TypeOK, authVars, closeVars
<1>12. PhaseInv' /\ RestInv' /\ SealedLog'
  BY <1>1, <1>2, <1>6, <1>10 DEF IInv, PhaseInv, RestInv, RestOK, SealedLog,
     closeVars
<1> QED
  BY <1>4, <1>5, <1>10, <1>11, <1>12 DEF IInv

\* A completion that installs nothing frees its task.
LEMMA IdleKeepsTasks ==
    ASSUME IInv, NEW i \in Inst, task' = [task EXCEPT ![i] = Idle], disk' = disk
    PROVE  /\ task' \in [Inst -> Tasks]
           /\ TaskInv'
           /\ \A j \in Inst : j # i => task'[j] = task[j]
<1>1. /\ task' \in [Inst -> Tasks] /\ task'[i] = Idle
      /\ \A j \in Inst : j # i => task'[j] = task[j]
  BY IdleTypes DEF IInv, TypeOK
<1>2. TaskOK(task[i])'
  BY <1>1 DEF TaskOK, Idle
<1>3. ASSUME NEW j \in Inst, j # i PROVE TaskOK(task[j])'
  BY <1>1, <1>3 DEF IInv, TaskInv, TaskOK
<1> QED
  BY <1>1, <1>2, <1>3 DEF TaskInv

\* A failed write drops every waiter; a late result of a former
\* activation changes nothing.
LEMMA WriteEndsSteps ==
    ASSUME IInv, NEW i \in Inst, WriteFails(i) \/ WriteStale(i)
    PROVE  IInv'
<1>1. /\ task' = [task EXCEPT ![i] = Idle]
      /\ UNCHANGED <<disk, authVars, inst, spawned, opening, emptyClose, ownerVars,
                     closeVars, rest, histVars>>
  BY DEF WriteFails, WriteStale
<1>2. /\ task' \in [Inst -> Tasks] /\ TaskInv'
      /\ \A j \in Inst : j # i => task'[j] = task[j]
  BY <1>1, IdleKeepsTasks
<1>3. /\ writing' \in BOOLEAN /\ failed' \in BOOLEAN
      /\ flushes' \subseteq Nat /\ waiters' \in BOOLEAN
      /\ WriterInv' /\ WaitersHaveWriter' /\ FlushesArePending'
      /\ waiters' => waiters
      /\ ~live => ~writing' /\ ~waiters' /\ flushes' = {}
  <2>1. CASE WriteFails(i)
    BY <2>1 DEF WriteFails, FailWaiters, WriterInv, WaitersHaveWriter,
       FlushesArePending
  <2>2. CASE WriteStale(i)
    <3>1. writing => i # inst
      BY <2>2 DEF WriteStale, TokenMatches
    <3>2. UNCHANGED writeVars
      BY <2>2 DEF WriteStale
    <3> QED
      BY <1>1, <1>2, <3>1, <3>2 DEF IInv, TypeOK, PhaseInv, WriterInv,
         WaitersHaveWriter, FlushesArePending, ownerVars, writeVars
  <2> QED
    BY <2>1, <2>2
<1>4. TypeOK'
  BY <1>1, <1>2, <1>3 DEF IInv, TypeOK, authVars, ownerVars, closeVars, histVars
<1>5. PhaseInv' /\ LogInv' /\ RestInv' /\ SealedLog' /\ AckedIsDurable'
  BY <1>1, <1>3 DEF IInv, PhaseInv, LogInv, RestInv, RestOK, SealedLog,
     AckedIsDurable, ownerVars, closeVars, histVars
<1> QED
  BY <1>2, <1>3, <1>4, <1>5 DEF IInv

\* A failed or superseded restore leaves no log behind.
LEMMA ResumeDropsSteps ==
    ASSUME IInv, NEW i \in Inst, ResumeFails(i) \/ ResumeStale(i)
    PROVE  IInv'
<1>1. /\ rest' = [rest EXCEPT ![i] = NoRest]
      /\ opening' \in {opening, NotOpening}
      /\ UNCHANGED <<disk, authVars, inst, spawned, emptyClose, ownerVars,
                     writeVars, closeVars, task, histVars>>
  BY DEF ResumeFails, ResumeStale, RestOnly
<1>2. /\ rest' \in [Inst -> Restores]
      /\ \A j \in Inst : rest'[j] = NoRest \/ rest'[j] = rest[j]
  BY <1>1, IdleTypes DEF IInv, TypeOK
<1>3. RestInv'
  BY <1>1, <1>2 DEF IInv, RestInv, RestOK, NoRest
<1>4. opening' \in [stage : OpenStages, creation : MaybeCreation, mode : Modes]
  BY <1>1 DEF IInv, TypeOK, NotOpening, OpenStages, MaybeCreation, Modes
<1>5. TypeOK'
  BY <1>1, <1>2, <1>4 DEF IInv, TypeOK, authVars, ownerVars, writeVars,
     closeVars, histVars
<1>6. DataInv'
  BY <1>1, DataFrame DEF histVars
<1>7. PhaseInv'
  BY <1>1 DEF IInv, PhaseInv, NotOpening, ownerVars, writeVars, closeVars
<1> QED
  BY <1>3, <1>5, <1>6, <1>7 DEF IInv, DataInv

\* Installing a log whose durable prefix is stored, in an activation that had
\* none, keeps the invariant whatever startWrite decides.
LEMMA InstallStep ==
    ASSUME IInv, NEW c \in Creation, inst # 0, ~live, ~closing, live',
           owner' = c, header' \in Creation, mem' \in Logs, durable' \in Nat,
           LogInv', RestInv', opening' = NotOpening,
           rest' \in [Inst -> Restores],
           served' = [served EXCEPT ![c] = inst],
           StartWrite(task, writing, failed, flushes, waiters),
           UNCHANGED <<disk, authVars, inst, spawned, emptyClose, closeVars,
                       ackedLog, drained>>
    PROVE  IInv'
<1>1. ~writing /\ ~waiters /\ flushes = {} /\ inst \in Inst
  BY ConstantsAssumption DEF IInv, TypeOK, PhaseInv, Inst
<1>2. PICK tasks \in [Inst -> Tasks], bad \in BOOLEAN :
        /\ tasks = task
        /\ StartWrite(tasks, FALSE, bad, {}, FALSE)
  <2>1. writing = FALSE /\ waiters = FALSE /\ failed \in BOOLEAN
        /\ task \in [Inst -> Tasks]
    BY <1>1 DEF IInv, TypeOK
  <2> QED
    BY <1>1, <2>1
<1>3. \A i \in Inst : TaskOK(tasks[i])'
  BY <1>2 DEF IInv, TaskInv, TaskOK
<1>4. /\ task' \in [Inst -> Tasks]
      /\ writing' \in BOOLEAN /\ failed' \in BOOLEAN
      /\ flushes' \subseteq Nat /\ waiters' \in BOOLEAN
      /\ TaskInv' /\ WriterInv' /\ WaitersHaveWriter' /\ FlushesArePending'
      /\ waiters' => FALSE
  <2>1. FALSE \in BOOLEAN /\ {} \in SUBSET Nat /\ inst' = inst
    OBVIOUS
  <2> QED
    BY <1>1, <1>2, <1>3, <2>1, StartWriteInv
<1>5. opening' \in [stage : OpenStages, creation : MaybeCreation, mode : Modes]
  BY DEF NotOpening, OpenStages, MaybeCreation, Modes
<1>6. TypeOK'
  BY <1>4, <1>5 DEF IInv, TypeOK, authVars, closeVars, MaybeCreation
<1>7. PhaseInv' /\ SealedLog' /\ AckedIsDurable'
  BY <1>4 DEF IInv, PhaseInv, SealedLog, AckedIsDurable, NotOpening, closeVars
<1> QED
  BY <1>4, <1>6, <1>7 DEF IInv

\* An admitted creation installs its seed and starts its first write.
LEMMA CreatesStep ==
    ASSUME IInv, NEW seed \in Seeds, AdmissionCreates(seed)
    PROVE  IInv'
<1> DEFINE c == opening.creation
           log == IF seed = <<>> THEN <<>> ELSE EndSeed(Events(seed, c), c)
<1>1. inst # 0 /\ ~live /\ ~closing /\ c \in Creation
  BY DEF IInv, PhaseInv, AdmissionCreates
<1>2. /\ live' /\ owner' = c /\ header' = c /\ mem' = log /\ durable' = 0
      /\ opening' = NotOpening
      /\ served' = [served EXCEPT ![c] = inst]
      /\ StartWrite(task, writing, failed, flushes, waiters)
      /\ UNCHANGED <<disk, authVars, inst, spawned, emptyClose, closeVars,
                     rest, ackedLog, drained>>
  BY DEF AdmissionCreates
<1>3. log \in Logs
  <2>1. Events(seed, c) \in Logs
    BY <1>1, EventsType, ConstantsAssumption DEF Author
  <2> QED
    BY <1>1, <2>1, EndSeedExtends, IdleTypes DEF Author
<1>4. LogInv'
  <2>1. Take(mem', 0) = <<>>
    BY SubSeqEmpty DEF Take
  <2>2. IsPrefix(<<>>, disk.rows) /\ Len(mem') >= 0
    BY <1>2, <1>3, LogFacts, EmptyIsPrefix, LenProperties DEF IInv, Logs
  <2> QED
    BY <1>2, <2>1, <2>2 DEF LogInv
<1>5. RestInv' /\ rest' \in [Inst -> Restores]
  BY <1>2 DEF IInv, TypeOK, RestInv, RestOK
<1> QED
  <2> HIDE DEF log, c
  <2>1. owner' = c /\ header' \in Creation /\ mem' \in Logs /\ durable' \in Nat
    BY <1>1, <1>2, <1>3
  <2> QED
    BY <1>1, <1>2, <1>4, <1>5, <2>1, InstallStep

\* An admitted resume installs the restored log as durable.
LEMMA ResumeStep ==
    ASSUME IInv, NEW i \in Inst, ResumeFinishes(i)
    PROVE  IInv'
<1> DEFINE c == opening.creation
           log == rest[i].log
<1>1. inst # 0 /\ ~live /\ ~closing /\ c \in Creation
  BY DEF IInv, PhaseInv, ResumeFinishes, OwnsRestore
<1>2. /\ live' /\ owner' = c /\ header' = disk.header
      /\ mem' = EndSeed(log, c) /\ durable' = Len(log)
      /\ opening' = NotOpening
      /\ rest' = [rest EXCEPT ![i] = NoRest]
      /\ served' = [served EXCEPT ![c] = inst]
      /\ StartWrite(task, writing, failed, flushes, waiters)
      /\ UNCHANGED <<disk, authVars, inst, spawned, emptyClose, closeVars,
                     ackedLog, drained>>
  BY DEF ResumeFinishes
<1>3. /\ log \in Logs /\ Len(log) \in Nat
      /\ disk.header \in Creation /\ IsPrefix(log, disk.rows)
  BY LogFacts DEF IInv, TypeOK, Disks, RestInv, RestOK, ResumeFinishes, MaybeCreation
<1>4. mem' \in Logs /\ IsPrefix(log, mem')
  BY <1>1, <1>2, <1>3, EndSeedExtends DEF Author
<1>5. LogInv'
  <2>1. Take(mem', Len(log)) = log /\ Len(log) <= Len(mem')
    BY <1>3, <1>4, PrefixIsSubSeq DEF Take, Logs, IsPrefix
  <2> QED
    BY <1>2, <1>3, <2>1 DEF LogInv
<1>6. RestInv' /\ rest' \in [Inst -> Restores]
  <2>1. /\ rest' \in [Inst -> Restores]
        /\ \A j \in Inst : rest'[j] = NoRest \/ rest'[j] = rest[j]
    BY <1>2, IdleTypes DEF IInv, TypeOK
  <2> QED
    BY <1>2, <2>1 DEF IInv, RestInv, RestOK, NoRest
<1> QED
  <2> HIDE DEF log, c
  <2>1. header' \in Creation /\ durable' \in Nat
    BY <1>2, <1>3
  <2> QED
    BY <1>1, <1>2, <1>4, <1>5, <1>6, <2>1, InstallStep

\* Damage behind the rows that can be read changes none of them.
LEMMA TornStep ==
    ASSUME IInv, TailTorn
    PROVE  IInv' /\ StorageGrows
<1>1. /\ disk' = [disk EXCEPT !.torn = TRUE]
      /\ UNCHANGED <<authVars, inst, spawned, opening, emptyClose, ownerVars,
                     writeVars, closeVars, task, rest, histVars>>
  BY DEF TailTorn
<1>2. /\ disk' \in Disks /\ disk'.rows = disk.rows /\ disk'.header = disk.header
  BY <1>1 DEF IInv, TypeOK, Disks
<1>3. StorageGrows
  <2>1. IsPrefix(disk.rows, disk.rows)
    BY LogFacts, PrefixPointwise DEF IInv, Logs
  <2> QED
    BY <1>2, <2>1 DEF StorageGrows
<1>4. TypeOK'
  BY <1>1, <1>2 DEF IInv, TypeOK, authVars, ownerVars, writeVars, closeVars, histVars
<1>5. LogInv' /\ AckedIsDurable'
  BY <1>1, <1>3, <1>4, GrowthKeepsLogs DEF histVars
<1>6. TaskInv' /\ RestInv'
  BY <1>1, <1>3, <1>4, GrowthKeepsTasks, GrowthKeepsRestores DEF TaskInv, RestInv
<1>7. PhaseInv' /\ WriterInv' /\ WaitersHaveWriter' /\ FlushesArePending'
      /\ SealedLog'
  BY <1>1 DEF IInv, PhaseInv, WriterInv, WaitersHaveWriter, FlushesArePending,
     SealedLog, ownerVars, writeVars, closeVars
<1> QED
  BY <1>3, <1>4, <1>5, <1>6, <1>7 DEF IInv

\* Every step of the Grain, its tasks, the registry, a crash and a torn tail
\* keeps the invariant: one case per action of Next.
LEMMA InvariantStep == IInv /\ TailInv /\ [Next]_vars => IInv'
<1> SUFFICES ASSUME IInv, TailInv, [Next]_vars PROVE IInv'
  OBVIOUS
<1>1. CASE UNCHANGED vars
  <2>1. UNCHANGED <<disk, grant, modes, inst, spawned, opening, emptyClose, ownerVars,
                    writeVars, closeVars, task, rest, histVars>>
    BY <1>1 DEF vars
  <2>2. TypeOK' /\ PhaseInv' /\ RestInv'
    BY <2>1 DEF IInv, TypeOK, PhaseInv, RestInv, RestOK, ownerVars, writeVars,
       closeVars, histVars
  <2>3. DataInv'
    BY <2>1, DataFrame DEF histVars
  <2> QED
    BY <2>2, <2>3 DEF IInv, DataInv
<1>2. CASE Authority
  BY <1>2, AuthoritySteps
<1>3. CASE Lifecycle
  BY <1>3, ActivateStep, EndSteps DEF Lifecycle
<1>4. CASE Requests
  BY <1>4, OpenStep, CommitStep, FlushStep, CloseStep, CloseEmptySteps
     DEF Requests
<1>5. CASE Replies
  BY <1>5, ReplySteps, CreatesStep, CloseEmptySteps DEF Replies
<1>6. ASSUME NEW i \in Inst, Storage(i) \/ Completion(i) \/ Restore(i)
      PROVE  IInv'
  <2>1. CASE Storage(i)
    BY <2>1, LoadStep, AppendStep, FailStep DEF Storage
  <2>2. CASE Completion(i)
    BY <2>2, WriteSucceedsStep, WriteEndsSteps DEF Completion
  <2>3. CASE Restore(i)
    BY <2>3, RestoreSteps, ResumeStep, ResumeDropsSteps DEF Restore
  <2> QED
    BY <1>6, <2>1, <2>2, <2>3
<1>7. CASE TailTorn
  BY <1>7, TornStep
<1> QED
  BY <1>1, <1>2, <1>3, <1>4, <1>5, <1>6, <1>7 DEF Next

\* No step takes back a row that can be read, or the session header.
LEMMA StorageStep == IInv /\ TailInv /\ [Next]_vars => StorageGrows
<1> SUFFICES ASSUME IInv, TailInv, [Next]_vars PROVE StorageGrows
  OBVIOUS
<1>1. CASE disk' = disk
  BY <1>1, SameStorage DEF IInv
<1>2. ASSUME NEW i \in Inst, PersistAppend(i) \/ RestoreRepair(i)
      PROVE  StorageGrows
  BY <1>2, AppendStep, RestoreSteps
<1>3. CASE TailTorn
  BY <1>3, TornStep
<1>4. disk' = disk \/ TailTorn \/ \E i \in Inst : PersistAppend(i) \/ RestoreRepair(i)
  BY DEF Next, vars, Authority, Reserve, Retire, Release, Lifecycle, Activate,
     Deactivate, Crash, Requests, Open, Commit, Flush, Close, CloseEmptyAgain,
     CloseEmptyAsk, Replies, ClaimAnswered, AdmissionDenied, AdmissionCreates,
     AdmissionRestores, CloseEmptyAnswered, Storage, PersistLoad, PersistFails,
     Completion, WriteSucceeds, WriteFails, WriteStale, Restore, RestoreLoad,
     RestoreCheck, RestoreFails, ResumeFinishes, ResumeFails, ResumeStale
<1> QED
  BY <1>1, <1>2, <1>3, <1>4
=============================================================================
