-------------------------- MODULE SessionGrainHistory --------------------------
(***************************************************************************)
(* One history of a Session: theorems about the creation authority, the    *)
(* tasks of earlier activations and the refinement of DurableLog.          *)
(*                                                                         *)
(* IInv (SessionGrainProofs) says that what the Grain counts as durable is *)
(* stored.  That nobody else writes the same rows rests on the authority:  *)
(* storage work runs only for the activation that holds the grant          *)
(* (BusyInv), the holder is the only activation that ever installed the    *)
(* creation (HoldInv), and a grant is given back only when its work is     *)
(* done (GrantInv).  That is also why a removal of a torn tail never meets *)
(* a row written since the marker was read (TailInv).                      *)
(***************************************************************************)
EXTENDS SessionGrainProofs

Holds(c) == grant.creation = c /\ grant.instance = inst

\* What a registration says of the creation it names.
GrantInv ==
    /\ grant.creation = None => grant.instance = 0 /\ ~grant.retired
    /\ grant.creation # None => modes[grant.creation] # "none"
    /\ grant.instance <= spawned
    /\ grant.retired => grant.creation \in drained
    /\ grant.creation \in drained =>
        grant.instance # 0 /\ (grant.instance = inst => closing)
    /\ \A c \in Creation :
        /\ served[c] # 0 \/ c \in drained => modes[c] # "none"
        /\ served[c] <= spawned
        /\ served[c] # 0 /\ grant.creation = c => served[c] = grant.instance

\* The activation that owns a log, or closed without one, holds the grant.
HoldInv ==
    /\ opening.stage \in {"granted", "restore"} => Holds(opening.creation)
    /\ live => Holds(owner) /\ served[owner] = inst
    /\ closing => inst # 0 /\ owner \in Creation /\ Holds(owner)
    /\ \A c \in Creation : inst # 0 /\ served[c] = inst => live /\ owner = c

Busy(i) ==
    \/ task[i].stage \in {"load", "append"}
    \/ rest[i].stage \in {"load", "check", "repair"}

\* Storage calls run for the holder of the grant, who is not drained.
BusyInv ==
    /\ \A i \in Inst :
        /\ Busy(i) => /\ grant.instance = i
                      /\ grant.creation \in Creation \ drained
        /\ i > spawned => task[i].stage = "idle" /\ rest[i].stage = "idle"
        /\ task[i].stage # "idle" => rest[i].stage = "idle"
        /\ i = inst /\ task[i].stage # "idle" => writing
        /\ i = inst /\ rest[i].stage # "idle" => opening.stage = "restore"
    /\ DrainedIsQuiet

\* Whoever wrote the header was installed once.
HeaderInv ==
    /\ disk.header = None => disk.rows = <<>>
    /\ disk.header # None => served[disk.header] # 0
    /\ live => served[header] # 0
    /\ \A i \in Inst : task[i].stage # "idle" => served[task[i].header] # 0

\* What was last written or read is all that is stored.
StoreInv ==
    /\ OneWriterHistory
    /\ AppendContinuesStorage
    /\ writing /\ task[inst].stage = "done" /\ ~task[inst].err =>
        disk.rows = task[inst].log
    /\ live /\ ~writing /\ ~failed /\ durable > 0 => durable = Len(disk.rows)
    /\ opening.stage = "restore" /\ rest[inst].stage = "done" /\ ~rest[inst].err =>
        rest[inst].log = disk.rows

HInv == IInv /\ GrantInv /\ HoldInv /\ BusyInv /\ HeaderInv /\ StoreInv /\ TailInv

-----------------------------------------------------------------------------
(* The authority. *)

\* Steps that leave the registration and what it is compared with alone.
LEMMA GrantFrame ==
    ASSUME GrantInv, UNCHANGED <<grant, modes, spawned, inst, closing, drained, served>>
    PROVE  GrantInv'
BY DEF GrantInv

\* Reserve, Retire and Release (authority.go) keep what a registration says.
LEMMA GrantByAuthority ==
    ASSUME IInv, GrantInv, Authority
    PROVE  GrantInv'
<1> USE ConstantsAssumption DEF IInv, TypeOK, GrantInv, histVars
<1>1. ASSUME NEW c \in Creation, NEW mode \in {"create", "resume"}, Reserve(c, mode)
      PROVE  GrantInv'
  <2>1. /\ grant.creation = None /\ grant'.creation = c
        /\ grant'.instance = 0 /\ ~grant'.retired
        /\ c # None
    BY <1>1 DEF Reserve, NoGrant
  <2>2. /\ modes' \in [Creation -> Modes]
        /\ \A d \in Creation : modes[d] # "none" => modes'[d] # "none"
        /\ modes[c] = "none" /\ modes'[c] # "none"
    BY <1>1 DEF Reserve, Modes
  <2>3. UNCHANGED <<spawned, inst, closing, drained, served>>
    BY <1>1 DEF Reserve, closeVars
  <2> QED
    BY <2>1, <2>2, <2>3
<1>2. CASE Retire
  <2>1. /\ grant.creation \in drained /\ grant.creation # None
        /\ grant'.creation = grant.creation /\ grant'.instance = grant.instance
    BY <1>2 DEF Retire
  <2>2. UNCHANGED <<modes, spawned, inst, closing, drained, served>>
    BY <1>2 DEF Retire, closeVars
  <2> QED
    BY <2>1, <2>2
<1>3. CASE Release
  BY <1>3 DEF Release, NoGrant
<1> QED
  BY <1>1, <1>2, <1>3 DEF Authority

\* A new activation has a number nobody was bound to, and the end of one or of
\* the process leaves no closing Grain behind.
LEMMA GrantByLifecycle ==
    ASSUME IInv, GrantInv, Lifecycle
    PROVE  GrantInv'
<1> USE ConstantsAssumption DEF IInv, TypeOK, GrantInv, histVars, authVars, closeVars
<1>1. CASE Activate
  BY <1>1 DEF Activate
<1>2. CASE Deactivate
  BY <1>2 DEF Deactivate, GrainGone
<1>3. CASE Crash
  BY <1>3 DEF Crash, GrainGone, NoGrant
<1> QED
  BY <1>1, <1>2, <1>3 DEF Lifecycle

\* The authority binds a registration to the activation that claims it, which
\* has not closed anything yet.
LEMMA GrantByClaim ==
    ASSUME IInv, GrantInv, inst # 0, NEW c \in Creation,
           grant' = Claimed(c, inst),
           \/ UNCHANGED <<drained, closing>>
           \/ closing' /\ MayClaim(c, inst) /\ drained' = drained \cup {c},
           UNCHANGED <<modes, spawned, inst, served>>
    PROVE  GrantInv'
BY ConstantsAssumption DEF IInv, TypeOK, GrantInv, Claimed, MayClaim

\* A log is installed by the holder of the grant, for a creation that no
\* earlier activation installed.
LEMMA GrantByInstall ==
    ASSUME IInv, GrantInv, inst # 0, NEW c \in Creation, Holds(c),
           served' = [served EXCEPT ![c] = inst],
           UNCHANGED <<grant, modes, spawned, inst, closing, drained>>
    PROVE  GrantInv'
BY ConstantsAssumption DEF IInv, TypeOK, GrantInv, Holds

\* The holder answers a Close.
LEMMA GrantByDrain ==
    ASSUME IInv, GrantInv, inst # 0, NEW c \in Creation, Holds(c), closing',
           drained' = drained \/ drained' = drained \cup {c},
           UNCHANGED <<grant, modes, spawned, inst, served>>
    PROVE  GrantInv'
BY ConstantsAssumption DEF IInv, TypeOK, GrantInv, Holds

\* Every step keeps what a registration says.
LEMMA GrantStep ==
    ASSUME IInv, GrantInv, HoldInv, Next
    PROVE  GrantInv'
<1>1. CASE Authority
  BY <1>1, GrantByAuthority
<1>2. CASE Lifecycle
  BY <1>2, GrantByLifecycle
<1>3. ASSUME NEW c \in Creation,
             \/ Open(c)
             \/ \E kinds \in Batches : Commit(c, kinds)
             \/ \E barrier \in 0 .. MaxLen : Flush(c, barrier)
             \/ CloseEmptyAsk(c)
      PROVE  GrantInv'
  <2>1. UNCHANGED <<grant, modes, spawned, inst, closing, drained, served>>
    BY <1>3 DEF Open, Commit, Flush, CloseEmptyAsk, authVars, closeVars, histVars
  <2> QED
    BY <2>1, GrantFrame
<1>4. ASSUME NEW c \in Creation, Close(c) \/ CloseEmptyAgain(c)
      PROVE  GrantInv'
  <2>1. inst # 0 /\ c = owner /\ closing'
        /\ (drained' = drained \/ drained' = drained \cup {c})
        /\ UNCHANGED <<grant, modes, spawned, inst, served>>
    <3>1. CASE Close(c)
      BY <3>1 DEF Close, Authorized, authVars
    <3>2. CASE CloseEmptyAgain(c)
      BY <3>2 DEF CloseEmptyAgain, authVars, closeVars
    <3> QED
      BY <1>4, <3>1, <3>2
  <2>2. Holds(c)
    BY <1>4, <2>1 DEF HoldInv, Close, CloseEmptyAgain, Authorized
  <2> QED
    BY <2>1, <2>2, GrantByDrain
<1>5. CASE Replies
  <2>1. CASE ClaimAnswered
    <3>1. /\ grant' = Claimed(opening.creation, inst)
          /\ UNCHANGED <<modes, spawned, inst, served, drained, closing>>
      BY <2>1 DEF ClaimAnswered, closeVars, histVars
    <3>2. inst # 0 /\ opening.creation \in Creation
      BY <2>1 DEF ClaimAnswered, IInv, PhaseInv
    <3> QED
      BY <3>1, <3>2, GrantByClaim
  <2>2. CASE AdmissionDenied \/ AdmissionRestores
    <3>1. UNCHANGED <<grant, modes, spawned, inst, closing, drained, served>>
      BY <2>2 DEF AdmissionDenied, AdmissionRestores, authVars, closeVars, histVars
    <3> QED
      BY <3>1, GrantFrame
  <2>3. ASSUME NEW seed \in Seeds, AdmissionCreates(seed)
        PROVE  GrantInv'
    <3>1. /\ served' = [served EXCEPT ![opening.creation] = inst]
          /\ UNCHANGED <<grant, modes, spawned, inst, closing, drained>>
      BY <2>3 DEF AdmissionCreates, authVars, closeVars
    <3>2. inst # 0 /\ opening.creation \in Creation /\ Holds(opening.creation)
      BY <2>3 DEF AdmissionCreates, IInv, PhaseInv, HoldInv
    <3> QED
      BY <3>1, <3>2, GrantByInstall
  <2>4. CASE CloseEmptyAnswered
    <3>1. /\ emptyClose \in Creation /\ inst # 0
          /\ grant' = Claimed(emptyClose, inst)
          /\ UNCHANGED <<modes, spawned, inst, served>>
          /\ \/ UNCHANGED <<drained, closing>>
             \/ /\ closing' /\ MayClaim(emptyClose, inst)
                /\ drained' = drained \cup {emptyClose}
      BY <2>4 DEF CloseEmptyAnswered, IInv, PhaseInv, TypeOK, MaybeCreation
    <3> QED
      BY <3>1, GrantByClaim
  <2> QED
    BY <1>5, <2>1, <2>2, <2>3, <2>4 DEF Replies
<1>6. ASSUME NEW i \in Inst, Storage(i) \/ Completion(i) \/ Restore(i)
      PROVE  GrantInv'
  <2>1. CASE WriteSucceeds(i)
    <3>1. /\ UNCHANGED <<grant, modes, spawned, inst, closing, served>>
          /\ drained' = drained \/ (closing /\ waiters /\ drained' = drained \cup {owner})
      BY <2>1 DEF WriteSucceeds, authVars, closeVars
    <3>2. CASE drained' = drained
      BY <3>1, <3>2, GrantFrame
    <3>3. CASE closing /\ drained' = drained \cup {owner}
      BY <3>1, <3>3, GrantByDrain DEF HoldInv
    <3> QED
      BY <3>1, <3>2, <3>3
  <2>2. CASE ResumeFinishes(i)
    <3>1. /\ served' = [served EXCEPT ![opening.creation] = inst]
          /\ UNCHANGED <<grant, modes, spawned, inst, closing, drained>>
      BY <2>2 DEF ResumeFinishes, authVars, closeVars
    <3>2. inst # 0 /\ opening.creation \in Creation /\ Holds(opening.creation)
      BY <2>2 DEF ResumeFinishes, OwnsRestore, IInv, PhaseInv, HoldInv
    <3> QED
      BY <3>1, <3>2, GrantByInstall
  <2>3. CASE \/ Storage(i) \/ WriteFails(i) \/ WriteStale(i)
             \/ RestoreLoad(i) \/ RestoreCheck(i) \/ RestoreRepair(i)
             \/ RestoreFails(i) \/ ResumeFails(i) \/ ResumeStale(i)
    <3>1. UNCHANGED <<grant, modes, spawned, inst, closing, drained, served>>
      BY <2>3 DEF Storage, PersistLoad, PersistAppend, PersistFails, WriteFails,
         WriteStale, RestoreLoad, RestoreCheck, RestoreRepair, RestoreFails,
         ResumeFails, ResumeStale, RestOnly, authVars, closeVars, histVars
    <3> QED
      BY <3>1, GrantFrame
  <2> QED
    BY <1>6, <2>1, <2>2, <2>3 DEF Completion, Restore
<1>7. CASE TailTorn
  <2>1. UNCHANGED <<grant, modes, spawned, inst, closing, drained, served>>
    BY <1>7 DEF TailTorn, authVars, closeVars, histVars
  <2> QED
    BY <2>1, GrantFrame
<1> QED
  BY <1>1, <1>2, <1>3, <1>4, <1>5, <1>6, <1>7 DEF Next, Requests

-----------------------------------------------------------------------------
(* The owner holds the grant. *)

\* The parts of a state that HoldInv reads, and the ways to leave them alone.
LEMMA HoldFrame ==
    ASSUME HoldInv, UNCHANGED <<inst, live, owner, closing, served>>,
           UNCHANGED <<grant.creation, grant.instance>>,
           opening'.stage \in {"granted", "restore"} =>
               /\ opening.stage \in {"granted", "restore"}
               /\ opening'.creation = opening.creation
    PROVE  HoldInv'
BY DEF HoldInv, Holds

\* A registration is made, retired and released while nobody holds it, or keeps
\* its holder.
LEMMA HoldByAuthority ==
    ASSUME IInv, HoldInv, Authority
    PROVE  HoldInv'
<1>1. UNCHANGED <<inst, live, owner, closing, served, opening>>
  BY DEF Authority, Reserve, Retire, Release, ownerVars, closeVars, histVars
<1>2. CASE Retire
  <2>1. UNCHANGED <<grant.creation, grant.instance>>
    BY <1>2 DEF Retire, IInv, TypeOK
  <2> QED
    BY <1>1, <2>1, HoldFrame
<1>3. CASE Release \/ \E c \in Creation, mode \in {"create", "resume"} : Reserve(c, mode)
  <2>1. \/ inst = 0
        \/ grant.creation \notin Creation
    BY <1>3, ConstantsAssumption DEF Release, Reserve, NoGrant
  <2>2. opening.stage \notin {"granted", "restore"} /\ ~live /\ ~closing
    BY <2>1 DEF IInv, PhaseInv, HoldInv, Holds
  <2> QED
    BY <1>1, <2>2 DEF HoldInv
<1> QED
  BY <1>2, <1>3 DEF Authority

\* A new activation holds nothing: its number was never bound or installed.
LEMMA HoldByLifecycle ==
    ASSUME IInv, GrantInv, HoldInv, Lifecycle
    PROVE  HoldInv'
<1>1. CASE Activate
  <2>1. /\ ~live /\ ~closing /\ opening.stage = "none"
        /\ inst' = spawned + 1 /\ UNCHANGED <<live, owner, closing, opening, served>>
    BY <1>1 DEF Activate, IInv, PhaseInv, HoldInv, ownerVars, closeVars, histVars
  <2>2. \A c \in Creation : served'[c] # inst'
    BY <2>1 DEF GrantInv, IInv, TypeOK
  <2> QED
    BY <2>1, <2>2 DEF HoldInv
<1>2. CASE Deactivate \/ Crash
  <2>1. /\ inst' = 0 /\ ~live' /\ ~closing' /\ opening'.stage = "none"
    BY <1>2 DEF Deactivate, Crash, GrainGone, NotOpening
  <2> QED
    BY <2>1 DEF HoldInv
<1> QED
  BY <1>1, <1>2 DEF Lifecycle

\* A log is installed for the holder, which had installed none.
LEMMA HoldByInstall ==
    ASSUME IInv, HoldInv, NEW c \in Creation, Holds(c), inst # 0, ~live, ~closing,
           live', owner' = c, opening' = NotOpening,
           served' = [served EXCEPT ![c] = inst],
           UNCHANGED <<grant, inst, closing>>
    PROVE  HoldInv'
<1>1. opening'.stage = "none"
  BY DEF NotOpening
<1>2. Holds(c)'
  BY DEF Holds
<1>3. \A d \in Creation : served[d] # inst
  BY DEF HoldInv
<1>4. served'[c] = inst /\ \A d \in Creation : d # c => served'[d] = served[d]
  BY DEF IInv, TypeOK
<1> QED
  BY <1>1, <1>2, <1>3, <1>4 DEF HoldInv

\* The replies of the authority make a holder, and only one of them.
LEMMA HoldByReply ==
    ASSUME IInv, HoldInv, ClaimAnswered \/ CloseEmptyAnswered
    PROVE  HoldInv'
<1>1. CASE ClaimAnswered
  <2>1. /\ ~live' /\ ~closing' /\ inst' = inst /\ served' = served
        /\ ~live /\ live' = live /\ closing' = closing
    BY <1>1 DEF ClaimAnswered, IInv, PhaseInv, ownerVars, closeVars, histVars
  <2>2. opening'.stage = "granted" => Holds(opening.creation)'
    <3>1. /\ opening'.creation = opening.creation
          /\ opening'.stage = "granted" => MayClaim(opening.creation, inst)
      BY <1>1 DEF ClaimAnswered, IInv, TypeOK
    <3>2. MayClaim(opening.creation, inst) =>
            grant'.creation = opening.creation /\ grant'.instance = inst
      BY <1>1 DEF ClaimAnswered, Claimed, MayClaim, IInv, TypeOK
    <3> QED
      BY <2>1, <3>1, <3>2 DEF Holds
  <2>3. opening'.stage \in {"granted", "denied"}
    BY <1>1 DEF ClaimAnswered, IInv, TypeOK
  <2> QED
    BY <2>1, <2>2, <2>3 DEF HoldInv
<1>2. CASE CloseEmptyAnswered
  <2> DEFINE e == emptyClose
  <2>1. /\ e \in Creation /\ inst # 0 /\ grant' = Claimed(e, inst)
        /\ UNCHANGED <<inst, opening, live, served>>
    BY <1>2 DEF CloseEmptyAnswered, IInv, PhaseInv, TypeOK, MaybeCreation
  <2>2. \A d : Holds(d) => Holds(d)'
    BY <2>1 DEF Holds, Claimed, MayClaim, IInv, TypeOK
  <2>3. CASE MayClaim(e, inst) /\ opening.stage = "none" /\ ~live
    <3>1. closing' /\ owner' = e
      BY <1>2, <2>3 DEF CloseEmptyAnswered
    <3>2. grant'.creation = e /\ grant'.instance = inst
      BY <2>1, <2>3 DEF Claimed, MayClaim, IInv, TypeOK
    <3>3. ~live' /\ opening'.stage = "none" /\ inst' = inst /\ served' = served
      BY <2>1, <2>3
    <3> QED
      BY <2>1, <2>3, <3>1, <3>2, <3>3 DEF HoldInv, Holds
  <2>4. CASE ~(MayClaim(e, inst) /\ opening.stage = "none" /\ ~live)
    <3>1. UNCHANGED <<closing, owner>>
      BY <1>2, <2>4 DEF CloseEmptyAnswered
    <3> QED
      BY <2>1, <2>2, <3>1 DEF HoldInv
  <2> QED
    BY <2>3, <2>4
<1> QED
  BY <1>1, <1>2

\* Every step leaves the grant with the activation that owns the log.
LEMMA HoldStep ==
    ASSUME IInv, GrantInv, HoldInv, Next
    PROVE  HoldInv'
<1>1. CASE Authority
  BY <1>1, HoldByAuthority
<1>2. CASE Lifecycle
  BY <1>2, HoldByLifecycle
<1>3. ASSUME NEW c \in Creation,
             \/ Open(c)
             \/ \E kinds \in Batches : Commit(c, kinds)
             \/ \E barrier \in 0 .. MaxLen : Flush(c, barrier)
             \/ CloseEmptyAgain(c) \/ CloseEmptyAsk(c)
      PROVE  HoldInv'
  <2>1. /\ UNCHANGED <<grant, inst, live, owner, closing, served>>
        /\ opening' = opening \/ opening'.stage = "claim"
    <3>1. CASE Open(c)
      BY <3>1 DEF Open, authVars, ownerVars, closeVars, histVars
    <3>2. ASSUME NEW kinds \in Batches, Commit(c, kinds)
          PROVE  UNCHANGED <<grant, inst, live, owner, closing, served, opening>>
      BY <3>2 DEF Commit, authVars, closeVars, histVars
    <3>3. ASSUME NEW barrier \in 0 .. MaxLen, Flush(c, barrier)
          PROVE  UNCHANGED <<grant, inst, live, owner, closing, served, opening>>
      BY <3>3 DEF Flush, authVars, ownerVars, closeVars
    <3>4. CASE CloseEmptyAgain(c) \/ CloseEmptyAsk(c)
      BY <3>4 DEF CloseEmptyAgain, CloseEmptyAsk, authVars, ownerVars, closeVars,
         histVars
    <3> QED
      BY <1>3, <3>1, <3>2, <3>3, <3>4
  <2> QED
    BY <2>1, HoldFrame
<1>4. ASSUME NEW c \in Creation, Close(c)
      PROVE  HoldInv'
  <2>1. /\ live /\ UNCHANGED <<grant, inst, live, owner, opening, served>>
    BY <1>4 DEF Close, Authorized, authVars, ownerVars
  <2>2. inst # 0 /\ owner \in Creation /\ Holds(owner)
    BY <2>1 DEF IInv, PhaseInv, HoldInv
  <2> QED
    BY <2>1, <2>2 DEF HoldInv, Holds
<1>5. CASE ClaimAnswered \/ CloseEmptyAnswered
  BY <1>5, HoldByReply
<1>6. CASE AdmissionDenied \/ AdmissionRestores
  <2>1. /\ UNCHANGED <<grant, inst, live, owner, closing, served>>
        /\ \/ opening' = NotOpening
           \/ opening.stage = "granted" /\ opening'.creation = opening.creation
    BY <1>6 DEF AdmissionDenied, AdmissionRestores, authVars, ownerVars, closeVars,
       histVars, IInv, TypeOK
  <2> QED
    BY <2>1, HoldFrame DEF NotOpening
<1>7. ASSUME NEW seed \in Seeds, AdmissionCreates(seed)
      PROVE  HoldInv'
  <2> DEFINE c == opening.creation
  <2>1. c \in Creation /\ Holds(c) /\ inst # 0 /\ ~live /\ ~closing
    BY <1>7 DEF AdmissionCreates, IInv, PhaseInv, HoldInv
  <2>2. /\ live' /\ owner' = c /\ opening' = NotOpening
        /\ served' = [served EXCEPT ![c] = inst]
        /\ UNCHANGED <<grant, inst, closing>>
    BY <1>7 DEF AdmissionCreates, authVars, closeVars
  <2> QED
    <3> HIDE DEF c
    <3> QED
      BY <2>1, <2>2, HoldByInstall
<1>8. ASSUME NEW i \in Inst, Storage(i) \/ Completion(i) \/ Restore(i)
      PROVE  HoldInv'
  <2>1. CASE ResumeFinishes(i)
    <3> DEFINE c == opening.creation
    <3>1. c \in Creation /\ Holds(c) /\ inst # 0 /\ ~live /\ ~closing
      BY <2>1 DEF ResumeFinishes, OwnsRestore, IInv, PhaseInv, HoldInv
    <3>2. /\ live' /\ owner' = c /\ opening' = NotOpening
          /\ served' = [served EXCEPT ![c] = inst]
          /\ UNCHANGED <<grant, inst, closing>>
      BY <2>1 DEF ResumeFinishes, authVars, closeVars
    <3> QED
      <4> HIDE DEF c
      <4> QED
        BY <3>1, <3>2, HoldByInstall
  <2>2. CASE \/ Storage(i) \/ Completion(i)
             \/ RestoreLoad(i) \/ RestoreCheck(i) \/ RestoreRepair(i)
             \/ RestoreFails(i) \/ ResumeFails(i) \/ ResumeStale(i)
    <3>1. /\ UNCHANGED <<grant, inst, live, owner, closing, served>>
          /\ opening' = opening \/ opening' = NotOpening
      <4>1. CASE Storage(i)
        BY <4>1 DEF Storage, PersistLoad, PersistAppend, PersistFails, authVars,
           ownerVars, closeVars, histVars
      <4>2. CASE Completion(i)
        BY <4>2 DEF Completion, WriteSucceeds, WriteFails, WriteStale, authVars,
           ownerVars, closeVars, histVars
      <4>3. CASE \/ RestoreLoad(i) \/ RestoreCheck(i) \/ RestoreRepair(i)
                 \/ RestoreFails(i) \/ ResumeFails(i) \/ ResumeStale(i)
        BY <4>3 DEF RestoreLoad, RestoreCheck, RestoreRepair, RestoreFails,
           ResumeFails, ResumeStale, RestOnly, authVars, ownerVars, closeVars,
           histVars
      <4> QED
        BY <2>2, <4>1, <4>2, <4>3
    <3> QED
      BY <3>1, HoldFrame DEF NotOpening
  <2> QED
    BY <1>8, <2>1, <2>2 DEF Restore
<1>9. CASE TailTorn
  <2>1. UNCHANGED <<grant, inst, live, owner, closing, served, opening>>
    BY <1>9 DEF TailTorn, authVars, ownerVars, closeVars, histVars
  <2> QED
    BY <2>1, HoldFrame
<1> QED
  BY <1>1, <1>2, <1>3, <1>4, <1>5, <1>6, <1>7, <1>8, <1>9 DEF Next, Requests, Replies

-----------------------------------------------------------------------------
(* Storage work is the holder's. *)

\* The first part of BusyInv, for the tasks and restores of a state to come.
Working(tasks, rests) ==
    \A i \in Inst :
        /\ \/ tasks[i].stage \in {"load", "append"}
           \/ rests[i].stage \in {"load", "check", "repair"}
           => grant.instance = i /\ grant.creation \in Creation \ drained
        /\ i > spawned => tasks[i].stage = "idle" /\ rests[i].stage = "idle"
        /\ tasks[i].stage # "idle" => rests[i].stage = "idle"

\* What BusyInv says beside Working.
Attended ==
    /\ \A i \in Inst : i = inst =>
        /\ task[i].stage # "idle" => writing
        /\ rest[i].stage # "idle" => opening.stage = "restore"
    /\ DrainedIsQuiet

\* BusyInv is these two parts.
LEMMA BusyParts ==
    /\ BusyInv <=> Working(task, rest) /\ Attended
    /\ BusyInv' <=> Working(task, rest)' /\ Attended'
BY DEF BusyInv, Busy, Working, Attended

\* Steps that leave the tasks and what they are compared with alone.
LEMMA BusyFrame ==
    ASSUME BusyInv, UNCHANGED <<task, rest, grant, spawned, inst, drained, writing,
                                live, owner, closing, durable, mem>>,
           opening.stage = "restore" => opening'.stage = "restore"
    PROVE  BusyInv'
BY DEF BusyInv, Busy, DrainedIsQuiet

\* Nothing is in flight when a registration is made, retired or released.
LEMMA BusyByAuthority ==
    ASSUME IInv, GrantInv, BusyInv, Authority
    PROVE  BusyInv'
<1>1. UNCHANGED <<task, rest, spawned, inst, drained, writing, live, owner, closing,
                  durable, mem, opening>>
  BY DEF Authority, Reserve, Retire, Release, ownerVars, writeVars, closeVars, histVars
<1>2. grant.creation \notin Creation \ drained
  BY ConstantsAssumption DEF Authority, Reserve, Retire, Release, NoGrant, GrantInv
<1>3. \A i \in Inst : ~Busy(i)
  BY <1>2 DEF BusyInv
<1>4. Attended'
  BY <1>1, BusyParts DEF Attended, DrainedIsQuiet
<1>5. Working(task, rest)'
  BY <1>1, <1>3 DEF BusyInv, Busy, Working
<1> QED
  BY <1>4, <1>5, BusyParts

\* A new activation has no task, and the end of the process ends every task.
LEMMA BusyByLifecycle ==
    ASSUME IInv, BusyInv, Lifecycle
    PROVE  BusyInv'
<1>1. CASE Activate
  <2>1. /\ ~live /\ live' = live /\ inst' = spawned + 1 /\ spawned' = spawned + 1
        /\ UNCHANGED <<task, rest, grant, drained>>
    BY <1>1 DEF Activate, IInv, PhaseInv, ownerVars, authVars, histVars
  <2>2. \A i \in Inst : i = inst' => task'[i].stage = "idle" /\ rest'[i].stage = "idle"
    BY <2>1 DEF BusyInv, IInv, TypeOK
  <2>3. Attended'
    BY <2>1, <2>2 DEF Attended, DrainedIsQuiet
  <2>4. \A i \in Inst : i > spawned' => i > spawned
    BY <2>1 DEF IInv, TypeOK, Inst
  <2>5. Working(task, rest)'
    BY <2>1, <2>4 DEF BusyInv, Busy, Working
  <2> QED
    BY <2>3, <2>5, BusyParts
<1>2. CASE Deactivate
  <2>1. /\ ~live' /\ inst' = 0 /\ UNCHANGED <<task, rest, grant, spawned, drained>>
    BY <1>2 DEF Deactivate, GrainGone, authVars, histVars
  <2>2. Attended'
    BY <2>1 DEF Attended, DrainedIsQuiet, Inst
  <2>3. Working(task, rest)'
    BY <2>1 DEF BusyInv, Busy, Working
  <2> QED
    BY <2>2, <2>3, BusyParts
<1>3. CASE Crash
  <2>1. /\ ~live' /\ \A i \in Inst : task'[i] = Idle /\ rest'[i] = NoRest
    BY <1>3 DEF Crash, GrainGone
  <2> QED
    BY <2>1 DEF BusyInv, Busy, DrainedIsQuiet, Idle, NoRest
<1> QED
  BY <1>1, <1>2, <1>3 DEF Lifecycle

\* A Grain with a log is one of the activations.
LEMMA OwnerRuns ==
    ASSUME IInv, live
    PROVE  inst \in Inst /\ inst # 0 /\ owner \in Creation /\ header \in Creation
BY ConstantsAssumption DEF IInv, PhaseInv, TypeOK, Inst

\* The same, of the next state.
LEMMA OwnerRunsNext ==
    ASSUME IInv', live', inst' = inst
    PROVE  inst \in Inst
BY ConstantsAssumption DEF IInv, PhaseInv, TypeOK, Inst

\* The steps of one task: a task that runs goes on or ends, and one that ended
\* is forgotten.
LEMMA BusyByTask ==
    ASSUME IInv, BusyInv, NEW i \in Inst, task[i].stage # "idle",
           task'[i].stage \in {"load", "append"} => task[i].stage \in {"load", "append"},
           \A j \in Inst : j # i => task'[j] = task[j],
           i = inst => task'[i].stage = "idle" \/ writing',
           i # inst => writing' = writing,
           writing' => writing,
           UNCHANGED <<rest, grant, spawned, inst, drained, live, owner, closing,
                       durable, mem, opening>>
    PROVE  BusyInv'
<1>1. Working(task, rest)'
  <2> SUFFICES ASSUME NEW j \in Inst
               PROVE  /\ \/ task'[j].stage \in {"load", "append"}
                         \/ rest[j].stage \in {"load", "check", "repair"}
                         => grant.instance = j /\ grant.creation \in Creation \ drained
                      /\ j > spawned => task'[j].stage = "idle" /\ rest[j].stage = "idle"
                      /\ task'[j].stage # "idle" => rest[j].stage = "idle"
    BY DEF Working
  <2>1. CASE j = i
    BY <2>1 DEF BusyInv, Busy
  <2>2. CASE j # i
    BY <2>2 DEF BusyInv, Busy
  <2> QED
    BY <2>1, <2>2
<1>2. ASSUME NEW j \in Inst, j = inst
      PROVE  /\ task'[j].stage # "idle" => writing'
             /\ rest'[j].stage # "idle" => opening'.stage = "restore"
  BY <1>2 DEF BusyInv
<1>3. DrainedIsQuiet'
  <2> SUFFICES ASSUME live, owner \in drained
               PROVE  /\ closing /\ ~writing' /\ durable = Len(mem)
                      /\ task'[inst].stage = "idle"
    BY DEF DrainedIsQuiet
  <2>1. /\ closing /\ ~writing /\ durable = Len(mem) /\ task[inst].stage = "idle"
    BY DEF BusyInv, DrainedIsQuiet
  <2>2. inst \in Inst
    BY OwnerRuns
  <2> QED
    BY <2>1, <2>2
<1> QED
  BY <1>1, <1>2, <1>3, BusyParts DEF Attended

\* The steps of one restore, likewise.
LEMMA BusyByRestore ==
    ASSUME IInv, BusyInv, NEW i \in Inst, rest[i].stage # "idle",
           rest'[i].stage \in {"load", "check", "repair"} =>
               rest[i].stage \in {"load", "check", "repair"},
           \A j \in Inst : j # i => rest'[j] = rest[j],
           \/ opening' = opening
           \/ i = inst /\ rest'[i].stage = "idle",
           UNCHANGED <<task, grant, spawned, inst, drained, writing, live, owner,
                       closing, durable, mem>>
    PROVE  BusyInv'
<1>1. Working(task, rest)'
  <2> SUFFICES ASSUME NEW j \in Inst
               PROVE  /\ \/ task[j].stage \in {"load", "append"}
                         \/ rest'[j].stage \in {"load", "check", "repair"}
                         => grant.instance = j /\ grant.creation \in Creation \ drained
                      /\ j > spawned => task[j].stage = "idle" /\ rest'[j].stage = "idle"
                      /\ task[j].stage # "idle" => rest'[j].stage = "idle"
    BY DEF Working
  <2>1. CASE j = i
    BY <2>1 DEF BusyInv, Busy
  <2>2. CASE j # i
    BY <2>2 DEF BusyInv, Busy
  <2> QED
    BY <2>1, <2>2
<1>2. ASSUME NEW j \in Inst, j = inst
      PROVE  /\ task'[j].stage # "idle" => writing'
             /\ rest'[j].stage # "idle" => opening'.stage = "restore"
  BY <1>2 DEF BusyInv
<1>3. DrainedIsQuiet'
  BY DEF BusyInv, DrainedIsQuiet
<1> QED
  BY <1>1, <1>2, <1>3, BusyParts DEF Attended

\* startWrite launches a task only for the owner of a log that is not drained,
\* when no other of its activation runs.
LEMMA BusyByStartWrite ==
    ASSUME IInv, NEW tasks \in [Inst -> Tasks], NEW busy \in BOOLEAN, NEW bad, NEW fl,
           NEW wt,
           StartWrite(tasks, busy, bad, fl, wt),
           inst \in Inst, inst' = inst, inst <= spawned, spawned' = spawned,
           mem' \in Logs, durable' \in Nat,
           \A i \in Inst :
               /\ \/ tasks[i].stage \in {"load", "append"}
                  \/ rest'[i].stage \in {"load", "check", "repair"}
                  => /\ grant'.instance = i
                     /\ grant'.creation \in Creation \ drained'
               /\ i > spawned => tasks[i].stage = "idle" /\ rest'[i].stage = "idle"
               /\ tasks[i].stage # "idle" => rest'[i].stage = "idle",
           tasks[inst].stage # "idle" => busy,
           rest'[inst].stage = "idle",
           owner' \in Creation, Holds(owner)',
           owner' \in drained' => closing' /\ ~busy /\ durable' = Len(mem')
    PROVE  BusyInv'
<1>l. Len(mem') \in Nat
  BY LenProperties DEF Logs
<1>r. \A i \in Inst : i = inst' => rest'[i].stage = "idle"
  OBVIOUS
<1>1. CASE task' = tasks /\ (writing' = busy \/ ~busy)
  <2>1. Working(task, rest)'
    BY <1>1 DEF Working
  <2>2. \A i \in Inst : i = inst' /\ task'[i].stage # "idle" => writing'
    BY <1>1
  <2>3. DrainedIsQuiet'
    <3> SUFFICES ASSUME owner' \in drained'
                 PROVE  /\ closing' /\ ~writing' /\ durable' = Len(mem')
                        /\ task'[inst'].stage = "idle"
      BY DEF DrainedIsQuiet
    <3>1. ~busy /\ closing' /\ durable' = Len(mem')
      OBVIOUS
    <3>2. ~(durable' < Len(mem'))
      BY <1>l, <3>1
    <3>3. writing' = busy
      BY <3>2 DEF StartWrite
    <3> QED
      BY <1>1, <3>1, <3>3
  <2> QED
    BY <1>r, <2>1, <2>2, <2>3, BusyParts DEF Attended
<1>2. CASE /\ ~busy /\ durable' < Len(mem') /\ writing' = TRUE
           /\ task' = [tasks EXCEPT ![inst] = NewTask(mem', header', durable', bad)]
  <2>1. owner' \notin drained'
    BY <1>l, <1>2
  <2>2. /\ task'[inst].stage \in {"load", "append"}
        /\ \A i \in Inst : i # inst => task'[i] = tasks[i]
    BY <1>2 DEF NewTask
  <2>3. grant'.instance = inst /\ grant'.creation = owner'
    BY DEF Holds
  <2>4. Working(task, rest)'
    <3> SUFFICES ASSUME NEW i \in Inst
                 PROVE  /\ \/ task'[i].stage \in {"load", "append"}
                           \/ rest'[i].stage \in {"load", "check", "repair"}
                           => /\ grant'.instance = i
                              /\ grant'.creation \in Creation \ drained'
                        /\ i > spawned' => task'[i].stage = "idle" /\ rest'[i].stage = "idle"
                        /\ task'[i].stage # "idle" => rest'[i].stage = "idle"
      BY DEF Working
    <3>1. CASE i = inst
      BY <2>1, <2>2, <2>3, <3>1 DEF IInv, TypeOK, Inst
    <3>2. CASE i # inst
      BY <2>2, <3>2
    <3> QED
      BY <3>1, <3>2
  <2>5. DrainedIsQuiet'
    BY <2>1 DEF DrainedIsQuiet
  <2> QED
    BY <1>2, <1>r, <2>4, <2>5, BusyParts DEF Attended
<1> QED
  BY <1>1, <1>2 DEF StartWrite

\* The requests that the owner serves from memory.
LEMMA BusyByRequest ==
    ASSUME IInv, HoldInv, BusyInv, NEW c \in Creation,
           \/ \E kinds \in Batches : Commit(c, kinds)
           \/ \E barrier \in 0 .. MaxLen : Flush(c, barrier)
           \/ Close(c),
           IInv'
    PROVE  BusyInv'
<1>1. /\ live /\ owner = c
      /\ UNCHANGED <<grant, inst, spawned, opening, rest, live, owner, header, durable>>
  <2>1. ASSUME NEW kinds \in Batches, Commit(c, kinds)
        PROVE  /\ live /\ owner = c
               /\ UNCHANGED <<grant, inst, spawned, opening, rest, live, owner, header, durable>>
    BY <2>1 DEF Commit, Authorized, authVars
  <2>2. ASSUME NEW barrier \in 0 .. MaxLen, Flush(c, barrier)
        PROVE  /\ live /\ owner = c
               /\ UNCHANGED <<grant, inst, spawned, opening, rest, live, owner, header, durable>>
    BY <2>2 DEF Flush, Authorized, authVars, ownerVars
  <2>3. CASE Close(c)
    BY <2>3 DEF Close, Authorized, authVars, ownerVars
  <2> QED
    BY <2>1, <2>2, <2>3
<1>2. /\ inst \in Inst /\ inst <= spawned /\ Holds(owner) /\ owner \in Creation
      /\ opening.stage = "none" /\ rest[inst].stage = "idle"
      /\ task[inst].stage # "idle" => writing
      /\ Len(mem) \in Nat /\ durable \in Nat /\ closeAt \in Nat
  <2>1. inst \in Inst
    BY <1>1, OwnerRuns
  <2>2. owner \in Creation
    BY <1>1, OwnerRuns
  <2>3. inst <= spawned /\ durable \in Nat /\ closeAt \in Nat
    BY ConstantsAssumption DEF IInv, TypeOK
  <2>4. Len(mem) \in Nat
    BY LogFacts DEF IInv
  <2>5. Holds(owner)
    BY <1>1 DEF HoldInv
  <2>6. opening.stage = "none"
    BY <1>1 DEF IInv, PhaseInv
  <2>7. rest[inst].stage = "idle"
    BY <2>1, <2>6 DEF BusyInv
  <2>8. task[inst].stage # "idle" => writing
    BY <2>1 DEF BusyInv
  <2> QED
    BY <2>1, <2>2, <2>3, <2>4, <2>5, <2>6, <2>7, <2>8
<1>3. ASSUME NEW fl, NEW wt, StartWrite(task, writing, failed, fl, wt),
             drained' = drained, owner \notin drained
      PROVE  BusyInv'
  <2>1. /\ mem' \in Logs /\ durable' \in Nat /\ Holds(owner)'
        /\ task \in [Inst -> Tasks] /\ writing \in BOOLEAN
    BY <1>1, <1>2 DEF IInv, TypeOK, Holds
  <2>2. \A i \in Inst :
               /\ \/ task[i].stage \in {"load", "append"}
                  \/ rest'[i].stage \in {"load", "check", "repair"}
                  => /\ grant'.instance = i
                     /\ grant'.creation \in Creation \ drained'
               /\ i > spawned => task[i].stage = "idle" /\ rest'[i].stage = "idle"
               /\ task[i].stage # "idle" => rest'[i].stage = "idle"
    BY <1>1, <1>3 DEF BusyInv, Busy
  <2> QED
    BY <1>1, <1>2, <1>3, <2>1, <2>2, BusyByStartWrite
<1>4. ASSUME NEW kinds \in Batches, Commit(c, kinds)
      PROVE  BusyInv'
  <2>1. owner \notin drained
    BY <1>1, <1>4 DEF Commit, AcceptsWrites, BusyInv, DrainedIsQuiet
  <2> QED
    BY <1>3, <1>4, <2>1 DEF Commit, histVars
<1>5. ASSUME NEW barrier \in 0 .. MaxLen, Flush(c, barrier)
      PROVE  BusyInv'
  <2>1. CASE durable >= barrier
    <3>1. UNCHANGED <<task, rest, grant, spawned, inst, drained, writing, live, owner,
                      closing, durable, mem, opening>>
      BY <1>5, <2>1 DEF Flush, ownerVars, writeVars, authVars, closeVars
    <3> QED
      BY <3>1, BusyFrame
  <2>2. CASE ~(durable >= barrier)
    <3>1. owner \notin drained
      BY <1>1, <1>2, <1>5, <2>2 DEF Flush, BusyInv, DrainedIsQuiet
    <3>2. drained' = drained /\ StartWrite(task, writing, failed, flushes \cup {barrier}, waiters)
      BY <1>5, <2>2 DEF Flush
    <3> QED
      BY <1>3, <3>1, <3>2
  <2> QED
    BY <2>1, <2>2
<1>6. CASE Close(c)
  <2> DEFINE barrier == IF closing THEN closeAt ELSE Len(mem)
  <2>1. barrier = Len(mem)
    BY <1>1 DEF IInv, SealedLog
  <2>2. CASE Quiescent(barrier)
    <3>1. /\ drained' = drained \cup {c} /\ closing'
          /\ UNCHANGED <<task, rest, grant, spawned, inst, writing, live, owner, durable,
                         mem, opening>>
      BY <1>6, <2>2 DEF Close, ownerVars, writeVars, authVars
    <3>2. /\ ~writing /\ durable = Len(mem) /\ task[inst].stage = "idle"
      BY <1>2, <2>1, <2>2 DEF Quiescent, IInv, LogInv
    <3>3. \A i \in Inst : ~Busy(i)
      BY <1>2, <3>2 DEF BusyInv, Busy, Holds
    <3>4. Working(task, rest)'
      BY <3>1, <3>3 DEF BusyInv, Busy, Working
    <3>5. Attended'
      BY <3>1, <3>2 DEF BusyInv, Attended, DrainedIsQuiet
    <3> QED
      BY <3>4, <3>5, BusyParts
  <2>3. CASE ~Quiescent(barrier)
    <3>1. drained' = drained /\ StartWrite(task, writing, failed, flushes, TRUE)
      BY <1>6, <2>3 DEF Close
    <3>2. owner \notin drained
      BY <1>1, <1>2, <2>1, <2>3 DEF Quiescent, BusyInv, DrainedIsQuiet
    <3> QED
      BY <1>3, <3>1, <3>2
  <2> QED
    BY <2>2, <2>3
<1> QED
  BY <1>4, <1>5, <1>6

\* The replies of the authority, and a Close without a log: nothing of this
\* activation runs, and nobody else may be bound.
LEMMA BusyByReply ==
    ASSUME IInv, HoldInv, BusyInv,
           ClaimAnswered \/ CloseEmptyAnswered \/ \E c \in Creation : CloseEmptyAgain(c)
    PROVE  BusyInv'
<1>1. UNCHANGED <<task, rest, spawned, inst, writing, live, mem, durable>>
  BY DEF ClaimAnswered, CloseEmptyAnswered, CloseEmptyAgain, ownerVars, writeVars
<1>2. ~live => \A i \in Inst : i = inst => task[i].stage = "idle"
  BY DEF BusyInv, IInv, PhaseInv
<1>3. CASE ClaimAnswered
  <2>1. opening.stage # "restore" /\ drained' = drained /\ ~live
    BY <1>3 DEF ClaimAnswered, histVars, IInv, PhaseInv
  <2>2. \A i \in Inst : Busy(i) => i # inst
    BY <1>2, <2>1 DEF BusyInv, Busy
  <2>3. \A i \in Inst : grant.instance = i /\ i # inst => grant' = grant
    BY <1>3 DEF ClaimAnswered, Claimed, MayClaim, Inst
  <2>4. Working(task, rest)'
    BY <1>1, <2>1, <2>2, <2>3 DEF BusyInv, Busy, Working
  <2>5. Attended'
    BY <1>1, <2>1, <1>2 DEF BusyInv, Attended, DrainedIsQuiet
  <2> QED
    BY <2>4, <2>5, BusyParts
<1>4. ASSUME NEW c \in Creation, opening.stage = "none", opening' = opening, ~live,
             \A i \in Inst : grant.instance = i /\ i # inst => grant.creation # c,
             \A i \in Inst : grant.instance = i /\ i # inst => grant' = grant,
             drained' = drained \cup {c}
      PROVE  BusyInv'
  <2>1. \A i \in Inst : Busy(i) => i # inst
    BY <1>2, <1>4 DEF BusyInv, Busy
  <2>2. Working(task, rest)'
    BY <1>1, <1>4, <2>1 DEF BusyInv, Busy, Working
  <2>3. Attended'
    BY <1>1, <1>2, <1>4 DEF BusyInv, Attended, DrainedIsQuiet
  <2> QED
    BY <2>2, <2>3, BusyParts
<1>5. ASSUME NEW c \in Creation, CloseEmptyAgain(c)
      PROVE  BusyInv'
  <2>1. /\ closing /\ owner = c /\ opening' = opening /\ ~live
        /\ grant' = grant /\ drained' = drained \cup {c}
    BY <1>5 DEF CloseEmptyAgain, authVars
  <2>2. opening.stage = "none" /\ grant.instance = inst
    BY <2>1 DEF IInv, PhaseInv, HoldInv, Holds
  <2> QED
    BY <1>4, <2>1, <2>2
<1>6. CASE CloseEmptyAnswered
  <2> DEFINE e == emptyClose
  <2>1. e \in Creation /\ grant' = Claimed(e, inst) /\ opening' = opening
    BY <1>6 DEF CloseEmptyAnswered, IInv, TypeOK, MaybeCreation
  <2>2. \A i \in Inst : grant.instance = i /\ i # inst => ~MayClaim(e, inst) /\ grant' = grant
    BY <2>1 DEF Claimed, MayClaim, Inst
  <2>3. CASE MayClaim(e, inst) /\ opening.stage = "none" /\ ~live
    <3>1. drained' = drained \cup {e}
      BY <1>6, <2>3 DEF CloseEmptyAnswered
    <3>2. \A i \in Inst : grant.instance = i /\ i # inst => FALSE
      BY <2>2, <2>3
    <3> HIDE DEF e
    <3> QED
      BY <1>4, <2>1, <2>3, <3>1, <3>2
  <2>4. CASE ~(MayClaim(e, inst) /\ opening.stage = "none" /\ ~live)
    <3>1. UNCHANGED <<drained, owner, closing>>
      BY <1>6, <2>4 DEF CloseEmptyAnswered
    <3>2. \A i \in Inst : Busy(i) => grant'.instance = i /\ grant'.creation = grant.creation
      BY <2>1 DEF Claimed, MayClaim, BusyInv, IInv, TypeOK, Inst
    <3>3. Working(task, rest)'
      BY <1>1, <3>1, <3>2 DEF BusyInv, Busy, Working
    <3>4. Attended'
      BY <1>1, <2>1, <3>1 DEF BusyInv, Attended, DrainedIsQuiet
    <3> QED
      BY <3>3, <3>4, BusyParts
  <2> QED
    BY <2>3, <2>4
<1> QED
  BY <1>3, <1>5, <1>6

\* An admitted recovery starts its restore: the holder works, and is not drained.
LEMMA BusyByRestores ==
    ASSUME IInv, GrantInv, HoldInv, BusyInv, AdmissionRestores
    PROVE  BusyInv'
<1>1. /\ inst \in Inst /\ inst <= spawned /\ ~live /\ ~closing
      /\ task[inst].stage = "idle"
  BY ConstantsAssumption DEF AdmissionRestores, IInv, PhaseInv, TypeOK, Inst, BusyInv
<1>2. grant.instance = inst /\ grant.creation \in Creation \ drained
  BY <1>1 DEF AdmissionRestores, IInv, PhaseInv, HoldInv, Holds, GrantInv
<1>3. /\ opening'.stage = "restore"
      /\ UNCHANGED <<task, grant, spawned, inst, drained, writing, live>>
      /\ \A j \in Inst : j # inst => rest'[j] = rest[j]
  BY DEF AdmissionRestores, authVars, ownerVars, writeVars, histVars, IInv, TypeOK
<1>4. Working(task, rest)'
  <2> SUFFICES ASSUME NEW j \in Inst
               PROVE  /\ \/ task[j].stage \in {"load", "append"}
                         \/ rest'[j].stage \in {"load", "check", "repair"}
                         => grant.instance = j /\ grant.creation \in Creation \ drained
                      /\ j > spawned => task[j].stage = "idle" /\ rest'[j].stage = "idle"
                      /\ task[j].stage # "idle" => rest'[j].stage = "idle"
    BY <1>3 DEF Working
  <2>1. CASE j = inst
    BY <1>1, <1>2, <2>1 DEF IInv, TypeOK, Inst
  <2>2. CASE j # inst
    BY <1>3, <2>2 DEF BusyInv, Busy
  <2> QED
    BY <2>1, <2>2
<1>5. Attended'
  BY <1>1, <1>3 DEF BusyInv, Attended, DrainedIsQuiet
<1> QED
  BY <1>4, <1>5, BusyParts

\* A log is installed when the restore of the holder is over, and its first
\* write starts.
LEMMA BusyByInstall ==
    ASSUME IInv, GrantInv, HoldInv, BusyInv, IInv', NEW c \in Creation,
           c = opening.creation, opening.stage \in {"granted", "restore"},
           live', owner' = c,
           StartWrite(task, writing, failed, flushes, waiters),
           UNCHANGED <<grant, inst, spawned, drained>>,
           \A j \in Inst : rest'[j] = NoRest \/ (j # inst /\ rest'[j] = rest[j])
                           \/ (opening.stage = "granted" /\ rest'[j] = rest[j])
    PROVE  BusyInv'
<1>1. /\ inst \in Inst /\ inst <= spawned /\ ~live /\ ~closing /\ ~writing
      /\ task[inst].stage = "idle"
  <2>1. inst # 0 /\ ~live /\ ~closing /\ ~writing
    BY DEF IInv, PhaseInv
  <2>2. inst \in Inst /\ inst <= spawned
    BY <2>1, ConstantsAssumption DEF IInv, TypeOK, Inst
  <2> QED
    BY <2>1, <2>2 DEF BusyInv
<1>2. grant.instance = inst /\ grant.creation = c /\ c \notin drained
  BY <1>1 DEF HoldInv, Holds, GrantInv
<1>3. /\ mem' \in Logs /\ durable' \in Nat /\ Holds(owner)'
      /\ task \in [Inst -> Tasks] /\ writing \in BOOLEAN
  BY <1>2 DEF IInv, TypeOK, Holds
<1>4. \A j \in Inst : rest'[j].stage \in {"idle", rest[j].stage}
  BY DEF NoRest
<1>5. rest'[inst].stage = "idle"
  BY <1>1 DEF NoRest, BusyInv
<1>6. \A j \in Inst :
         /\ \/ task[j].stage \in {"load", "append"}
            \/ rest'[j].stage \in {"load", "check", "repair"}
            => grant'.instance = j /\ grant'.creation \in Creation \ drained'
         /\ j > spawned => task[j].stage = "idle" /\ rest'[j].stage = "idle"
         /\ task[j].stage # "idle" => rest'[j].stage = "idle"
  BY <1>4 DEF BusyInv, Busy
<1> QED
  BY <1>1, <1>2, <1>3, <1>5, <1>6, BusyByStartWrite

\* A completed write leaves its activation without a task until it starts the
\* next one, and drains the log only when nothing is left to write.
LEMMA BusyByWriteSucceeds ==
    ASSUME IInv, HoldInv, BusyInv, IInv', NEW i \in Inst, WriteSucceeds(i)
    PROVE  BusyInv'
<1> DEFINE closed == closing /\ durable' >= Len(mem) /\ durable' >= closeAt
           tasks == [task EXCEPT ![i] = Idle]
<1>1. /\ writing /\ i = inst /\ task[i].stage # "idle"
      /\ UNCHANGED <<grant, inst, spawned, opening, rest, live, owner, closing, mem>>
      /\ drained' = IF closed /\ waiters THEN drained \cup {owner} ELSE drained
      /\ StartWrite(tasks, FALSE, FALSE, Unsatisfied(flushes, durable'), waiters /\ ~closed)
  BY DEF WriteSucceeds, TokenMatches, authVars, closeVars
<1>2. live /\ inst <= spawned /\ Holds(owner) /\ owner \in Creation /\ rest[i].stage = "idle"
  BY <1>1 DEF IInv, PhaseInv, TypeOK, HoldInv, BusyInv
<1>3. owner \notin drained
  BY <1>1, <1>2 DEF BusyInv, DrainedIsQuiet
<1>4. /\ mem' \in Logs /\ durable' \in Nat /\ tasks \in [Inst -> Tasks]
      /\ Len(mem') \in Nat /\ durable' <= Len(mem') /\ Holds(owner)'
  BY <1>1, <1>2, IdleTypes, LenProperties DEF IInv, TypeOK, LogInv, Holds, Logs
<1>5. owner' \in drained' => closing' /\ durable' = Len(mem')
  BY <1>1, <1>3, <1>4
<1>6. \A j \in Inst : tasks[j].stage = IF j = i THEN "idle" ELSE task[j].stage
  BY DEF IInv, TypeOK, Idle
<1>7. \A j \in Inst :
         /\ ~(tasks[j].stage \in {"load", "append"})
         /\ ~(rest'[j].stage \in {"load", "check", "repair"})
         /\ j > spawned => tasks[j].stage = "idle" /\ rest'[j].stage = "idle"
         /\ tasks[j].stage # "idle" => rest'[j].stage = "idle"
  BY <1>1, <1>2, <1>6 DEF BusyInv, Busy, Holds
<1> HIDE DEF tasks, closed
<1> QED
  BY <1>1, <1>2, <1>4, <1>5, <1>6, <1>7, BusyByStartWrite

\* Every step keeps storage work with the holder.
LEMMA BusyStep ==
    ASSUME IInv, GrantInv, HoldInv, BusyInv, Next, IInv'
    PROVE  BusyInv'
<1>1. CASE Authority
  BY <1>1, BusyByAuthority
<1>2. CASE Lifecycle
  BY <1>2, BusyByLifecycle
<1>3. ASSUME NEW c \in Creation,
             \/ Open(c) \/ CloseEmptyAsk(c) \/ CloseEmptyAgain(c)
             \/ \E kinds \in Batches : Commit(c, kinds)
             \/ \E barrier \in 0 .. MaxLen : Flush(c, barrier)
             \/ Close(c)
      PROVE  BusyInv'
  <2>1. CASE Open(c) \/ CloseEmptyAsk(c)
    <3>1. /\ UNCHANGED <<task, rest, grant, spawned, inst, drained, writing, live, owner,
                         closing, durable, mem>>
          /\ opening.stage # "restore" \/ opening' = opening
      BY <2>1 DEF Open, MayOpen, CloseEmptyAsk, authVars, ownerVars, writeVars,
         closeVars, histVars
    <3> QED
      BY <3>1, BusyFrame
  <2>2. CASE CloseEmptyAgain(c)
    BY <2>2, BusyByReply
  <2> QED
    BY <1>3, <2>1, <2>2, BusyByRequest
<1>4. CASE Replies
  <2>1. CASE AdmissionDenied
    <3>1. /\ UNCHANGED <<task, rest, grant, spawned, inst, drained, writing, live, owner,
                         closing, durable, mem>>
          /\ opening.stage # "restore"
      BY <2>1 DEF AdmissionDenied, authVars, ownerVars, writeVars, closeVars, histVars
    <3> QED
      BY <3>1, BusyFrame
  <2>2. ASSUME NEW seed \in Seeds, AdmissionCreates(seed)
        PROVE  BusyInv'
    <3> DEFINE c == opening.creation
    <3>1. c \in Creation /\ opening.stage = "granted"
      BY <2>2 DEF AdmissionCreates, IInv, PhaseInv
    <3>2. /\ live' /\ owner' = c
          /\ StartWrite(task, writing, failed, flushes, waiters)
          /\ UNCHANGED <<grant, inst, spawned, drained, rest>>
      BY <2>2 DEF AdmissionCreates, authVars
    <3>3. c = opening.creation
      OBVIOUS
    <3> HIDE DEF c
    <3> QED
      BY <3>1, <3>2, <3>3, BusyByInstall
  <2> QED
    BY <1>4, <2>1, <2>2, BusyByReply, BusyByRestores DEF Replies
<1>5. ASSUME NEW i \in Inst, Storage(i) \/ WriteFails(i) \/ WriteStale(i)
      PROVE  BusyInv'
  <2>1. /\ task[i].stage # "idle"
        /\ task'[i].stage \in {"load", "append"} => task[i].stage \in {"load", "append"}
        /\ \A j \in Inst : j # i => task'[j] = task[j]
    <3>1. CASE PersistLoad(i)
      BY <3>1 DEF PersistLoad, Reconciled, IInv, TypeOK
    <3>2. CASE PersistAppend(i) \/ PersistFails(i)
      BY <3>2 DEF PersistAppend, PersistFails, IInv, TypeOK, Tasks
    <3>3. CASE WriteFails(i) \/ WriteStale(i)
      BY <3>3 DEF WriteFails, WriteStale, Idle, IInv, TypeOK
    <3> QED
      BY <1>5, <3>1, <3>2, <3>3 DEF Storage
  <2>2. UNCHANGED <<rest, grant, spawned, inst, drained, live, owner, closing, durable,
                    mem, opening>>
    BY <1>5 DEF Storage, PersistLoad, PersistAppend, PersistFails, WriteFails,
       WriteStale, authVars, ownerVars, closeVars, histVars
  <2>3. CASE Storage(i) \/ WriteStale(i)
    <3>1. writing' = writing
      BY <2>3 DEF Storage, PersistLoad, PersistAppend, PersistFails, WriteStale, writeVars
    <3>2. i = inst => writing
      BY <2>1 DEF BusyInv
    <3> QED
      BY <2>1, <2>2, <3>1, <3>2, BusyByTask
  <2>4. CASE WriteFails(i)
    <3>1. i = inst /\ task'[i].stage = "idle" /\ ~writing'
      BY <2>4 DEF WriteFails, TokenMatches, Idle, IInv, TypeOK
    <3> QED
      BY <2>1, <2>2, <3>1, BusyByTask
  <2> QED
    BY <1>5, <2>3, <2>4
<1>6. ASSUME NEW i \in Inst,
             \/ RestoreLoad(i) \/ RestoreCheck(i) \/ RestoreRepair(i) \/ RestoreFails(i)
             \/ ResumeFails(i) \/ ResumeStale(i)
      PROVE  BusyInv'
  <2>1. /\ rest[i].stage # "idle"
        /\ rest'[i].stage \in {"load", "check", "repair"} =>
               rest[i].stage \in {"load", "check", "repair"}
        /\ \A j \in Inst : j # i => rest'[j] = rest[j]
    <3>1. CASE RestoreLoad(i) \/ RestoreCheck(i)
      BY <3>1 DEF RestoreLoad, RestoreCheck, IInv, TypeOK
    <3>2. CASE RestoreRepair(i) \/ RestoreFails(i)
      BY <3>2 DEF RestoreRepair, RestoreFails, IInv, TypeOK, Restores
    <3>3. CASE ResumeFails(i) \/ ResumeStale(i)
      BY <3>3 DEF ResumeFails, ResumeStale, NoRest, IInv, TypeOK
    <3> QED
      BY <1>6, <3>1, <3>2, <3>3
  <2>2. UNCHANGED <<task, grant, spawned, inst, drained, writing, live, owner, closing,
                    durable, mem>>
    BY <1>6 DEF RestoreLoad, RestoreCheck, RestoreRepair, RestoreFails, ResumeFails,
       ResumeStale, RestOnly, authVars, ownerVars, writeVars, closeVars, histVars
  <2>3. \/ opening' = opening
        \/ i = inst /\ rest'[i].stage = "idle"
    BY <1>6 DEF RestoreLoad, RestoreCheck, RestoreRepair, RestoreFails, ResumeFails,
       ResumeStale, RestOnly, OwnsRestore, NoRest, IInv, TypeOK
  <2> QED
    BY <2>1, <2>2, <2>3, BusyByRestore
<1>7. ASSUME NEW i \in Inst, ResumeFinishes(i)
      PROVE  BusyInv'
  <2> DEFINE c == opening.creation
  <2>1. c \in Creation /\ opening.stage = "restore" /\ i = inst
    BY <1>7 DEF ResumeFinishes, OwnsRestore, IInv, PhaseInv
  <2>2. /\ live' /\ owner' = c
        /\ StartWrite(task, writing, failed, flushes, waiters)
        /\ UNCHANGED <<grant, inst, spawned, drained>>
        /\ rest' = [rest EXCEPT ![i] = NoRest]
    BY <1>7 DEF ResumeFinishes, authVars
  <2>3. c = opening.creation
    OBVIOUS
  <2>4. \A j \in Inst : rest'[j] = NoRest \/ (j # inst /\ rest'[j] = rest[j])
    BY <2>1, <2>2 DEF IInv, TypeOK
  <2> HIDE DEF c
  <2> QED
    BY <2>1, <2>2, <2>3, <2>4, BusyByInstall
<1>8. ASSUME NEW i \in Inst, WriteSucceeds(i)
      PROVE  BusyInv'
  BY <1>8, BusyByWriteSucceeds
<1>9. CASE TailTorn
  <2>1. UNCHANGED <<task, rest, grant, spawned, inst, drained, writing, live, owner,
                    closing, durable, mem, opening>>
    BY <1>9 DEF TailTorn, authVars, ownerVars, writeVars, closeVars, histVars
  <2> QED
    BY <2>1, BusyFrame
<1> QED
  BY <1>1, <1>2, <1>3, <1>4, <1>5, <1>6, <1>7, <1>8, <1>9
  DEF Next, Requests, Completion, Restore

-----------------------------------------------------------------------------
(* Who wrote the header. *)

\* The tasks of a next state: those of this one, further on, and writes of the
\* log that is live then.
TasksGoOn ==
    \A i \in Inst : task'[i].stage # "idle" =>
        \/ task[i].stage # "idle" /\ task'[i].header = task[i].header
        \/ live' /\ task'[i].header = header'

\* What a storage call does to the task that makes it.
LEMMA StorageFacts ==
    ASSUME IInv, NEW i \in Inst, Storage(i)
    PROVE  /\ task[i].stage \in {"load", "append"}
           /\ task'[i].header = task[i].header /\ task'[i].log = task[i].log
           /\ ~PersistLoad(i) => task'[i].stage = "done"
           /\ \A j \in Inst : j # i => task'[j] = task[j]
<1>1. task[i] \in Tasks /\ task \in [Inst -> Tasks]
  BY DEF IInv, TypeOK
<1>2. CASE PersistLoad(i)
  <2>1. /\ Reconciled(task[i]).header = task[i].header
        /\ Reconciled(task[i]).log = task[i].log
    BY <1>1 DEF Reconciled, Tasks
  <2>2. task' = [task EXCEPT ![i] = Reconciled(task[i])]
    BY <1>2 DEF PersistLoad
  <2> QED
    BY <1>1, <1>2, <2>1, <2>2 DEF PersistLoad
<1>3. CASE PersistAppend(i) \/ PersistFails(i)
  <2>1. PICK lost \in BOOLEAN :
            task' = [task EXCEPT ![i].stage = "done", ![i].err = lost]
    BY <1>3 DEF PersistAppend, PersistFails
  <2>2. task' = [task EXCEPT ![i] = [task[i] EXCEPT !.stage = "done", !.err = lost]]
    BY <1>1, <2>1
  <2>3. /\ task'[i] = [task[i] EXCEPT !.stage = "done", !.err = lost]
        /\ \A j \in Inst : j # i => task'[j] = task[j]
    BY <1>1, <2>2
  <2> QED
    BY <1>1, <1>3, <2>3 DEF PersistAppend, PersistFails, Tasks
<1> QED
  BY <1>2, <1>3 DEF Storage

\* A write is started with the header of the live log.
LEMMA StartWriteTasks ==
    ASSUME NEW tasks \in [Inst -> Tasks], NEW busy, NEW bad, NEW fl, NEW wt,
           StartWrite(tasks, busy, bad, fl, wt), live',
           \A i \in Inst : tasks[i].stage # "idle" => tasks[i] = task[i]
    PROVE  TasksGoOn
<1>1. CASE task' = tasks
  BY <1>1 DEF TasksGoOn
<1>2. CASE task' = [tasks EXCEPT ![inst] = NewTask(mem', header', durable', bad)]
  BY <1>2 DEF TasksGoOn, NewTask
<1> QED
  BY <1>1, <1>2 DEF StartWrite

\* HeaderInv follows what was installed, stored and captured.
LEMMA HeaderKept ==
    ASSUME IInv, IInv', HeaderInv, TasksGoOn,
           \A c \in Creation : served[c] # 0 => served'[c] # 0,
           \/ disk' = disk
           \/ disk'.header # None /\ served[disk'.header] # 0,
           live' => (live /\ header' = header) \/ served'[header'] # 0
    PROVE  HeaderInv'
<1>1. /\ disk'.header # None => disk'.header \in Creation
      /\ live => header \in Creation
      /\ \A i \in Inst : task[i].stage # "idle" => task[i].header \in Creation
  BY DEF IInv, TypeOK, Disks, PhaseInv, TaskInv, TaskOK, MaybeCreation
<1>2. live' => served'[header'] # 0
  BY <1>1 DEF HeaderInv
<1>3. /\ disk'.header = None => disk'.rows = <<>>
      /\ disk'.header # None => served'[disk'.header] # 0
  BY <1>1 DEF HeaderInv
<1>4. \A i \in Inst : task'[i].stage # "idle" => served'[task'[i].header] # 0
  BY <1>1, <1>2 DEF HeaderInv, TasksGoOn
<1> QED
  BY <1>2, <1>3, <1>4 DEF HeaderInv

\* Every step leaves the stored header with a creation that was installed.
LEMMA HeaderStep ==
    ASSUME IInv, HeaderInv, Next, IInv'
    PROVE  HeaderInv'
<1>1. CASE Authority
  <2>1. UNCHANGED <<disk, served, live, header, task>>
    BY <1>1 DEF Authority, Reserve, Retire, Release, ownerVars, histVars
  <2> QED
    BY <2>1, HeaderKept DEF TasksGoOn
<1>2. CASE Lifecycle
  <2>1. /\ UNCHANGED <<disk, served>>
        /\ live' => live /\ header' = header
        /\ task' = task \/ \A i \in Inst : task'[i] = Idle
    BY <1>2 DEF Lifecycle, Activate, Deactivate, Crash, GrainGone, ownerVars, histVars
  <2>2. TasksGoOn
    BY <2>1 DEF TasksGoOn, Idle
  <2> QED
    BY <2>1, <2>2, HeaderKept
<1>3. ASSUME NEW c \in Creation, Open(c) \/ CloseEmptyAsk(c) \/ CloseEmptyAgain(c)
      PROVE  HeaderInv'
  <2>1. UNCHANGED <<disk, served, live, header, task>>
    BY <1>3 DEF Open, CloseEmptyAsk, CloseEmptyAgain, ownerVars, histVars
  <2> QED
    BY <2>1, HeaderKept DEF TasksGoOn
<1>4. ASSUME NEW c \in Creation,
             \/ \E kinds \in Batches : Commit(c, kinds)
             \/ \E barrier \in 0 .. MaxLen : Flush(c, barrier)
             \/ Close(c)
      PROVE  HeaderInv'
  <2>1. /\ live /\ UNCHANGED <<disk, served, live, header>>
        /\ \/ task' = task
           \/ \E busy, bad, fl, wt : StartWrite(task, busy, bad, fl, wt)
    <3>1. ASSUME NEW kinds \in Batches, Commit(c, kinds)
          PROVE  /\ live /\ UNCHANGED <<disk, served, live, header>>
                 /\ StartWrite(task, writing, failed, flushes, waiters)
      BY <3>1 DEF Commit, Authorized, histVars
    <3>2. ASSUME NEW barrier \in 0 .. MaxLen, Flush(c, barrier)
          PROVE  /\ live /\ UNCHANGED <<disk, served, live, header>>
                 /\ \/ task' = task
                    \/ \E busy, bad, fl, wt : StartWrite(task, busy, bad, fl, wt)
      BY <3>2 DEF Flush, Authorized, ownerVars
    <3>3. CASE Close(c)
      BY <3>3 DEF Close, Authorized, ownerVars
    <3> QED
      BY <1>4, <3>1, <3>2, <3>3
  <2>2. TasksGoOn
    BY <2>1, StartWriteTasks DEF TasksGoOn, IInv, TypeOK
  <2> QED
    BY <2>1, <2>2, HeaderKept
<1>5. CASE ClaimAnswered \/ AdmissionDenied \/ AdmissionRestores \/ CloseEmptyAnswered
  <2>1. UNCHANGED <<disk, served, live, header, task>>
    BY <1>5 DEF ClaimAnswered, AdmissionDenied, AdmissionRestores, CloseEmptyAnswered,
       ownerVars, histVars
  <2> QED
    BY <2>1, HeaderKept DEF TasksGoOn
<1>6. ASSUME NEW seed \in Seeds, AdmissionCreates(seed)
      PROVE  HeaderInv'
  <2>1. /\ opening.creation \in Creation /\ inst # 0 /\ disk' = disk
        /\ live' /\ header' = opening.creation
        /\ served' = [served EXCEPT ![opening.creation] = inst]
        /\ StartWrite(task, writing, failed, flushes, waiters)
    BY <1>6 DEF AdmissionCreates, IInv, PhaseInv
  <2>2. TasksGoOn
    BY <2>1, StartWriteTasks DEF IInv, TypeOK
  <2>3. served'[header'] # 0 /\ \A c \in Creation : served[c] # 0 => served'[c] # 0
    BY <2>1 DEF IInv, TypeOK
  <2> QED
    BY <2>1, <2>2, <2>3, HeaderKept
<1>7. ASSUME NEW i \in Inst, Storage(i) \/ Completion(i)
      PROVE  HeaderInv'
  <2>1. UNCHANGED <<served, live, header>>
    BY <1>7 DEF Storage, PersistLoad, PersistAppend, PersistFails, Completion,
       WriteSucceeds, WriteFails, WriteStale, ownerVars, histVars
  <2>2. TasksGoOn
    <3>1. CASE Storage(i)
      <4> SUFFICES ASSUME NEW j \in Inst, task'[j].stage # "idle"
                   PROVE  task[j].stage # "idle" /\ task'[j].header = task[j].header
        BY DEF TasksGoOn
      <4>1. CASE j = i
        BY <3>1, <4>1, StorageFacts
      <4>2. CASE j # i
        BY <3>1, <4>2, StorageFacts
      <4> QED
        BY <4>1, <4>2
    <3>3. CASE WriteFails(i) \/ WriteStale(i)
      <4>1. task' = [task EXCEPT ![i] = Idle] /\ task \in [Inst -> Tasks]
        BY <3>3 DEF WriteFails, WriteStale, IInv, TypeOK
      <4>2. \A j \in Inst : task'[j].stage = "idle" \/ task'[j] = task[j]
        BY <4>1 DEF Idle
      <4> QED
        BY <4>2 DEF TasksGoOn
    <3>4. CASE WriteSucceeds(i)
      <4> DEFINE tasks == [task EXCEPT ![i] = Idle]
      <4>1. PICK fl, wt : StartWrite(tasks, FALSE, FALSE, fl, wt)
        BY <3>4 DEF WriteSucceeds
      <4>2. live'
        BY <3>4, <2>1 DEF WriteSucceeds, TokenMatches, IInv, PhaseInv
      <4>3. /\ tasks \in [Inst -> Tasks]
            /\ \A j \in Inst : tasks[j].stage # "idle" => tasks[j] = task[j]
        BY IdleTypes DEF IInv, TypeOK, Idle
      <4> HIDE DEF tasks
      <4> QED
        BY <4>1, <4>2, <4>3, StartWriteTasks
    <3> QED
      BY <1>7, <3>1, <3>3, <3>4 DEF Completion
  <2>3. \/ disk' = disk
        \/ disk'.header # None /\ served[disk'.header] # 0
    <3>1. CASE PersistAppend(i)
      <4>1. task[i].header \in Creation /\ served[task[i].header] # 0
        BY <3>1 DEF PersistAppend, HeaderInv, IInv, TaskInv, TaskOK
      <4>2. disk'.header = task[i].header \/ (disk'.header = disk.header /\ disk.header # None)
        BY <3>1 DEF PersistAppend, Accepts, Continues, IInv, TypeOK, Disks
      <4> QED
        BY <4>1, <4>2, ConstantsAssumption DEF HeaderInv
    <3>2. CASE ~PersistAppend(i)
      BY <1>7, <3>2 DEF Storage, PersistLoad, PersistFails, Completion, WriteSucceeds,
         WriteFails, WriteStale
    <3> QED
      BY <3>1, <3>2
  <2> QED
    BY <2>1, <2>2, <2>3, HeaderKept
<1>8. ASSUME NEW i \in Inst, Restore(i), ~ResumeFinishes(i)
      PROVE  HeaderInv'
  <2>1. UNCHANGED <<served, live, header, task>>
    BY <1>8 DEF Restore, RestoreLoad, RestoreCheck, RestoreRepair, RestoreFails,
       ResumeFails, ResumeStale, RestOnly, ownerVars, histVars
  <2>2. disk' = disk \/ (disk'.header = disk.header /\ disk.header # None)
    BY <1>8 DEF Restore, RestoreLoad, RestoreCheck, RestoreRepair, RestoreFails,
       ResumeFails, ResumeStale, RestOnly, IInv, TypeOK, Disks, RestInv, RestOK
  <2> QED
    BY <2>1, <2>2, HeaderKept DEF TasksGoOn, HeaderInv
<1>9. ASSUME NEW i \in Inst, ResumeFinishes(i)
      PROVE  HeaderInv'
  <2>1. /\ opening.creation \in Creation /\ inst # 0 /\ disk' = disk
        /\ live' /\ header' = disk.header
        /\ served' = [served EXCEPT ![opening.creation] = inst]
        /\ StartWrite(task, writing, failed, flushes, waiters)
        /\ disk.header \in Creation
    BY <1>9 DEF ResumeFinishes, OwnsRestore, IInv, PhaseInv, RestInv, RestOK, TypeOK,
       MaybeCreation
  <2>2. TasksGoOn
    BY <2>1, StartWriteTasks DEF IInv, TypeOK
  <2>3. \A c \in Creation : served[c] # 0 => served'[c] # 0
    BY <2>1 DEF IInv, TypeOK
  <2>4. served'[header'] # 0
    BY <2>1, <2>3, ConstantsAssumption DEF HeaderInv
  <2> QED
    BY <2>1, <2>2, <2>3, <2>4, HeaderKept
<1>10. CASE TailTorn
  <2>1. /\ UNCHANGED <<served, live, header, task>>
        /\ disk'.header = disk.header /\ disk.header # None
    BY <1>10 DEF TailTorn, IInv, TypeOK, Disks, ownerVars, histVars
  <2> QED
    BY <2>1, HeaderKept DEF TasksGoOn, HeaderInv
<1> QED
  BY <1>1, <1>2, <1>3, <1>4, <1>5, <1>6, <1>7, <1>8, <1>9, <1>10
  DEF Next, Requests, Replies

-----------------------------------------------------------------------------
(* Storage and memory tell one history. *)

\* Two logs of the same length of which one continues the other are equal.
LEMMA PrefixOfSameLength ==
    ASSUME NEW s \in Logs, NEW t \in Logs, IsPrefix(s, t), Len(s) = Len(t)
    PROVE  s = t
<1>1. /\ Len(s) \in Nat
      /\ \A k \in 1 .. Len(s) : s[k] = t[k]
  BY PrefixPointwise, LenProperties DEF Logs
<1> QED
  BY <1>1, SeqEqual DEF Logs

\* There is one holder, so at most one activation works, and it is the owner if
\* there is one.
LEMMA OneWorker ==
    ASSUME BusyInv, HoldInv, NEW i \in Inst, Busy(i)
    PROVE  /\ \A j \in Inst : Busy(j) => j = i
           /\ live => i = inst
           /\ opening.stage = "restore" => i = inst
BY DEF BusyInv, HoldInv, Holds

\* Storage holds exactly the captured log once it was appended.
LEMMA AppendWrites ==
    ASSUME IInv, NEW i \in Inst, PersistAppend(i)
    PROVE  /\ disk'.rows = task[i].log
           /\ disk'.header = task[i].header
<1> DEFINE t == task[i]
<1>1. /\ t \in Tasks /\ t.log \in Logs /\ disk.rows \in Logs
      /\ Len(t.log) \in Nat /\ Len(disk.rows) \in Nat
  BY LogFacts DEF IInv, TypeOK
<1>2. /\ t.first = Len(disk.rows) /\ t.first <= Len(t.log)
      /\ IsPrefix(Take(t.log, t.first), disk.rows)
      /\ ~t.fresh => disk.header = t.header
  BY DEF PersistAppend, Accepts, Continues, IInv, TaskInv, TaskOK
<1>3. t.first \in 0 .. Len(t.log)
  BY <1>1, <1>2
<1>4. Take(t.log, t.first) \in Logs /\ Len(Take(t.log, t.first)) = t.first
  BY <1>1, <1>3, PrefixOfSubSeq DEF Take, Logs
<1>5. Take(t.log, t.first) = disk.rows
  BY <1>1, <1>2, <1>4, PrefixOfSameLength
<1>6. disk.rows \o SubSeq(t.log, t.first + 1, Len(t.log)) = t.log
  BY <1>1, <1>3, <1>5, SubSeqContinues DEF Take, Logs
<1>7. disk \in Disks
  BY DEF IInv, TypeOK
<1> QED
  BY <1>2, <1>6, <1>7 DEF PersistAppend, Disks

\* Steps that leave the log, its tasks and storage alone.
LEMMA StoreFrame ==
    ASSUME StoreInv,
           UNCHANGED <<disk, inst, live, header, mem, durable, writing, failed, task>>,
           opening'.stage = "restore" /\ rest'[inst].stage = "done" /\ ~rest'[inst].err =>
               rest'[inst].log = disk.rows
    PROVE  StoreInv'
BY DEF StoreInv, OneWriterHistory, AppendContinuesStorage, Continues

\* Without a log only the tasks that append matter, and a restore.
LEMMA StoreWithoutLog ==
    ASSUME ~live', ~writing', AppendContinuesStorage', opening'.stage # "restore"
    PROVE  StoreInv'
BY DEF StoreInv, OneWriterHistory

\* The steps of the authority, and those that start or end an activation.
LEMMA StoreByLifecycle ==
    ASSUME IInv, StoreInv, Authority \/ Lifecycle
    PROVE  StoreInv'
<1>1. CASE Authority
  <2>1. UNCHANGED <<disk, inst, live, header, mem, durable, writing, failed, task, rest,
                    opening>>
    BY <1>1 DEF Authority, Reserve, Retire, Release, ownerVars, writeVars
  <2> QED
    BY <2>1, StoreFrame DEF StoreInv
<1>2. CASE Activate
  <2>1. ~live' /\ ~writing' /\ opening'.stage # "restore" /\ UNCHANGED <<disk, task>>
    BY <1>2 DEF Activate, IInv, PhaseInv, ownerVars, writeVars
  <2> QED
    BY <2>1, StoreWithoutLog DEF StoreInv, AppendContinuesStorage, Continues
<1>3. CASE Deactivate \/ Crash
  <2>1. /\ ~live' /\ ~writing' /\ opening'.stage # "restore" /\ disk' = disk
        /\ task' = task \/ \A i \in Inst : task'[i] = Idle
    BY <1>3 DEF Deactivate, Crash, GrainGone, NotOpening
  <2> QED
    BY <2>1, StoreWithoutLog DEF StoreInv, AppendContinuesStorage, Continues, Idle
<1> QED
  BY <1>1, <1>2, <1>3 DEF Lifecycle

\* A storage call: what it appends is the log of the owner, or of nobody.
LEMMA StoreByStorage ==
    ASSUME IInv, HoldInv, BusyInv, HeaderInv, StoreInv, NEW i \in Inst, Storage(i)
    PROVE  StoreInv'
<1>1. /\ UNCHANGED <<inst, live, header, mem, durable, writing, failed, rest, opening>>
  BY DEF Storage, PersistLoad, PersistAppend, PersistFails, ownerVars, writeVars
<1>2. /\ Busy(i) /\ task'[i].log = task[i].log
      /\ \A j \in Inst : j # i => task'[j] = task[j]
      /\ rest[i].stage = "idle"
  BY StorageFacts DEF Busy, BusyInv
<1>3. ASSUME disk' = disk, task'[i].stage = "append" => Continues(task'[i]),
             task'[i].stage = "done" /\ ~task'[i].err => disk.rows = task'[i].log
      PROVE  StoreInv'
  <2>1. OneWriterHistory'
    BY <1>1, <1>3 DEF StoreInv, OneWriterHistory
  <2>2. AppendContinuesStorage'
    BY <1>2, <1>3 DEF StoreInv, AppendContinuesStorage, Continues
  <2>3. writing' => inst \in Inst
    BY <1>1 DEF IInv, WriterInv
  <2>4. writing' /\ task'[inst].stage = "done" /\ ~task'[inst].err =>
           disk.rows = task'[inst].log
    BY <1>1, <1>2, <1>3, <2>3 DEF StoreInv
  <2> QED
    BY <1>1, <1>3, <2>1, <2>2, <2>4 DEF StoreInv
<1>4. CASE PersistLoad(i)
  <2> DEFINE t == task[i]
  <2>1. /\ disk' = disk /\ task'[i] = Reconciled(t) /\ t \in Tasks /\ t.stage = "load"
        /\ t.log \in Logs /\ disk.rows \in Logs /\ Len(disk.rows) \in Nat
    BY <1>4, LogFacts DEF PersistLoad, IInv, TypeOK
  <2>2. t.fresh \/ t.first > 0
    BY <2>1 DEF IInv, TaskInv, TaskOK
  <2>3. CASE disk.header = None
    <3>1. Len(disk.rows) = 0
      BY <2>3 DEF HeaderInv
    <3>2. t.first = 0 => t.fresh
      BY <2>2, <2>1 DEF Tasks
    <3> QED
      BY <2>1, <2>3, <3>1, <3>2, <1>3 DEF Reconciled, Continues, Tasks
  <2>4. CASE disk.header # None
    <3>1. IsPrefix(disk.rows, t.log) /\ Len(disk.rows) = Len(t.log) => disk.rows = t.log
      BY <2>1, PrefixOfSameLength
    <3> QED
      BY <2>1, <2>4, <3>1, <1>3 DEF Reconciled, Continues, Tasks
  <2> QED
    BY <2>3, <2>4
<1>5. CASE PersistFails(i)
  <2>1. disk' = disk /\ task'[i].stage = "done" /\ task'[i].err
    BY <1>5 DEF PersistFails, IInv, TypeOK, Tasks
  <2> QED
    BY <2>1, <1>3
<1>6. CASE PersistAppend(i)
  <2>1. disk'.rows = task[i].log /\ task'[i].stage = "done"
    <3>1. ~PersistLoad(i)
      BY <1>6 DEF PersistAppend, PersistLoad
    <3> QED
      BY <1>6, <3>1, AppendWrites, StorageFacts
  <2>2. live => i = inst /\ writing /\ IsPrefix(task[i].log, mem)
    BY <1>2, OneWorker, StorageFacts DEF BusyInv, IInv, WriterInv
  <2>3. OneWriterHistory'
    BY <1>1, <2>1, <2>2 DEF OneWriterHistory
  <2>4. AppendContinuesStorage'
    <3> SUFFICES ASSUME NEW j \in Inst, task'[j].stage = "append" PROVE FALSE
      BY DEF AppendContinuesStorage
    <3>1. j # i
      BY <2>1
    <3>2. Busy(j)
      BY <1>2, <3>1 DEF Busy
    <3> QED
      BY <1>2, <3>1, <3>2, OneWorker
  <2>5. writing' => disk'.rows = task'[inst].log
    <3>1. writing => live
      BY DEF IInv, PhaseInv
    <3> QED
      BY <1>1, <1>2, <2>1, <2>2, <3>1
  <2>6. ~(opening'.stage = "restore" /\ rest'[inst].stage = "done")
    BY <1>1, <1>2, OneWorker
  <2> QED
    BY <1>1, <2>2, <2>3, <2>4, <2>5, <2>6 DEF StoreInv
<1> QED
  BY <1>4, <1>5, <1>6 DEF Storage

\* A write that startWrite launches without a comparison continues storage,
\* when what is durable is all that is stored.
LEMMA StoreByStartWrite ==
    ASSUME IInv, StoreInv, IInv', NEW tasks \in [Inst -> Tasks], NEW busy \in BOOLEAN,
           NEW bad \in BOOLEAN, NEW fl, NEW wt,
           StartWrite(tasks, busy, bad, fl, wt),
           disk' = disk, inst' = inst, live', opening'.stage = "none",
           OneWriterHistory',
           \A i \in Inst : tasks[i] = task[i] \/ tasks[i] = Idle,
           busy => writing /\ tasks[inst] = task[inst],
           ~busy /\ ~bad /\ durable' > 0 => durable' = Len(disk.rows)
    PROVE  StoreInv'
<1>1. \A i \in Inst : tasks[i].stage = "append" => Continues(tasks[i])
  BY DEF StoreInv, AppendContinuesStorage, Idle
<1>2. durable' > 0 => disk.header # None
  BY ConstantsAssumption DEF IInv, LogInv, PhaseInv
<1>3. durable' \in Nat
  BY DEF IInv, TypeOK
<1>4. CASE task' = tasks /\ (writing' = busy \/ ~writing')
                         /\ ((writing' = busy /\ failed' = bad) \/ failed')
  <2>1. AppendContinuesStorage'
    BY <1>1, <1>4 DEF AppendContinuesStorage, Continues
  <2>2. writing' /\ task'[inst].stage = "done" /\ ~task'[inst].err =>
            disk.rows = task'[inst].log
    BY <1>4 DEF StoreInv
  <2>3. ~writing' /\ ~failed' /\ durable' > 0 => durable' = Len(disk.rows)
    BY <1>4
  <2> QED
    BY <2>1, <2>2, <2>3 DEF StoreInv
<1>5. CASE /\ ~busy /\ writing' = TRUE /\ failed' = bad
           /\ task' = [tasks EXCEPT ![inst] = NewTask(mem', header', durable', bad)]
  <2> DEFINE t == NewTask(mem', header', durable', bad)
  <2>1. t.stage = "append" => Continues(t)
    BY <1>2, <1>3, <1>5 DEF NewTask, Continues
  <2>2. t.stage # "done" /\ inst \in Inst
    BY OwnerRunsNext DEF NewTask
  <2>3. task'[inst] = t /\ \A i \in Inst : i # inst => task'[i] = tasks[i]
    BY <1>5, <2>2
  <2>4. AppendContinuesStorage'
    BY <1>1, <2>1, <2>3 DEF AppendContinuesStorage, Continues
  <2> HIDE DEF t
  <2> QED
    BY <1>5, <2>2, <2>3, <2>4 DEF StoreInv
<1> QED
  BY <1>4, <1>5 DEF StartWrite

\* The requests that the owner serves from memory.
LEMMA StoreByRequest ==
    ASSUME IInv, HoldInv, BusyInv, StoreInv, NEW c \in Creation,
           \/ \E kinds \in Batches : Commit(c, kinds)
           \/ \E barrier \in 0 .. MaxLen : Flush(c, barrier)
           \/ Close(c),
           IInv'
    PROVE  StoreInv'
<1>0. task \in [Inst -> Tasks] /\ writing \in BOOLEAN /\ failed \in BOOLEAN
  BY DEF IInv, TypeOK
<1>1. ASSUME NEW kinds \in Batches, Commit(c, kinds)
      PROVE  StoreInv'
  <2>1. /\ live /\ UNCHANGED <<disk, inst, opening, live, header, durable, rest>>
        /\ mem' = mem \o Events(kinds, c)
        /\ StartWrite(task, writing, failed, flushes, waiters)
    BY <1>1 DEF Commit, Authorized
  <2>2. IsPrefix(mem, mem') /\ mem \in Logs /\ mem' \in Logs /\ disk.rows \in Logs
    <3>1. Events(kinds, c) \in Logs
      BY EventsType, ConstantsAssumption DEF Author
    <3>2. mem \in Logs /\ disk.rows \in Logs
      BY DEF IInv, TypeOK, Disks
    <3> QED
      BY <2>1, <3>1, <3>2, PrefixOfConcat DEF Logs
  <2>3. OneWriterHistory'
    BY <2>1, <2>2, PrefixTransitive DEF StoreInv, OneWriterHistory, Logs
  <2>4. opening'.stage = "none" /\ live'
    BY <2>1 DEF IInv, PhaseInv
  <2>5. ~writing /\ ~failed /\ durable' > 0 => durable' = Len(disk.rows)
    BY <2>1 DEF StoreInv
  <2> QED
    BY <1>0, <2>1, <2>3, <2>4, <2>5, StoreByStartWrite
<1>2. ASSUME UNCHANGED <<disk, inst, opening, ownerVars, rest>>, live,
             \/ UNCHANGED <<writeVars, task>>
             \/ \E fl, wt : StartWrite(task, writing, failed, fl, wt)
      PROVE  StoreInv'
  <2>1. CASE UNCHANGED <<writeVars, task>>
    BY <1>2, <2>1, StoreFrame DEF StoreInv, ownerVars, writeVars
  <2>2. ASSUME NEW fl, NEW wt, StartWrite(task, writing, failed, fl, wt)
        PROVE  StoreInv'
    <3>1. opening'.stage = "none" /\ live' /\ OneWriterHistory' /\ durable' = durable
      BY <1>2 DEF IInv, PhaseInv, StoreInv, OneWriterHistory, ownerVars
    <3>2. ~writing /\ ~failed /\ durable' > 0 => durable' = Len(disk.rows)
      BY <1>2, <3>1 DEF StoreInv
    <3> QED
      BY <1>0, <1>2, <2>2, <3>1, <3>2, StoreByStartWrite
  <2> QED
    BY <1>2, <2>1, <2>2
<1>3. ASSUME NEW barrier \in 0 .. MaxLen, Flush(c, barrier)
      PROVE  StoreInv'
  BY <1>2, <1>3 DEF Flush, Authorized
<1>4. CASE Close(c)
  BY <1>2, <1>4 DEF Close, Authorized
<1> QED
  BY <1>1, <1>3, <1>4

\* The first log of an activation disagrees with no storage: a fresh creation
\* wrote no header yet, and a restored log is what is stored.
LEMMA StoreByInstall ==
    ASSUME IInv, GrantInv, HoldInv, HeaderInv, StoreInv, IInv',
           \/ \E seed \in Seeds : AdmissionCreates(seed)
           \/ \E i \in Inst : ResumeFinishes(i)
    PROVE  StoreInv'
<1> DEFINE c == opening.creation
<1>1. ASSUME NEW seed \in Seeds, AdmissionCreates(seed)
      PROVE  StoreInv'
  <2>1. /\ live' /\ header' = c /\ durable' = 0 /\ opening' = NotOpening
        /\ UNCHANGED <<disk, inst>> /\ c \in Creation /\ Holds(c) /\ inst # 0 /\ ~live
        /\ StartWrite(task, writing, failed, flushes, waiters)
    BY <1>1 DEF AdmissionCreates, IInv, PhaseInv, HoldInv
  <2>2. served[c] = 0
    BY <2>1 DEF GrantInv, HoldInv, Holds
  <2>3. disk.header # c
    BY <2>1, <2>2, ConstantsAssumption DEF HeaderInv
  <2>4. OneWriterHistory'
    BY <2>1, <2>3 DEF OneWriterHistory
  <2>5. opening'.stage = "none" /\ ~writing
    BY <2>1 DEF NotOpening, IInv, PhaseInv
  <2> HIDE DEF c
  <2> QED
    BY <2>1, <2>4, <2>5, StoreByStartWrite DEF IInv, TypeOK
<1>2. ASSUME NEW i \in Inst, ResumeFinishes(i)
      PROVE  StoreInv'
  <2>1. /\ live' /\ header' = disk.header /\ mem' = EndSeed(rest[i].log, c)
        /\ durable' = Len(rest[i].log) /\ opening' = NotOpening
        /\ UNCHANGED <<disk, inst>> /\ c \in Creation /\ ~live /\ ~writing
        /\ StartWrite(task, writing, failed, flushes, waiters)
        /\ rest[i].log = disk.rows
    BY <1>2 DEF ResumeFinishes, OwnsRestore, IInv, PhaseInv, StoreInv
  <2>2. IsPrefix(disk.rows, mem')
    BY <2>1, EndSeedExtends DEF IInv, TypeOK, Disks, Author
  <2>3. OneWriterHistory'
    BY <2>1, <2>2 DEF OneWriterHistory
  <2>4. opening'.stage = "none"
    BY <2>1 DEF NotOpening
  <2>5. task \in [Inst -> Tasks] /\ writing \in BOOLEAN /\ failed \in BOOLEAN
    BY DEF IInv, TypeOK
  <2>6. durable' = Len(disk.rows)
    BY <2>1
  <2> HIDE DEF c
  <2> QED
    BY <2>1, <2>3, <2>4, <2>5, <2>6, StoreByStartWrite
<1> QED
  BY <1>1, <1>2

\* A completed write leaves storage with the captured log.
LEMMA StoreByCompletion ==
    ASSUME IInv, BusyInv, StoreInv, IInv', NEW i \in Inst, Completion(i)
    PROVE  StoreInv'
<1>1. CASE WriteSucceeds(i)
  <2> DEFINE tasks == [task EXCEPT ![i] = Idle]
  <2>1. /\ writing /\ i = inst /\ UNCHANGED <<disk, inst, live, opening, mem, header>>
        /\ durable' = Len(task[i].log) /\ task[i].stage = "done" /\ ~task[i].err
    BY <1>1 DEF WriteSucceeds, TokenMatches, Captured
  <2>2. PICK fl, wt : StartWrite(tasks, FALSE, FALSE, fl, wt)
    BY <1>1 DEF WriteSucceeds
  <2>3. live' /\ opening'.stage = "none" /\ OneWriterHistory'
    BY <2>1 DEF IInv, PhaseInv, StoreInv, OneWriterHistory
  <2>4. durable' = Len(disk.rows)
    BY <2>1 DEF StoreInv
  <2>5. tasks \in [Inst -> Tasks] /\ \A j \in Inst : tasks[j] = task[j] \/ tasks[j] = Idle
    BY IdleTypes DEF IInv, TypeOK
  <2> HIDE DEF tasks
  <2> QED
    BY <2>1, <2>2, <2>3, <2>4, <2>5, StoreByStartWrite
<1>2. CASE WriteFails(i) \/ WriteStale(i)
  <2>1. /\ UNCHANGED <<disk, inst, live, opening, mem, header, durable, rest>>
        /\ task' = [task EXCEPT ![i] = Idle] /\ task \in [Inst -> Tasks]
        /\ \/ ~writing' /\ failed'
           \/ writing' = writing /\ failed' = failed /\ (i # inst \/ ~writing)
    BY <1>2 DEF WriteFails, WriteStale, TokenMatches, ownerVars, writeVars, IInv, TypeOK
  <2>2. \A j \in Inst : task'[j] = IF j = i THEN Idle ELSE task[j]
    BY <2>1
  <2>3. AppendContinuesStorage'
    BY <2>1, <2>2 DEF StoreInv, AppendContinuesStorage, Continues, Idle
  <2>4. OneWriterHistory'
    BY <2>1 DEF StoreInv, OneWriterHistory
  <2>5. writing' /\ task'[inst].stage = "done" /\ ~task'[inst].err =>
            disk.rows = task'[inst].log
    BY <2>1, <2>2 DEF StoreInv, IInv, WriterInv
  <2> QED
    BY <2>1, <2>3, <2>4, <2>5 DEF StoreInv
<1> QED
  BY <1>1, <1>2 DEF Completion

\* A restore repairs storage only while nobody owns a log, and ends with what
\* is stored.
LEMMA StoreByRestore ==
    ASSUME IInv, HoldInv, BusyInv, StoreInv, NEW i \in Inst,
           \/ RestoreLoad(i) \/ RestoreCheck(i) \/ RestoreRepair(i) \/ RestoreFails(i)
           \/ ResumeFails(i) \/ ResumeStale(i)
    PROVE  StoreInv'
<1>1. UNCHANGED <<inst, live, header, mem, durable, writing, failed, task>>
  BY DEF RestoreLoad, RestoreCheck, RestoreRepair, RestoreFails, ResumeFails,
     ResumeStale, RestOnly, ownerVars, writeVars
<1>2. rest \in [Inst -> Restores] /\ rest[i] \in Restores
  BY DEF IInv, TypeOK
<1>3. ASSUME disk' = disk, opening' = opening, NEW r, rest' = [rest EXCEPT ![i] = r],
             opening.stage = "restore" /\ i = inst /\ r.stage = "done" /\ ~r.err =>
                 r.log = disk.rows
      PROVE  StoreInv'
  <2>1. rest'[i] = r /\ \A j \in Inst : j # i => rest'[j] = rest[j]
    BY <1>2, <1>3
  <2>2. opening.stage = "restore" => inst \in Inst
    BY ConstantsAssumption DEF IInv, PhaseInv, TypeOK, Inst
  <2>3. opening'.stage = "restore" /\ rest'[inst].stage = "done" /\ ~rest'[inst].err =>
            rest'[inst].log = disk.rows
    BY <1>3, <2>1, <2>2 DEF StoreInv
  <2> QED
    BY <1>1, <1>3, <2>3, StoreFrame
<1>4. CASE RestoreLoad(i)
  <2> DEFINE r == IF disk.header = None
                  THEN [NoRest EXCEPT !.stage = "done", !.err = TRUE]
                  ELSE [NoRest EXCEPT !.stage = "check", !.log = disk.rows,
                                      !.torn = disk.torn, !.cuts = disk.cuts]
  <2>1. disk' = disk /\ opening' = opening /\ rest' = [rest EXCEPT ![i] = r]
    BY <1>4 DEF RestoreLoad, RestOnly
  <2>2. ~(r.stage = "done" /\ ~r.err)
    BY DEF NoRest
  <2> HIDE DEF r
  <2> QED
    BY <1>3, <2>1, <2>2
<1>5. CASE RestoreCheck(i)
  <2> DEFINE r == [rest[i] EXCEPT !.stage =
                      IF ~SameRevision(rest[i]) THEN "load"
                      ELSE IF rest[i].torn \/ Closers(rest[i].log) # <<>>
                           THEN "repair" ELSE "done"]
  <2>1. disk' = disk /\ opening' = opening /\ rest' = [rest EXCEPT ![i] = r]
    BY <1>5, <1>2 DEF RestoreCheck, RestOnly
  <2>2. rest[i].log \in Logs /\ disk.rows \in Logs /\ IsPrefix(rest[i].log, disk.rows)
    BY <1>5, LogFacts DEF RestoreCheck, IInv, RestInv, RestOK
  <2>3. r.stage = "done" => Len(rest[i].log) = Len(disk.rows)
    BY <1>2 DEF Restores, SameRevision
  <2>4. r.log = rest[i].log
    BY <1>2 DEF Restores
  <2>5. r.stage = "done" => r.log = disk.rows
    BY <2>2, <2>3, <2>4, PrefixOfSameLength
  <2> HIDE DEF r
  <2> QED
    BY <1>3, <2>1, <2>5
<1>6. CASE RestoreFails(i)
  <2> DEFINE r == [rest[i] EXCEPT !.stage = "done", !.err = TRUE]
  <2>1. disk' = disk /\ opening' = opening /\ rest' = [rest EXCEPT ![i] = r]
    BY <1>6, <1>2 DEF RestoreFails, RestOnly
  <2>2. r.err
    BY <1>2 DEF Restores
  <2> HIDE DEF r
  <2> QED
    BY <1>3, <2>1, <2>2
<1>7. CASE ResumeStale(i)
  <2>1. /\ disk' = disk /\ opening' = opening /\ rest' = [rest EXCEPT ![i] = NoRest]
        /\ ~(opening.stage = "restore" /\ i = inst)
    BY <1>7 DEF ResumeStale, RestOnly, OwnsRestore
  <2> QED
    BY <1>3, <2>1
<1>8. CASE ResumeFails(i)
  <2>1. opening'.stage = "none" /\ disk' = disk
    BY <1>8 DEF ResumeFails, NotOpening
  <2> QED
    BY <1>1, <2>1, StoreFrame
<1>9. CASE RestoreRepair(i)
  <2>1. Busy(i) /\ task[i].stage = "idle"
    BY <1>9 DEF RestoreRepair, Busy, BusyInv
  <2>2. ~live
    <3>1. live => i = inst /\ opening.stage = "restore"
      BY <1>9, <2>1, OneWorker DEF RestoreRepair, BusyInv
    <3> QED
      BY <3>1 DEF IInv, PhaseInv
  <2>3. ~live' /\ ~writing' /\ opening' = opening
    BY <1>1, <1>9, <2>2 DEF RestoreRepair, RestOnly, IInv, PhaseInv
  <2>4. AppendContinuesStorage'
    <3>1. \A j \in Inst : task[j].stage # "append"
      BY <2>1, OneWorker DEF Busy
    <3> QED
      BY <1>1, <3>1 DEF AppendContinuesStorage
  <2>5. rest'[i].stage = "done" => rest'[i].err
    <3>1. PICK lost \in BOOLEAN :
              rest' = [rest EXCEPT ![i].stage = IF lost THEN "done" ELSE "load",
                                   ![i].err = lost]
      BY <1>9 DEF RestoreRepair
    <3>2. rest' = [rest EXCEPT ![i] =
                      [rest[i] EXCEPT !.stage = IF lost THEN "done" ELSE "load",
                                      !.err = lost]]
      BY <1>2, <3>1
    <3>3. rest'[i] = [rest[i] EXCEPT !.stage = IF lost THEN "done" ELSE "load",
                                     !.err = lost]
      BY <1>2, <3>2
    <3> QED
      BY <1>2, <3>3 DEF Restores
  <2>6. opening.stage = "restore" => i = inst
    BY <2>1, OneWorker
  <2> QED
    BY <1>1, <2>3, <2>4, <2>5, <2>6 DEF StoreInv, OneWriterHistory
<1> QED
  BY <1>4, <1>5, <1>6, <1>7, <1>8, <1>9

\* The steps of an opening that install no log.
LEMMA StoreByOpening ==
    ASSUME IInv, HoldInv, BusyInv, StoreInv,
           \/ \E c \in Creation : Open(c) \/ CloseEmptyAsk(c) \/ CloseEmptyAgain(c)
           \/ ClaimAnswered \/ AdmissionDenied \/ AdmissionRestores \/ CloseEmptyAnswered
    PROVE  StoreInv'
<1>1. UNCHANGED <<disk, inst, live, header, mem, durable, writing, failed, task>>
  BY DEF Open, CloseEmptyAsk, CloseEmptyAgain, ClaimAnswered, AdmissionDenied,
     AdmissionRestores, CloseEmptyAnswered, ownerVars, writeVars
<1>2. CASE AdmissionRestores
  <2>1. inst \in Inst
    BY <1>2, ConstantsAssumption DEF AdmissionRestores, IInv, PhaseInv, TypeOK, Inst
  <2>2. rest'[inst].stage = "load"
    BY <1>2, <2>1 DEF AdmissionRestores, NoRest, IInv, TypeOK
  <2> QED
    BY <1>1, <2>2, StoreFrame
<1>3. CASE ~AdmissionRestores
  <2>1. rest' = rest /\ (opening' = opening \/ opening'.stage # "restore")
    <3>1. CASE ClaimAnswered
      BY <3>1 DEF ClaimAnswered, IInv, TypeOK
    <3>2. CASE AdmissionDenied \/ CloseEmptyAnswered
      BY <3>2 DEF AdmissionDenied, CloseEmptyAnswered, NotOpening
    <3>3. ASSUME NEW c \in Creation, Open(c) \/ CloseEmptyAsk(c) \/ CloseEmptyAgain(c)
          PROVE  rest' = rest /\ (opening' = opening \/ opening'.stage # "restore")
      BY <3>3 DEF Open, CloseEmptyAsk, CloseEmptyAgain
    <3> QED
      BY <1>3, <3>1, <3>2, <3>3
  <2> QED
    BY <1>1, <2>1, StoreFrame DEF StoreInv
<1> QED
  BY <1>2, <1>3

\* A torn tail is behind everything that memory and storage agree on.
LEMMA StoreByTorn ==
    ASSUME IInv, StoreInv, TailTorn
    PROVE  StoreInv'
<1>1. /\ disk'.rows = disk.rows /\ disk'.header = disk.header
      /\ UNCHANGED <<inst, live, header, mem, durable, writing, failed, task, rest, opening>>
  BY DEF TailTorn, IInv, TypeOK, Disks, ownerVars, writeVars
<1>2. OneWriterHistory' /\ AppendContinuesStorage'
  BY <1>1 DEF StoreInv, OneWriterHistory, AppendContinuesStorage, Continues
<1> QED
  BY <1>1, <1>2 DEF StoreInv

\* Every step keeps storage and memory on one history.
LEMMA StoreStep ==
    ASSUME IInv, GrantInv, HoldInv, BusyInv, HeaderInv, StoreInv, Next, IInv'
    PROVE  StoreInv'
<1>1. CASE Authority \/ Lifecycle
  BY <1>1, StoreByLifecycle
<1>2. CASE Requests
  BY <1>2, StoreByRequest, StoreByOpening DEF Requests
<1>3. CASE Replies
  BY <1>3, StoreByOpening, StoreByInstall DEF Replies
<1>4. ASSUME NEW i \in Inst, Storage(i) \/ Completion(i) \/ Restore(i)
      PROVE  StoreInv'
  BY <1>4, StoreByStorage, StoreByCompletion, StoreByRestore, StoreByInstall DEF Restore
<1>5. CASE TailTorn
  BY <1>5, StoreByTorn
<1> QED
  BY <1>1, <1>2, <1>3, <1>4, <1>5 DEF Next

-----------------------------------------------------------------------------
(* A removal takes the torn tail alone. *)

\* Steps that leave what can be read and the restores about to repair alone.
LEMMA TailFrame ==
    ASSUME TailInv, disk'.rows = disk.rows,
           \A i \in Inst : rest'[i].stage = "repair" =>
               rest[i].stage = "repair" /\ rest'[i].log = rest[i].log
    PROVE  TailInv'
BY DEF TailInv

\* While one activation repairs nobody else works, so that what it read is all
\* that can be read when the deletion comes: another write in between would be
\* deleted with the tail.
LEMMA TailByStorage ==
    ASSUME HInv, NEW i \in Inst, PersistAppend(i) \/ RestoreRepair(i)
    PROVE  TailInv'
<1>1. HoldInv /\ BusyInv /\ Busy(i)
  BY DEF HInv, PersistAppend, RestoreRepair, Busy
<1>2. ASSUME NEW j \in Inst, j # i PROVE rest[j].stage # "repair"
  BY <1>1, <1>2, OneWorker DEF Busy
<1>3. CASE PersistAppend(i)
  <2>1. rest[i].stage = "idle" /\ rest' = rest
    BY <1>1, <1>3 DEF PersistAppend, BusyInv
  <2> QED
    BY <1>2, <2>1 DEF TailInv
<1>4. CASE RestoreRepair(i)
  <2>1. PICK lost \in BOOLEAN :
            rest' = [rest EXCEPT ![i].stage = IF lost THEN "done" ELSE "load",
                                 ![i].err = lost]
    BY <1>4 DEF RestoreRepair
  <2>2. rest \in [Inst -> Restores] /\ rest[i] \in Restores
    BY DEF HInv, IInv, TypeOK
  <2>3. /\ rest'[i] = [rest[i] EXCEPT !.stage = IF lost THEN "done" ELSE "load",
                                      !.err = lost]
        /\ \A j \in Inst : j # i => rest'[j] = rest[j]
    BY <2>1, <2>2
  <2>4. rest'[i].stage # "repair"
    BY <2>2, <2>3 DEF Restores
  <2> QED
    BY <1>2, <2>3, <2>4 DEF TailInv
<1> QED
  BY <1>3, <1>4

\* The check finds the marker where the rows that can be read end.
LEMMA TailByCheck ==
    ASSUME IInv, TailInv, NEW i \in Inst, RestoreCheck(i)
    PROVE  TailInv'
<1>1. /\ rest \in [Inst -> Restores] /\ rest[i] \in Restores
      /\ rest[i].log \in Logs /\ disk.rows \in Logs
      /\ IsPrefix(rest[i].log, disk.rows)
  BY LogFacts DEF IInv, TypeOK, RestInv, RestOK, RestoreCheck
<1> DEFINE stage == IF ~SameRevision(rest[i]) THEN "load"
                    ELSE IF rest[i].torn \/ Closers(rest[i].log) # <<>>
                         THEN "repair" ELSE "done"
<1>2. disk' = disk /\ rest' = [rest EXCEPT ![i].stage = stage]
  BY DEF RestoreCheck
<1>3. stage = "repair" => rest[i].log = disk.rows
  <2>1. stage = "repair" => Len(rest[i].log) = Len(disk.rows)
    BY DEF SameRevision
  <2> QED
    BY <1>1, <2>1, PrefixOfSameLength
<1> HIDE DEF stage
<1>4. /\ rest'[i].log = rest[i].log /\ rest'[i].stage = stage
      /\ \A j \in Inst : j # i => rest'[j] = rest[j]
  BY <1>1, <1>2 DEF Restores
<1> QED
  BY <1>2, <1>3, <1>4 DEF TailInv

\* No step puts a removal in front of rows that can be read.
LEMMA TailStep == HInv /\ [Next]_vars => TailInv'
<1> SUFFICES ASSUME HInv, [Next]_vars PROVE TailInv'
  OBVIOUS
<1>1. ASSUME NEW i \in Inst, PersistAppend(i) \/ RestoreRepair(i)
      PROVE  TailInv'
  BY <1>1, TailByStorage
<1>2. ASSUME NEW i \in Inst, RestoreCheck(i)
      PROVE  TailInv'
  BY <1>2, TailByCheck DEF HInv
<1>3. TailInv /\ rest \in [Inst -> Restores]
  BY DEF HInv, IInv, TypeOK
<1>4. CASE disk'.rows = disk.rows /\ rest' = rest
  BY <1>3, <1>4, TailFrame
<1>5. CASE Crash
  <2>1. disk' = disk /\ \A i \in Inst : rest'[i].stage = "idle"
    BY <1>5 DEF Crash, NoRest
  <2> QED
    BY <1>3, <2>1, TailFrame
<1>6. CASE AdmissionRestores
  <2>1. disk' = disk /\ rest' = [rest EXCEPT ![inst] = [NoRest EXCEPT !.stage = "load"]]
    BY <1>6 DEF AdmissionRestores
  <2>2. \A i \in Inst : rest'[i] = rest[i] \/ rest'[i].stage = "load"
    BY <1>3, <2>1 DEF NoRest
  <2> QED
    BY <1>3, <2>1, <2>2, TailFrame
<1>7. ASSUME NEW i \in Inst,
             \/ RestoreLoad(i) \/ RestoreFails(i)
             \/ ResumeFinishes(i) \/ ResumeFails(i) \/ ResumeStale(i)
      PROVE  TailInv'
  <2>1. disk' = disk
    BY <1>7 DEF RestoreLoad, RestoreFails, ResumeFinishes, ResumeFails, ResumeStale
  <2>2. /\ \A j \in Inst : j # i => rest'[j] = rest[j]
        /\ rest'[i].stage # "repair"
    <3>1. CASE RestoreLoad(i)
      BY <1>3, <3>1 DEF RestoreLoad, NoRest
    <3>2. CASE RestoreFails(i)
      BY <1>3, <3>2 DEF RestoreFails, Restores
    <3>3. CASE ResumeFinishes(i) \/ ResumeFails(i) \/ ResumeStale(i)
      <4>1. rest' = [rest EXCEPT ![i] = NoRest]
        BY <3>3 DEF ResumeFinishes, ResumeFails, ResumeStale
      <4> QED
        BY <1>3, <4>1 DEF NoRest
    <3> QED
      BY <1>7, <3>1, <3>2, <3>3
  <2> QED
    BY <1>3, <2>1, <2>2, TailFrame
<1>8. \/ disk'.rows = disk.rows /\ rest' = rest
      \/ Crash \/ AdmissionRestores
      \/ \E i \in Inst :
           \/ PersistAppend(i) \/ RestoreLoad(i) \/ RestoreCheck(i) \/ RestoreRepair(i)
           \/ RestoreFails(i) \/ ResumeFinishes(i) \/ ResumeFails(i) \/ ResumeStale(i)
  <2>1. CASE TailTorn
    BY <2>1 DEF TailTorn, HInv, IInv, TypeOK, Disks
  <2>2. CASE ~TailTorn
    BY <2>2 DEF Next, vars, Authority, Reserve, Retire, Release, Lifecycle, Activate,
       Deactivate, Requests, Open, Commit, Flush, Close, CloseEmptyAgain, CloseEmptyAsk,
       Replies, ClaimAnswered, AdmissionDenied, AdmissionCreates, CloseEmptyAnswered,
       Storage, PersistLoad, PersistFails, Completion, WriteSucceeds, WriteFails,
       WriteStale, Restore
  <2> QED
    BY <2>1, <2>2
<1> QED
  BY <1>1, <1>2, <1>4, <1>5, <1>6, <1>7, <1>8

-----------------------------------------------------------------------------
(* The invariant, and what it says of the runs' properties. *)

\* Nothing is granted, running or stored at the start.
LEMMA HistoryInit == Init => HInv
<1> SUFFICES ASSUME Init PROVE HInv
  OBVIOUS
<1>1. IInv
  BY InvariantInit
<1>2. GrantInv
  BY DEF Init, GrantInv, NoGrant
<1>3. HoldInv
  BY DEF Init, HoldInv, NotOpening
<1>4. BusyInv
  BY DEF Init, BusyInv, Busy, DrainedIsQuiet, Idle, NoRest
<1>5. HeaderInv
  BY DEF Init, HeaderInv, NoDisk, Idle
<1>6. StoreInv
  BY DEF Init, StoreInv, OneWriterHistory, AppendContinuesStorage, Idle, NotOpening
<1>7. TailInv
  BY DEF Init, TailInv, NoRest
<1> QED
  BY <1>1, <1>2, <1>3, <1>4, <1>5, <1>6, <1>7 DEF HInv

\* One case per part; each part rests on the others.
LEMMA HistoryStep == HInv /\ [Next]_vars => HInv'
<1> SUFFICES ASSUME HInv, [Next]_vars PROVE HInv'
  OBVIOUS
<1>1. IInv'
  BY InvariantStep DEF HInv
<1>t. TailInv'
  BY TailStep
<1>2. CASE Next
  BY <1>1, <1>2, <1>t, GrantStep, HoldStep, BusyStep, HeaderStep, StoreStep DEF HInv
<1>3. CASE UNCHANGED vars
  <2>1. UNCHANGED <<disk, grant, modes, inst, spawned, opening, live, owner, header, mem,
                    durable, writing, failed, closing, task, rest, drained, served>>
    BY <1>3 DEF vars, ownerVars, writeVars, closeVars, histVars
  <2>2. GrantInv' /\ HoldInv' /\ BusyInv'
    BY <2>1, GrantFrame, HoldFrame, BusyFrame DEF HInv
  <2>3. HeaderInv'
    BY <2>1 DEF HInv, HeaderInv
  <2>4. StoreInv'
    BY <2>1, StoreFrame DEF HInv, StoreInv
  <2> QED
    BY <1>1, <1>t, <2>2, <2>3, <2>4 DEF HInv
<1> QED
  BY <1>2, <1>3

\* Every reachable state satisfies the invariant.
THEOREM HistoryInvariance == Spec => []HInv
BY HistoryInit, HistoryStep, PTL DEF Spec

\* Its first part, what the Grain counts as durable is stored, holds in every
\* reachable state: by itself it is not inductive, because a repair deletes.
THEOREM Invariance == Spec => []IInv
<1>1. HInv => IInv
  BY DEF HInv
<1> QED
  BY <1>1, HistoryInvariance, PTL

\* Every variable of the Grain, its tasks and its storage keeps its type.
THEOREM TypeCorrect == Spec => []TypeOK
<1>1. IInv => TypeOK
  BY DEF IInv
<1> QED
  BY <1>1, Invariance, PTL

\* Grain.finishFlushes and Grain.finishClose only acknowledge what AppendBatch
\* or CommitRepair committed, and no later step of any activation, task or
\* crash takes it back.
THEOREM AcknowledgedIsDurable == Spec => []AckedIsDurable
<1>1. IInv => AckedIsDurable
  BY DEF IInv
<1> QED
  BY <1>1, Invariance, PTL

\* owner.durable is never ahead of storage, and storage below it agrees with
\* the log that the Grain serves.
THEOREM DurableIsStored == Spec => []DurablePrefixIsStored
<1>1. IInv => DurablePrefixIsStored
  BY DEF IInv, LogInv, DurablePrefixIsStored
<1> QED
  BY <1>1, Invariance, PTL

\* A Flush or Close is never parked without a write in flight to answer it.
THEOREM NoAbandonedWaiter == Spec => [](WaitersHaveWriter /\ FlushesArePending)
<1>1. IInv => WaitersHaveWriter /\ FlushesArePending
  BY DEF IInv
<1> QED
  BY <1>1, Invariance, PTL

\* The log that Close sealed does not change before the activation ends, and an
\* empty Close that was acknowledged stays empty (grain_close.go, grain_close_empty.go).
THEOREM ClosedLogIsSealed == Spec => []ClosedStaysClosed
<1>1. IInv => ClosedStaysClosed
  BY DEF IInv, PhaseInv, EmptyCloseIsFinal, ClosedStaysClosed
<1> QED
  BY <1>1, Invariance, PTL

\* What can be read of storage only grows, although CommitRepair deletes all
\* rows from a marker on that an earlier transaction returned: no readable row and
\* no session header is ever removed or rewritten, and a removal takes the torn
\* tail alone.
THEOREM StorageOnlyGrows == Spec => StorageAppendOnly
<1>1. HInv /\ [Next]_vars =>
        [ /\ IsPrefix(disk.rows, disk'.rows)
          /\ disk.header # None => disk'.header = disk.header ]_vars
  BY StorageStep DEF HInv, StorageGrows
<1> QED
  BY <1>1, HistoryInvariance, PTL DEF Spec, StorageAppendOnly

\* Storage, its writers and the owner's memory tell one history: an orphaned
\* task never adds what the owner lacks, AppendBatch finds its sequence numbers
\* free but behind a torn tail, and a drained log has no work left.
THEOREM StorageTellsOneHistory == Spec => []OneHistory
<1>1. HInv => OneHistory
  BY DEF HInv, StoreInv, BusyInv, OneHistory
<1> QED
  BY <1>1, HistoryInvariance, PTL

\* A creation that was installed is not installed again: its holder has a log or
\* is gone, and a restarted Grain has a number of its own.
LEMMA InstalledOnce ==
    ASSUME HInv, [Next]_vars, NEW c \in Creation, served[c] # 0
    PROVE  served'[c] = served[c]
<1>1. served \in [Creation -> Nat]
  BY DEF HInv, IInv, TypeOK
<1>2. ASSUME opening.stage \in {"granted", "restore"},
             served' = [served EXCEPT ![opening.creation] = inst]
      PROVE  served'[c] = served[c]
  <2>1. c # opening.creation
    BY <1>2 DEF HInv, IInv, PhaseInv, GrantInv, HoldInv, Holds
  <2> QED
    BY <1>1, <1>2, <2>1
<1>3. \/ served' = served
      \/ /\ opening.stage \in {"granted", "restore"}
         /\ served' = [served EXCEPT ![opening.creation] = inst]
  BY DEF Next, vars, TailTorn, Authority, Reserve, Retire, Release, Lifecycle,
     Activate, Deactivate, Crash, Requests, Open, Commit, Flush, Close,
     CloseEmptyAgain, CloseEmptyAsk, Replies, ClaimAnswered, AdmissionDenied,
     AdmissionCreates, AdmissionRestores, CloseEmptyAnswered, Storage,
     PersistLoad, PersistAppend, PersistFails, Completion, WriteSucceeds, WriteFails,
     WriteStale, Restore, RestoreLoad, RestoreCheck, RestoreRepair, RestoreFails,
     ResumeFinishes, ResumeFails, ResumeStale, OwnsRestore, RestOnly, histVars
<1> QED
  BY <1>2, <1>3

\* Neither a row that can be read, nor the stored header, nor the activation of a
\* creation is ever removed or replaced.
THEOREM WritersStayFixed == Spec => WritersAreFixed
<1>1. HInv /\ [Next]_vars =>
        [\A c \in Creation : served[c] # 0 => served'[c] = served[c]]_vars
  BY InstalledOnce
<1>2. Spec => OneActivationPerCreation
  BY <1>1, HistoryInvariance, PTL DEF Spec, OneActivationPerCreation
<1> QED
  BY <1>2, StorageOnlyGrows DEF WritersAreFixed

-----------------------------------------------------------------------------
(* The Grain, its tasks, storage and the authority implement DurableLog. *)

\* DurableLog means the same prefixes.
LEMMA DurablePrefixes ==
    \A s, t : /\ Durable!IsPrefix(s, t) <=> IsPrefix(s, t)
              /\ Durable!IsStrictPrefix(s, t) <=> IsPrefix(s, t) /\ s # t
BY DEF Durable!IsStrictPrefix, Durable!IsPrefix, IsPrefix

\* The history that clients see: the log of the owner whose creation wrote the
\* stored header or found none, what is stored otherwise.
LEMMA VisibleCases ==
    /\ live /\ disk.header \in {None, header} => Visible = mem
    /\ ~(live /\ disk.header \in {None, header}) => Visible = disk.rows
    /\ live' /\ disk'.header \in {None, header'} => Visible' = mem'
    /\ ~(live' /\ disk'.header \in {None, header'}) => Visible' = disk'.rows
BY DEF Visible

\* Steps that leave memory, storage and the acknowledged log alone.
LEMMA RefineStutter ==
    ASSUME UNCHANGED <<disk, live, header, mem, ackedLog>>
    PROVE  UNCHANGED Durable!vars
BY DEF Durable!vars, Visible

\* A Flush or Close acknowledges more of what is stored, or nothing new.
LEMMA RefineAcknowledge ==
    ASSUME IInv, UNCHANGED <<disk, live, header, mem>>,
           NEW acked \in Logs, IsPrefix(acked, disk.rows),
           ackedLog' \in {ackedLog, Longer(ackedLog, acked)}
    PROVE  [Durable!Next]_Durable!vars
<1>1. /\ ackedLog \in Logs /\ disk.rows \in Logs /\ IsPrefix(ackedLog, disk.rows)
      /\ Len(ackedLog) \in Nat /\ Len(acked) \in Nat
  BY LenProperties DEF IInv, TypeOK, Disks, AckedIsDurable, Logs
<1>2. CASE ackedLog' = ackedLog
  BY <1>2, RefineStutter
<1>3. CASE ackedLog' = acked /\ Len(acked) > Len(ackedLog)
  <2>1. IsPrefix(ackedLog, acked)
    BY <1>1, <1>3, PrefixesOrdered DEF Logs
  <2>2. IsStrictPrefix(ackedLog, ackedLog')
    BY <1>1, <1>3, <2>1 DEF IsStrictPrefix
  <2>3. Durable!IsStrictPrefix(ackedLog, ackedLog') /\ Durable!IsPrefix(ackedLog', disk.rows)
    BY <1>3, <2>2, DurablePrefixes DEF IsStrictPrefix
  <2>4. UNCHANGED <<Visible, disk.rows>>
    BY DEF Visible
  <2> QED
    BY <2>3, <2>4 DEF Durable!Next, Durable!Acknowledge
<1> QED
  BY <1>2, <1>3 DEF Longer

\* The end of an activation loses what was not stored, and nothing else.
LEMMA RefineLose ==
    ASSUME ~live', UNCHANGED <<disk, ackedLog>>
    PROVE  [Durable!Next]_Durable!vars
BY VisibleCases DEF Durable!Next, Durable!Lose

\* A longer log of the owner is a commit.
LEMMA RefineCommit ==
    ASSUME IsPrefix(Visible, Visible'), UNCHANGED <<disk, ackedLog>>
    PROVE  [Durable!Next]_Durable!vars
BY DurablePrefixes DEF Durable!Next, Durable!Commit, Durable!vars

\* Commit extends the log that the owner serves.
LEMMA RefineCommitStep ==
    ASSUME IInv, NEW c \in Creation, NEW kinds \in Batches, Commit(c, kinds)
    PROVE  [Durable!Next]_Durable!vars
<1>1. /\ UNCHANGED <<disk, live, header, ackedLog>> /\ live
      /\ mem' = mem \o Events(kinds, c)
  BY DEF Commit, Authorized, histVars
<1>2. mem \in Logs /\ Events(kinds, c) \in Logs /\ disk.rows \in Logs
  BY EventsType, ConstantsAssumption DEF Author, IInv, TypeOK, Disks
<1>3. IsPrefix(mem, mem') /\ IsPrefix(disk.rows, disk.rows)
  BY <1>1, <1>2, PrefixOfConcat, PrefixPointwise, LenProperties DEF Logs
<1>4. IsPrefix(Visible, Visible')
  BY <1>1, <1>3, VisibleCases
<1> QED
  BY <1>1, <1>4, RefineCommit

\* An installed log continues what is stored: the seed of a fresh creation
\* starts an empty history, a restored log is sealed.
LEMMA RefineInstall ==
    ASSUME HInv, HInv',
           \/ \E seed \in Seeds : AdmissionCreates(seed)
           \/ \E i \in Inst : ResumeFinishes(i)
    PROVE  [Durable!Next]_Durable!vars
<1> DEFINE c == opening.creation
<1>1. /\ ~live /\ live' /\ UNCHANGED <<disk, ackedLog>> /\ c \in Creation
      /\ disk.rows \in Logs /\ mem' \in Logs
  BY DEF HInv, IInv, PhaseInv, TypeOK, Disks, AdmissionCreates, ResumeFinishes, OwnsRestore
<1>2. Visible = disk.rows
  BY <1>1, VisibleCases
<1>3. IsPrefix(disk.rows, disk.rows)
  BY <1>1, PrefixPointwise, LenProperties DEF Logs
<1>4. ASSUME NEW seed \in Seeds, AdmissionCreates(seed)
      PROVE  IsPrefix(disk.rows, Visible')
  <2>1. CASE disk.header = None
    <3>1. disk.rows = <<>> /\ Visible' = mem'
      BY <1>1, <2>1, VisibleCases DEF HInv, HeaderInv
    <3> QED
      BY <1>1, <3>1, EmptyIsPrefix DEF Logs
  <2>2. CASE disk.header # None
    <3>1. header' = c /\ Holds(c) /\ inst # 0
      BY <1>4 DEF AdmissionCreates, HInv, HoldInv, IInv, PhaseInv
    <3>2. served[c] = 0
      BY <1>1, <3>1 DEF HInv, GrantInv, HoldInv, Holds
    <3>3. disk.header # c
      BY <2>2, <3>2 DEF HInv, HeaderInv
    <3> QED
      BY <1>1, <1>3, <2>2, <3>1, <3>3, VisibleCases
  <2> QED
    BY <2>1, <2>2
<1>5. ASSUME NEW i \in Inst, ResumeFinishes(i)
      PROVE  IsPrefix(disk.rows, Visible')
  <2>1. /\ header' = disk.header /\ mem' = EndSeed(rest[i].log, c)
        /\ rest[i].log = disk.rows
    BY <1>5 DEF ResumeFinishes, OwnsRestore, HInv, StoreInv
  <2>2. IsPrefix(disk.rows, mem')
    BY <1>1, <2>1, EndSeedExtends DEF Author
  <2> QED
    BY <1>1, <2>1, <2>2, VisibleCases
<1> QED
  BY <1>1, <1>2, <1>4, <1>5, RefineCommit

\* What a task of the owner stores was visible; what anybody stores without an
\* owner becomes visible.
LEMMA RefineStore ==
    ASSUME HInv, HInv', NEW i \in Inst, PersistAppend(i) \/ RestoreRepair(i)
    PROVE  [Durable!Next]_Durable!vars
<1>1. /\ UNCHANGED <<live, header, mem, ackedLog>> /\ Busy(i)
  BY DEF PersistAppend, RestoreRepair, RestOnly, ownerVars, histVars, Busy
<1>2. IsPrefix(disk.rows, disk'.rows)
  BY AppendStep, RestoreSteps DEF StorageGrows, HInv
<1>3. CASE ~live
  <2>1. Visible = disk.rows /\ Visible' = disk'.rows
    BY <1>1, <1>3, VisibleCases
  <2> QED
    BY <1>1, <1>2, <2>1, DurablePrefixes DEF Durable!Next, Durable!Repair, Durable!vars
<1>4. CASE live
  <2>1. i = inst
    BY <1>1, <1>4, OneWorker DEF HInv
  <2>2. PersistAppend(i)
    <3>1. RestoreRepair(i) => opening.stage = "restore"
      BY <2>1 DEF RestoreRepair, HInv, BusyInv
    <3> QED
      BY <1>4, <3>1 DEF HInv, IInv, PhaseInv
  <2>3. writing
    BY <2>1, <2>2 DEF PersistAppend, HInv, BusyInv
  <2>4. task[i].header = header /\ IsPrefix(task[i].log, mem)
    BY <2>1, <2>3 DEF HInv, IInv, WriterInv
  <2>5. disk'.rows = task[i].log /\ disk'.header = header
    BY <2>2, <2>4, AppendWrites DEF HInv
  <2>6. disk.header \in {None, header}
    BY <2>2, <2>4 DEF PersistAppend, Accepts, Continues, HInv, IInv, TaskInv, TaskOK
  <2>7. Visible = mem /\ Visible' = mem
    BY <1>1, <1>4, <2>5, <2>6, VisibleCases
  <2> QED
    BY <1>1, <1>2, <2>4, <2>5, <2>7, DurablePrefixes
    DEF Durable!Next, Durable!Persist, Durable!vars
<1> QED
  BY <1>3, <1>4

\* Every step is a step of DurableLog or leaves its variables alone.
LEMMA RefineStep == HInv /\ HInv' /\ [Next]_vars => [Durable!Next]_Durable!vars
<1> SUFFICES ASSUME HInv, HInv', [Next]_vars PROVE [Durable!Next]_Durable!vars
  OBVIOUS
<1>1. CASE \/ UNCHANGED vars \/ Authority \/ Activate
           \/ \E c \in Creation : Open(c) \/ CloseEmptyAsk(c) \/ CloseEmptyAgain(c)
           \/ ClaimAnswered \/ AdmissionDenied \/ AdmissionRestores \/ CloseEmptyAnswered
  <2>1. UNCHANGED <<disk, live, header, mem, ackedLog>>
    BY <1>1 DEF vars, Authority, Reserve, Retire, Release, Activate, Open, CloseEmptyAsk,
       CloseEmptyAgain, ClaimAnswered, AdmissionDenied, AdmissionRestores,
       CloseEmptyAnswered, ownerVars, histVars
  <2> QED
    BY <2>1, RefineStutter
<1>2. CASE Deactivate \/ Crash
  BY <1>2, RefineLose DEF Deactivate, Crash, GrainGone, histVars
<1>3. /\ mem \in Logs /\ disk.rows \in Logs /\ durable \in Nat /\ Len(mem) \in Nat
      /\ durable <= Len(mem) /\ IsPrefix(Take(mem, durable), disk.rows)
  BY LogFacts DEF HInv, IInv, TypeOK, LogInv
<1>4. Take(mem, durable) \in Logs
  BY <1>3, PrefixOfSubSeq DEF Take, Logs
<1>5. ASSUME NEW c \in Creation,
             \/ \E barrier \in 0 .. MaxLen : Flush(c, barrier)
             \/ Close(c)
      PROVE  [Durable!Next]_Durable!vars
  <2>1. /\ UNCHANGED <<disk, live, header, mem>>
        /\ ackedLog' \in {ackedLog, Longer(ackedLog, Take(mem, durable))}
    BY <1>5 DEF Flush, Close, ownerVars
  <2> QED
    BY <1>3, <1>4, <2>1, RefineAcknowledge DEF HInv
<1>6. ASSUME NEW c \in Creation, NEW kinds \in Batches, Commit(c, kinds)
      PROVE  [Durable!Next]_Durable!vars
  BY <1>6, RefineCommitStep DEF HInv
<1>7. CASE \E seed \in Seeds : AdmissionCreates(seed)
  BY <1>7, RefineInstall
<1>8. ASSUME NEW i \in Inst, WriteSucceeds(i)
      PROVE  [Durable!Next]_Durable!vars
  <2>1. /\ UNCHANGED <<disk, live, header, mem>>
        /\ ackedLog' \in {ackedLog, Longer(ackedLog, Take(mem, durable'))}
    BY <1>8 DEF WriteSucceeds
  <2>2. /\ durable' \in Nat /\ durable' <= Len(mem)
        /\ IsPrefix(Take(mem, durable'), disk.rows)
    BY <2>1 DEF HInv, IInv, TypeOK, LogInv
  <2>3. Take(mem, durable') \in Logs
    BY <1>3, <2>2, PrefixOfSubSeq DEF Take, Logs
  <2> QED
    BY <2>1, <2>2, <2>3, RefineAcknowledge DEF HInv
<1>9. ASSUME NEW i \in Inst, PersistAppend(i) \/ RestoreRepair(i) \/ ResumeFinishes(i)
      PROVE  [Durable!Next]_Durable!vars
  BY <1>9, RefineStore, RefineInstall
<1>11. CASE TailTorn
  <2>1. /\ UNCHANGED <<live, header, mem, ackedLog>>
        /\ disk'.rows = disk.rows /\ disk'.header = disk.header
    BY <1>11 DEF TailTorn, HInv, IInv, TypeOK, Disks, ownerVars, histVars
  <2> QED
    BY <2>1 DEF Durable!vars, Visible
<1>10. ASSUME NEW i \in Inst,
              \/ PersistLoad(i) \/ PersistFails(i) \/ WriteFails(i) \/ WriteStale(i)
              \/ RestoreLoad(i) \/ RestoreCheck(i) \/ RestoreFails(i)
              \/ ResumeFails(i) \/ ResumeStale(i)
       PROVE  [Durable!Next]_Durable!vars
  <2>1. UNCHANGED <<disk, live, header, mem, ackedLog>>
    BY <1>10 DEF PersistLoad, PersistFails, WriteFails, WriteStale, RestoreLoad,
       RestoreCheck, RestoreFails, ResumeFails, ResumeStale, RestOnly, ownerVars, histVars
  <2> QED
    BY <2>1, RefineStutter
<1> QED
  BY <1>1, <1>2, <1>5, <1>6, <1>7, <1>8, <1>9, <1>10, <1>11
  DEF Next, Lifecycle, Requests, Replies, Storage, Completion, Restore

\* The Grain with its write-behind storage keeps the promise of DurableLog: a
\* client loses only events that no Flush or Close acknowledged.
THEOREM GrainImplementsDurableLog == Spec => ImplementsDurableLog
<1>1. Init => Durable!Init
  BY DEF Init, NoDisk, Visible, Durable!Init
<1> QED
  BY <1>1, RefineStep, HistoryInvariance, PTL DEF Spec, ImplementsDurableLog, Durable!Spec

=============================================================================
