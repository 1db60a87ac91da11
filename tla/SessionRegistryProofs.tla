------------------------ MODULE SessionRegistryProofs ------------------------
(***************************************************************************)
(* Theorems about SessionRegistry: whatever creations compete for a        *)
(* SessionID, and however its activations, requests and answers are lost   *)
(* or delayed, one creation owns the Session in one activation, and an     *)
(* identity that is free has nothing left of its former owner.             *)
(*                                                                         *)
(* The invariant is in five parts: what the Registry's own records say of  *)
(* each other, what an opening in flight says of them, what the Session    *)
(* Grain may be, what the closes in flight promise, and what history       *)
(* remembers.                                                              *)
(***************************************************************************)
EXTENDS SessionRegistry, PrefixLemmas, FiniteSetTheorems

Heard(r) == r.at \in {"ok", "err"}

\* The reservation and the lifecycle record belong together.
RecordInv ==
    /\ grant.creation = NoCreation => grant = NoGrant
    /\ ~up => entry = NewEntry(NoCreation) /\ task = NoTask
    /\ up /\ grant = NoGrant =>
         /\ entry.creation = NoCreation \/ entry.result
         /\ ~entry.closing
    /\ up /\ grant # NoGrant => entry.creation = grant.creation /\ ~entry.result
    /\ up => (entry.settled <=> opening = NoOpening)
    /\ up => (entry.openers = {} <=> opening = NoOpening)
    /\ entry.running <=> task.stage # "none"
    /\ entry.running => entry.closing
    /\ task.stage \notin {"none", "settling"} => entry.settled
    /\ up => (entry.checkpoint <=> grant.retired)
    /\ entry.checkpoint => entry.closing /\ entry.settled
    /\ task.stage \in {"authorized", "stopped"} => entry.checkpoint

\* An initialization in flight is of the reservation, and where its Grain is.
OpeningInv ==
    /\ opening.at = "none" => opening = NoOpening
    /\ opening # NoOpening =>
         opening.creation = grant.creation /\ grant # NoGrant /\ ~grant.retired
    /\ opening # NoOpening => opening.mode \in Modes
    /\ up /\ opening # NoOpening => opening.mode = entry.input
    /\ grain.phase = "restoring" <=> opening.at = "restoring"
    /\ grain.phase = "admitting" <=> opening.at \in {"claim", "claimed", "refused"}
    /\ opening.at = "claimed" => grant.instance = grain.inst

\* A Grain that holds a log is the one the reservation was granted to.
GrainInv ==
    /\ grain.phase # "empty" => grain.inst # 0 /\ grant # NoGrant
    /\ OneOwner
    /\ task.stage = "stopped" => grain.phase = "empty"
    /\ entry.checkpoint /\ grain.phase = "open" => grain.closing /\ ~grain.dirty
    /\ grant # NoGrant /\ ~grant.retired /\ ((up /\ entry.header) \/ opening.at = "ok") =>
         \/ grant.instance \in hist.lost
         \/ grain.phase = "open" /\ grain.inst = grant.instance

\* What one business close in flight says of the Session it closes.
CloseFits(r) ==
    /\ r.creation \in hist.acked \cup {grant.creation}
    /\ ~Heard(r) => r.creation = grant.creation
    /\ opening # NoOpening \/ (up /\ ~entry.closing) => Heard(r) /\ r.creation # grant.creation
    /\ entry.checkpoint => r.at # "mail"
    /\ task.stage = "stopped" => Heard(r)
    /\ r.at = "drain" => grain.phase = "open" /\ grain.closing
    /\ r.at = "ok" /\ r.creation = grant.creation /\ grain.phase = "open" =>
         grain.closing /\ ~grain.dirty

\* The closes are sent, and taken, in the order of their attempts.
InOrder ==
    \A m, n \in DOMAIN closes : m < n =>
      /\ closes[m].at = "mail" => closes[n].at = "mail"
      /\ closes[m].attempt < closes[n].attempt

AwaitedIsLast ==
    task.stage = "business" =>
      /\ closes # <<>>
      /\ closes[Len(closes)].attempt = task.attempt
      /\ closes[Len(closes)].creation = grant.creation

\* The closes in flight, each with what it promises, the awaited one last.
CloseInv ==
    /\ \A n \in DOMAIN closes : CloseFits(closes[n])
    /\ InOrder
    /\ AwaitedIsLast

\* A creation that was acknowledged as closed, or opened, in the past.
HistoryInv ==
    /\ grant.creation \notin hist.acked
    /\ \A c \in Creation : hist.owners[c] # {} =>
         \/ c \in hist.acked
         \/ c = grant.creation /\ hist.owners[c] = {grant.instance}
    /\ \A c \in Creation : \A i, j \in hist.owners[c] : i = j

RegistryInv ==
    /\ TypeOK /\ RecordInv /\ OpeningInv /\ GrainInv /\ CloseInv /\ HistoryInv


-----------------------------------------------------------------------------
(* Types.                                                                  *)

GrantType == [creation : Creation \cup {NoCreation}, instance : 0 .. MaxInst, retired : BOOLEAN]
EntryType ==
  [creation : Creation \cup {NoCreation}, header : BOOLEAN, input : Modes \cup {"none"},
   openers : SUBSET Callers, settled : BOOLEAN, closing : BOOLEAN, checkpoint : BOOLEAN,
   closers : SUBSET Callers, running : BOOLEAN, result : BOOLEAN]
OpeningType ==
  [at : Unanswered \cup {"none", "mail", "ok", "err"},
   creation : Creation \cup {NoCreation}, mode : Modes \cup {"none"}]
CloseType ==
  [at : Unanswered \cup {"mail", "ok", "err"}, attempt : 1 .. MaxAttempts, creation : Creation]
TaskType ==
  [stage : {"none", "settling", "business", "authorized", "stopped", "failed"},
   attempt : 0 .. MaxAttempts]
GrainType ==
  [inst : 0 .. MaxInst, phase : {"empty", "admitting", "restoring", "open"},
   creation : Creation \cup {NoCreation}, closing : BOOLEAN, dirty : BOOLEAN]
CallType == [for : {"nothing", "open", "close"}, creation : Creation \cup {NoCreation}]
HistType ==
  [owners : [Creation -> SUBSET (1 .. MaxInst)], acked : SUBSET Creation,
   lost : SUBSET (1 .. MaxInst)]
SpentType == [inst : 0 .. MaxInst, faults : 0 .. MaxFaults]

Types ==
  /\ up \in BOOLEAN /\ grant \in GrantType /\ entry \in EntryType
  /\ opening \in OpeningType /\ closes \in Seq(CloseType) /\ task \in TaskType
  /\ grain \in GrainType /\ calls \in [Callers -> CallType]
  /\ hist \in HistType /\ spent \in SpentType

\* A record that holds a result holds no work.
ResultIsLast == entry.result => entry.input = "none" /\ ~entry.closing /\ ~entry.checkpoint

LEMMA TypeSplit == TypeOK <=> ResultIsLast /\ Types
BY DEF TypeOK, ResultIsLast, Types, GrantType, EntryType, OpeningType, CloseType, TaskType,
       GrainType, CallType, HistType, SpentType

LEMMA TypeSplitNext == TypeOK' <=> ResultIsLast' /\ Types'
BY DEF TypeOK, ResultIsLast, Types, GrantType, EntryType, OpeningType, CloseType, TaskType,
       GrainType, CallType, HistType, SpentType

LEMMA InitialTypes ==
  /\ NoGrant \in GrantType /\ NoOpening \in OpeningType /\ NoTask \in TaskType
  /\ NoGrain \in GrainType /\ NoCall \in CallType
  /\ \A c \in Creation \cup {NoCreation} : NewEntry(c) \in EntryType
<1>1. 0 \in 0 .. MaxInst /\ 0 \in 0 .. MaxAttempts BY RegistryAssumption
<1>2. QED BY <1>1 DEF NoGrant, NoOpening, NoTask, NoGrain, NoCall, NewEntry, GrantType, EntryType,
               OpeningType, TaskType, GrainType, CallType, Unanswered, Modes

LEMMA FaultTypes == ASSUME spent \in SpentType, Fault PROVE spent' \in SpentType
BY RegistryAssumption DEF SpentType, Fault

LEMMA AnsweredTypes ==
  ASSUME calls \in [Callers -> CallType], NEW who PROVE Answered(who) \in [Callers -> CallType]
BY InitialTypes DEF Answered

-----------------------------------------------------------------------------
(* Registration and opening.                                               *)

\* What a reservation for c finds: a free identity, or c's own reservation.
LEMMA ReservedEntry ==
  ASSUME RegistryInv, up, NEW c \in Creation, c \notin hist.acked, Reserve(c)
  PROVE  \/ /\ grant = NoGrant /\ opening = NoOpening /\ EntryOf(c) = NewEntry(c)
            /\ Reserved(c) = [creation |-> c, instance |-> 0, retired |-> FALSE]
         \/ /\ grant # NoGrant /\ grant.creation = c /\ ~grant.retired
            /\ EntryOf(c) = entry /\ Reserved(c) = grant
            /\ entry.creation = c /\ ~entry.result
<1>1. Types BY TypeSplit DEF RegistryInv
<1>2. CASE grant = NoGrant
  <2>1. opening = NoOpening BY <1>2 DEF RegistryInv, OpeningInv
  <2>2. entry.creation = NoCreation \/ entry.result BY <1>2 DEF RegistryInv, RecordInv
  <2>3. entry.creation # c BY <2>2, RegistryAssumption DEF Reserve
  <2>4. QED BY <1>2, <2>1, <2>3 DEF EntryOf, Reserved, NoGrant
<1>3. CASE grant # NoGrant
  <2>1. grant.creation = c /\ ~grant.retired BY <1>3 DEF Reserve, ReserveAllows
  <2>2. entry.creation = c /\ ~entry.result BY <1>3, <2>1 DEF RegistryInv, RecordInv
  <2>3. QED BY <1>3, <2>1, <2>2 DEF EntryOf, Reserved
<1>4. QED BY <1>2, <1>3

\* A creation that was never acknowledged takes the identity, and nothing of
\* the closes in flight is about it.
LEMMA ReserveKeeps ==
  ASSUME RegistryInv, up, ~entry.closing, NEW c \in Creation, c \notin hist.acked, Reserve(c),
         grant' = Reserved(c), ~entry'.closing, ~entry'.checkpoint, ~entry'.running,
         entry'.header => entry.header /\ EntryOf(c) = entry,
         opening' = opening \/ (opening = NoOpening /\ opening'.at = "mail"),
         UNCHANGED <<up, closes, task, grain, hist>>
  PROVE  /\ GrainInv' /\ CloseInv' /\ HistoryInv'
         /\ grant' \in GrantType /\ grant' # NoGrant /\ ~grant'.retired /\ grant'.creation = c
<1>1. Types /\ RecordInv /\ OpeningInv /\ GrainInv /\ CloseInv /\ HistoryInv
  BY TypeSplit DEF RegistryInv
<1>2. /\ c # NoCreation /\ NoCreation \notin Creation /\ NoCreation \notin hist.acked
  BY <1>1, RegistryAssumption DEF Types, HistType
<1>3. ~entry.running /\ task.stage = "none" /\ ~entry.checkpoint BY <1>1 DEF RecordInv
<1>4. /\ grant' \in GrantType /\ grant' # NoGrant /\ ~grant'.retired /\ grant'.creation = c
      /\ grant' = grant \/ (grant = NoGrant /\ opening = NoOpening /\ ~entry'.header)
  <2>1. CASE grant = NoGrant
    <3>1. 0 \in 0 .. MaxInst BY RegistryAssumption
    <3>2. EntryOf(c) = NewEntry(c) /\ opening = NoOpening
          /\ grant' = [creation |-> c, instance |-> 0, retired |-> FALSE]
      BY <2>1, <1>2, ReservedEntry DEF NoGrant
    <3>3. ~NewEntry(c).header BY DEF NewEntry
    <3>4. QED BY <1>2, <2>1, <3>1, <3>2, <3>3 DEF GrantType, NoGrant
  <2>2. CASE grant # NoGrant
    <3>1. grant' = grant /\ grant.creation = c /\ ~grant.retired BY <2>2, ReservedEntry
    <3>2. QED BY <1>1, <2>2, <3>1 DEF Types
  <2>3. QED BY <2>1, <2>2
<1>5. GrainInv'
  <2>1. CASE grant' = grant
    <3>1. /\ opening'.at = "ok" => opening.at = "ok"
          /\ opening'.creation = opening.creation \/ grain.phase # "restoring"
      BY <1>1 DEF OpeningInv, NoOpening
    <3>2. (up' /\ entry'.header => up /\ entry.header) OBVIOUS
    <3>3. QED BY <1>1, <1>3, <2>1, <3>1, <3>2 DEF GrainInv, OneOwner, Owner
  <2>2. CASE grant = NoGrant /\ opening = NoOpening /\ ~entry'.header
    <3>1. grain.phase = "empty" BY <1>1, <2>2 DEF GrainInv
    <3>2. opening.at # "ok" BY <2>2 DEF NoOpening
    <3>3. opening'.at # "ok" BY <3>2
    <3>4. QED BY <1>1, <1>3, <2>2, <3>1, <3>3 DEF GrainInv, OneOwner
  <2>3. QED BY <1>4, <2>1, <2>2
<1>6. CloseInv'
  <2>1. ASSUME NEW n \in DOMAIN closes PROVE CloseFits(closes[n])'
    <3>1. CloseFits(closes[n]) BY <1>1 DEF CloseInv
    <3>2. Heard(closes[n]) /\ closes[n].creation \in hist.acked
      BY <3>1, <1>1 DEF CloseFits
    <3>3. closes[n].creation # c BY <3>2
    <3>4. closes[n].at # "mail" /\ closes[n].at # "drain" BY <3>2 DEF Heard
    <3>5. QED BY <1>3, <1>4, <3>2, <3>3, <3>4 DEF CloseFits, Heard
  <2>2. InOrder' /\ AwaitedIsLast' BY <1>1, <1>3 DEF CloseInv, InOrder, AwaitedIsLast
  <2>3. QED BY <2>1, <2>2 DEF CloseInv
<1>7. HistoryInv'
  <2>1. ASSUME NEW d \in Creation, hist.owners[d] # {}
        PROVE  d \in hist.acked \/ (d = grant'.creation /\ hist.owners[d] = {grant'.instance})
    <3>1. d \in hist.acked \/ (d = grant.creation /\ hist.owners[d] = {grant.instance})
      BY <1>1, <2>1 DEF HistoryInv
    <3>2. grant = NoGrant => grant.creation # d BY <1>2 DEF NoGrant
    <3>3. QED BY <1>4, <3>1, <3>2
  <2>2. QED BY <1>1, <1>4, <2>1 DEF HistoryInv
<1>8. QED BY <1>4, <1>5, <1>6, <1>7

LEMMA RegisterKeeps ==
  ASSUME RegistryInv, NEW c \in Creation, NEW mode \in Modes, RegisterSession(c, mode)
  PROVE  RegistryInv'
<1>1. Types /\ ResultIsLast /\ RecordInv /\ OpeningInv BY TypeSplit DEF RegistryInv
<1>2. /\ up /\ c \notin hist.acked /\ ~entry.closing /\ Reserve(c) /\ EntryOf(c).input = "none"
      /\ grant' = Reserved(c) /\ entry' = [EntryOf(c) EXCEPT !.input = mode]
      /\ UNCHANGED <<up, opening, closes, task, grain, calls, hist, spent>>
  BY DEF RegisterSession
<1> DEFINE e == EntryOf(c)
<1>3. e \in EntryType /\ e.creation = c /\ ~e.closing /\ ~e.checkpoint /\ ~e.running /\ ~e.result
      /\ (e.header => entry.header /\ e = entry)
  <2>1. CASE grant = NoGrant
    <3>1. e = NewEntry(c) BY <1>2, <2>1, ReservedEntry
    <3>2. QED BY <3>1, InitialTypes DEF NewEntry
  <2>2. CASE grant # NoGrant
    <3>1. e = entry /\ entry.creation = c /\ ~entry.result BY <1>2, <2>2, ReservedEntry
    <3>2. QED BY <1>1, <1>2, <3>1 DEF Types, RecordInv
  <2>3. QED BY <2>1, <2>2
<1>4. /\ (e.settled <=> opening = NoOpening) /\ (e.openers = {} <=> opening = NoOpening)
  <2>1. CASE grant = NoGrant
    <3>1. e = NewEntry(c) /\ opening = NoOpening BY <1>2, <2>1, ReservedEntry
    <3>2. QED BY <3>1 DEF NewEntry
  <2>2. CASE grant # NoGrant
    <3>1. e = entry BY <1>2, <2>2, ReservedEntry
    <3>2. QED BY <1>1, <1>2, <3>1 DEF RecordInv
  <2>3. QED BY <2>1, <2>2
<1>5. opening = NoOpening
  <2>1. CASE grant = NoGrant BY <1>2, <2>1, ReservedEntry
  <2>2. CASE grant # NoGrant
    <3>1. e = entry BY <1>2, <2>2, ReservedEntry
    <3>2. entry.input = "none" BY <1>2, <3>1
    <3>3. QED BY <1>1, <1>2, <3>2 DEF OpeningInv, Modes
  <2>3. QED BY <2>1, <2>2
<1> HIDE DEF e
<1>6. /\ entry' \in EntryType /\ entry'.creation = c /\ ~entry'.closing /\ ~entry'.checkpoint
      /\ ~entry'.running /\ ~entry'.result /\ entry'.header = e.header
      /\ entry'.settled = e.settled /\ entry'.openers = e.openers
  <2>1. entry' = [e EXCEPT !.input = mode] BY <1>2 DEF e
  <2>2. QED BY <1>3, <2>1 DEF EntryType
<1>7. /\ GrainInv' /\ CloseInv' /\ HistoryInv'
      /\ grant' \in GrantType /\ grant' # NoGrant /\ ~grant'.retired /\ grant'.creation = c
  <2>1. entry'.header => entry.header /\ EntryOf(c) = entry BY <1>3, <1>6 DEF e
  <2>2. opening' = opening BY <1>2
  <2>3. QED BY <1>2, <1>6, <2>1, <2>2, ReserveKeeps
<1>8. TypeOK'
  <2>1. Types' BY <1>1, <1>2, <1>6, <1>7 DEF Types
  <2>2. ResultIsLast' BY <1>6 DEF ResultIsLast
  <2>3. QED BY <2>1, <2>2, TypeSplitNext
<1>9. RecordInv'
  <2>1. task.stage = "none" BY <1>1, <1>2 DEF RecordInv
  <2>2. grant'.creation # NoCreation BY <1>7, RegistryAssumption
  <2>3. QED BY <1>2, <1>4, <1>6, <1>7, <2>1, <2>2 DEF RecordInv
<1>10. OpeningInv'
  BY <1>1, <1>2, <1>5, <1>7 DEF OpeningInv, NoOpening
<1>11. QED BY <1>7, <1>8, <1>9, <1>10 DEF RegistryInv

\* An opening of a creation that was never acknowledged as closed.
LEMMA OpenKeeps ==
  ASSUME RegistryInv, NEW k \in Callers, NEW c \in Creation, NEW mode \in Modes,
         c \notin hist.acked, OpenSession(k, c, mode)
  PROVE  RegistryInv'
<1>1. Types /\ ResultIsLast /\ RecordInv /\ OpeningInv BY TypeSplit DEF RegistryInv
<1> DEFINE e0 == EntryOf(c)
           e == [e0 EXCEPT !.input = mode]
<1>2. /\ up /\ ~entry.closing /\ Reserve(c) /\ Matches(e0, mode) /\ grant' = Reserved(c)
      /\ IF e.openers = {} THEN RouteFails(e, k) \/ SendOpen(e, c, mode, k) ELSE JoinOpen(e, c, k)
      /\ UNCHANGED <<up, closes, task, grain, hist>>
  BY DEF OpenSession
<1>3. /\ e0 \in EntryType /\ e0.creation = c /\ ~e0.closing /\ ~e0.checkpoint /\ ~e0.running
      /\ ~e0.result /\ (e0.header => entry.header /\ e0 = entry)
  <2>1. CASE grant = NoGrant
    <3>1. e0 = NewEntry(c) BY <1>2, <2>1, ReservedEntry
    <3>2. QED BY <3>1, InitialTypes DEF NewEntry
  <2>2. CASE grant # NoGrant
    <3>1. e0 = entry /\ entry.creation = c /\ ~entry.result BY <1>2, <2>2, ReservedEntry
    <3>2. QED BY <1>1, <1>2, <3>1 DEF Types, RecordInv
  <2>3. QED BY <2>1, <2>2
<1>4. /\ (e0.settled <=> opening = NoOpening) /\ (e0.openers = {} <=> opening = NoOpening)
      /\ opening # NoOpening => opening.mode = mode
  <2>1. CASE grant = NoGrant
    <3>1. e0 = NewEntry(c) /\ opening = NoOpening BY <1>2, <2>1, ReservedEntry
    <3>2. QED BY <3>1 DEF NewEntry
  <2>2. CASE grant # NoGrant
    <3>1. e0 = entry BY <1>2, <2>2, ReservedEntry
    <3>2. opening # NoOpening => opening.mode \in Modes /\ opening.mode = entry.input
      BY <1>1, <1>2 DEF OpeningInv
    <3>3. entry.input \in {"none", mode} BY <1>2, <3>1 DEF Matches
    <3>4. opening # NoOpening => opening.mode = mode BY <3>2, <3>3 DEF Modes
    <3>5. QED BY <1>1, <1>2, <3>1, <3>4 DEF RecordInv
  <2>3. QED BY <2>1, <2>2
<1>5. /\ e \in EntryType /\ e.creation = c /\ e.input = mode /\ ~e.closing /\ ~e.checkpoint
      /\ ~e.running /\ ~e.result /\ e.header = e0.header /\ e.settled = e0.settled
      /\ e.openers = e0.openers
  <2> HIDE DEF e0
  <2>1. QED BY <1>3 DEF EntryType
<1> HIDE DEF e
<1>6. /\ entry' \in EntryType /\ entry'.creation = c /\ entry'.input = mode /\ ~entry'.closing
      /\ ~entry'.checkpoint /\ ~entry'.running /\ ~entry'.result /\ entry'.header = e.header
      /\ (entry'.settled <=> opening' = NoOpening) /\ (entry'.openers = {} <=> opening' = NoOpening)
      /\ calls' \in [Callers -> CallType] /\ spent' \in SpentType
      /\ \/ opening' = opening
         \/ /\ opening = NoOpening
            /\ opening' = [at |-> "mail", creation |-> c, mode |-> mode]
  <2>1. CASE e.openers = {} /\ RouteFails(e, k)
    <3>1. opening = NoOpening BY <1>4, <1>5, <2>1
    <3>2. entry' = [e EXCEPT !.openers = {}] /\ UNCHANGED <<opening, calls>> /\ Fault
      BY <2>1 DEF RouteFails
    <3>3. spent' \in SpentType BY <1>1, <3>2, FaultTypes DEF Types
    <3>4. QED BY <1>1, <1>4, <1>5, <3>1, <3>2, <3>3 DEF EntryType, Types
  <2>2. CASE e.openers = {} /\ SendOpen(e, c, mode, k)
    <3>1. opening = NoOpening BY <1>4, <1>5, <2>2
    <3>2. /\ entry' = [e EXCEPT !.openers = {k}, !.settled = FALSE]
          /\ opening' = [at |-> "mail", creation |-> c, mode |-> mode]
          /\ calls' = [calls EXCEPT ![k] = [for |-> "open", creation |-> c]] /\ spent' = spent
      BY <2>2 DEF SendOpen
    <3>3. opening' # NoOpening BY <3>2 DEF NoOpening
    <3>4. calls' \in [Callers -> CallType] BY <1>1, <3>2 DEF Types, CallType
    <3>5. QED BY <1>1, <1>5, <3>1, <3>2, <3>3, <3>4 DEF EntryType, Types
  <2>3. CASE e.openers # {} /\ JoinOpen(e, c, k)
    <3>1. opening # NoOpening BY <1>4, <1>5, <2>3
    <3>2. /\ entry' = [e EXCEPT !.openers = @ \cup {k}]
          /\ calls' = [calls EXCEPT ![k] = [for |-> "open", creation |-> c]]
          /\ UNCHANGED <<opening, spent>>
      BY <2>3 DEF JoinOpen
    <3>3. calls' \in [Callers -> CallType] BY <1>1, <3>2 DEF Types, CallType
    <3>4. QED BY <1>1, <1>4, <1>5, <2>3, <3>1, <3>2, <3>3 DEF EntryType, Types
  <2>4. QED BY <1>2, <2>1, <2>2, <2>3
<1>7. /\ GrainInv' /\ CloseInv' /\ HistoryInv'
      /\ grant' \in GrantType /\ grant' # NoGrant /\ ~grant'.retired /\ grant'.creation = c
  <2>1. entry'.header => entry.header /\ EntryOf(c) = entry BY <1>3, <1>5, <1>6
  <2>2. opening' = opening \/ (opening = NoOpening /\ opening'.at = "mail") BY <1>6
  <2>3. QED BY <1>2, <1>6, <2>1, <2>2, ReserveKeeps
<1>8. TypeOK'
  <2>1. opening' \in OpeningType
    <3>1. CASE opening' = opening BY <1>1, <3>1 DEF Types
    <3>2. CASE opening' = [at |-> "mail", creation |-> c, mode |-> mode] BY <3>2 DEF OpeningType
    <3>3. QED BY <1>6, <3>1, <3>2
  <2>2. Types' BY <1>1, <1>2, <1>6, <1>7, <2>1 DEF Types
  <2>3. ResultIsLast' BY <1>6 DEF ResultIsLast
  <2>4. QED BY <2>2, <2>3, TypeSplitNext
<1>9. RecordInv'
  <2>1. task.stage = "none" BY <1>1, <1>2 DEF RecordInv
  <2>2. grant'.creation # NoCreation BY <1>7, RegistryAssumption
  <2>3. QED BY <1>2, <1>6, <1>7, <2>1, <2>2 DEF RecordInv
<1>10. OpeningInv'
  <2>1. CASE opening' = opening /\ opening = NoOpening
    BY <1>1, <1>2, <1>7, <2>1 DEF OpeningInv, NoOpening
  <2>2. CASE opening' = opening /\ opening # NoOpening
    <3>1. opening.creation = grant.creation /\ grant # NoGrant BY <1>1, <2>2 DEF OpeningInv
    <3>2. grant' = grant BY <1>2, <3>1, ReservedEntry
    <3>3. QED BY <1>1, <1>2, <1>4, <1>6, <1>7, <2>2, <3>1, <3>2 DEF OpeningInv
  <2>3. CASE opening = NoOpening /\ opening' = [at |-> "mail", creation |-> c, mode |-> mode]
    BY <1>1, <1>2, <1>6, <1>7, <2>3 DEF OpeningInv, NoOpening
  <2>4. QED BY <1>6, <2>1, <2>2, <2>3
<1>11. QED BY <1>7, <1>8, <1>9, <1>10 DEF RegistryInv

LEMMA StartKeeps ==
  ASSUME RegistryInv, NEW k \in Callers, NEW c \in Creation, StartSession(k, c)
  PROVE  RegistryInv'
<1>1. grant.creation = c /\ entry.input # "none" /\ OpenSession(k, c, entry.input)
  BY DEF StartSession, Check
<1>2. c \notin hist.acked BY <1>1 DEF RegistryInv, HistoryInv
<1>3. entry.input \in Modes BY <1>1, TypeSplit DEF RegistryInv, Types, EntryType
<1>4. QED BY <1>1, <1>2, <1>3, OpenKeeps


-----------------------------------------------------------------------------
(* Answers to an opening, and the closure.                                 *)

LEMMA OpenReturnsKeeps == ASSUME RegistryInv, OpenReturns PROVE RegistryInv'
<1>1. Types /\ ResultIsLast /\ RecordInv /\ OpeningInv /\ GrainInv /\ CloseInv /\ HistoryInv
  BY TypeSplit DEF RegistryInv
<1> DEFINE h == entry.header \/ (opening.at = "ok" /\ opening.creation = entry.creation)
<1>2. /\ up /\ opening.at \in {"ok", "err"} /\ opening' = NoOpening
      /\ entry' = [entry EXCEPT !.header = h, !.openers = {}, !.settled = TRUE]
      /\ calls' = Answered(entry.openers)
      /\ UNCHANGED <<up, grant, closes, task, grain, hist, spent>>
  BY DEF OpenReturns
<1>3. h \in BOOLEAN BY <1>1 DEF Types, EntryType
<1>4. h => entry.header \/ opening.at = "ok" OBVIOUS
<1> HIDE DEF h
<1>5. /\ entry' \in EntryType /\ entry'.header = h /\ entry'.openers = {} /\ entry'.settled
      /\ entry'.creation = entry.creation /\ entry'.input = entry.input
      /\ entry'.closing = entry.closing /\ entry'.checkpoint = entry.checkpoint
      /\ entry'.running = entry.running /\ entry'.result = entry.result
  BY <1>1, <1>2, <1>3 DEF Types, EntryType
<1>6. TypeOK'
  <2>1. calls' \in [Callers -> CallType] BY <1>1, <1>2, AnsweredTypes DEF Types
  <2>2. Types' BY <1>1, <1>2, <1>5, <2>1, InitialTypes DEF Types
  <2>3. ResultIsLast' BY <1>1, <1>5 DEF ResultIsLast
  <2>4. QED BY <2>2, <2>3, TypeSplitNext
<1>7. RecordInv' BY <1>1, <1>2, <1>5 DEF RecordInv
<1>8. OpeningInv' BY <1>1, <1>2 DEF OpeningInv, NoOpening
<1>9. GrainInv'
  <2>1. grain.phase # "restoring" BY <1>1, <1>2 DEF OpeningInv
  <2>2. opening'.at # "ok" BY <1>2 DEF NoOpening
  <2>3. QED BY <1>1, <1>2, <1>4, <1>5, <2>1, <2>2 DEF GrainInv, OneOwner, Owner
<1>10. CloseInv'
  <2>1. ASSUME NEW n \in DOMAIN closes PROVE CloseFits(closes[n])'
    <3>1. CloseFits(closes[n]) BY <1>1 DEF CloseInv
    <3>2. QED BY <1>2, <1>5, <3>1 DEF CloseFits, Heard
  <2>2. QED BY <1>1, <1>2, <2>1 DEF CloseInv, InOrder, AwaitedIsLast
<1>11. HistoryInv' BY <1>1, <1>2 DEF HistoryInv
<1>12. QED BY <1>6, <1>7, <1>8, <1>9, <1>10, <1>11 DEF RegistryInv

\* A record that is closing and whose initialization settled: the closure is
\* refused, resumed after a checkpoint, or sends the next business close.
LEMMA RunClosureKeeps ==
  ASSUME RegistryInv, up, grant # NoGrant, entry.settled, task.stage \in {"none", "settling"},
         NEW e \in EntryType, e.closing, ~e.running,
         e.creation = entry.creation, e.header = entry.header, e.input = entry.input,
         e.openers = entry.openers, e.settled = entry.settled,
         e.checkpoint = entry.checkpoint, e.result = entry.result,
         NEW callsNow \in [Callers -> CallType], RunClosure(e, callsNow),
         UNCHANGED <<up, grant, opening, grain, hist>>
  PROVE  RegistryInv'
<1>1. Types /\ ResultIsLast /\ RecordInv /\ OpeningInv /\ GrainInv /\ CloseInv /\ HistoryInv
  BY TypeSplit DEF RegistryInv
<1>2. /\ opening = NoOpening /\ entry.creation = grant.creation /\ ~entry.result
      /\ grant.creation \in Creation
  BY <1>1 DEF RecordInv, Types, GrantType
<1>3. closes \in Seq(CloseType) /\ Len(closes) \in Nat /\ DOMAIN closes = 1 .. Len(closes)
  BY <1>1, LenProperties DEF Types
<1>4. /\ entry' \in EntryType /\ task' \in TaskType /\ spent' \in SpentType
      /\ calls' \in [Callers -> CallType]
      /\ entry'.creation = e.creation /\ entry'.header = e.header /\ entry'.input = e.input
      /\ entry'.openers = e.openers /\ entry'.settled = e.settled /\ entry'.closing
      /\ entry'.checkpoint = e.checkpoint /\ entry'.result = e.result
      /\ \/ task' = NoTask /\ ~entry'.running /\ closes' = closes
         \/ task'.stage = "authorized" /\ entry'.running /\ e.checkpoint /\ closes' = closes
         \/ /\ task' = [stage |-> "business", attempt |-> Attempt] /\ entry'.running
            /\ ~e.checkpoint /\ Attempt <= MaxAttempts
            /\ closes' = Append(closes, [at |-> "mail", attempt |-> Attempt, creation |-> e.creation])
  <2>1. CASE /\ Fault /\ entry' = CloseFails(e) /\ task' = NoTask /\ UNCHANGED closes
             /\ calls' = [q \in Callers |-> IF q \in e.closers THEN NoCall ELSE callsNow[q]]
    <3>1. calls' \in [Callers -> CallType] BY <2>1, InitialTypes
    <3>2. spent' \in SpentType BY <1>1, <2>1, FaultTypes DEF Types
    <3>3. entry' \in EntryType BY <2>1 DEF CloseFails, EntryType
    <3>4. QED BY <2>1, <3>1, <3>2, <3>3, InitialTypes DEF CloseFails, EntryType
  <2>2. CASE /\ e.checkpoint /\ entry' = Running(e) /\ task' = [stage |-> "authorized", attempt |-> 0]
             /\ calls' = callsNow /\ UNCHANGED <<closes, spent>>
    <3>1. task' \in TaskType BY <2>2, RegistryAssumption DEF TaskType
    <3>2. QED BY <1>1, <2>2, <3>1 DEF Running, EntryType, Types
  <2>3. CASE /\ ~e.checkpoint /\ Attempt <= MaxAttempts /\ entry' = Running(e)
             /\ task' = [stage |-> "business", attempt |-> Attempt]
             /\ closes' = Append(closes, [at |-> "mail", attempt |-> Attempt, creation |-> e.creation])
             /\ calls' = callsNow /\ UNCHANGED spent
    <3>1. Attempt \in Nat
      <4>1. CASE closes = <<>> BY <4>1 DEF Attempt
      <4>2. CASE closes # <<>>
        <5>1. closes[Len(closes)] \in CloseType BY <1>3, <4>2, ElementOfSeq, EmptySeq
        <5>2. QED BY <4>2, <5>1, RegistryAssumption DEF Attempt, Last, CloseType
      <4>3. QED BY <4>1, <4>2
    <3>2. task' \in TaskType BY <2>3, <3>1, RegistryAssumption DEF TaskType
    <3>3. QED BY <1>1, <2>3, <3>2 DEF Running, EntryType, Types
  <2>4. QED BY <2>1, <2>2, <2>3 DEF RunClosure
<1>5. /\ closes' \in Seq(CloseType)
      /\ \A n \in DOMAIN closes : n \in DOMAIN closes' /\ closes'[n] = closes[n]
      /\ \/ closes' = closes
         \/ /\ Len(closes') = Len(closes) + 1 /\ DOMAIN closes' = 1 .. Len(closes) + 1
            /\ closes'[Len(closes) + 1] = [at |-> "mail", attempt |-> Attempt, creation |-> e.creation]
            /\ task' = [stage |-> "business", attempt |-> Attempt] /\ ~e.checkpoint
  <2>1. CASE closes' = closes BY <1>3, <2>1
  <2>2. CASE /\ task' = [stage |-> "business", attempt |-> Attempt] /\ ~e.checkpoint
             /\ Attempt <= MaxAttempts
             /\ closes' = Append(closes, [at |-> "mail", attempt |-> Attempt, creation |-> e.creation])
    <3>1. Attempt \in 1 .. MaxAttempts
      <4>1. CASE closes = <<>> BY <2>2, <4>1, RegistryAssumption DEF Attempt
      <4>2. CASE closes # <<>>
        <5>1. closes[Len(closes)] \in CloseType BY <1>3, <4>2, ElementOfSeq, EmptySeq
        <5>2. QED BY <2>2, <4>2, <5>1, RegistryAssumption DEF Attempt, Last, CloseType
      <4>3. QED BY <4>1, <4>2
    <3>2. [at |-> "mail", attempt |-> Attempt, creation |-> e.creation] \in CloseType
      BY <1>2, <3>1 DEF CloseType
    <3>3. /\ closes' \in Seq(CloseType) /\ Len(closes') = Len(closes) + 1
          /\ \A n \in 1 .. Len(closes) : closes'[n] = closes[n]
          /\ closes'[Len(closes) + 1] =
               [at |-> "mail", attempt |-> Attempt, creation |-> e.creation]
      BY <1>3, <2>2, <3>2, AppendProperties
    <3>4. DOMAIN closes' = 1 .. Len(closes) + 1 BY <3>3, LenProperties
    <3>5. \A n \in DOMAIN closes : n \in DOMAIN closes' /\ closes'[n] = closes[n]
      BY <1>3, <3>3, <3>4
    <3>6. QED BY <2>2, <3>3, <3>4, <3>5
  <2>3. QED BY <1>4, <2>1, <2>2
<1>6. TypeOK'
  <2>1. Types' BY <1>1, <1>4, <1>5 DEF Types
  <2>2. ResultIsLast' BY <1>2, <1>4 DEF ResultIsLast
  <2>3. QED BY <2>1, <2>2, TypeSplitNext
<1>7. RecordInv' BY <1>1, <1>2, <1>4 DEF RecordInv, NoTask
<1>8. OpeningInv' BY <1>1, <1>2 DEF OpeningInv
<1>9. GrainInv'
  <2>1. task'.stage # "stopped" BY <1>4 DEF NoTask
  <2>2. QED BY <1>1, <1>4, <2>1 DEF GrainInv, OneOwner, Owner
<1>10. CloseInv'
  <2>1. task'.stage # "stopped" BY <1>4 DEF NoTask
  <2>2. ASSUME NEW n \in DOMAIN closes PROVE CloseFits(closes[n])'
    <3>1. CloseFits(closes[n]) BY <1>1, <2>2 DEF CloseInv
    <3>2. closes'[n] = closes[n] BY <1>5
    <3>3. QED BY <1>2, <1>4, <2>1, <3>1, <3>2 DEF CloseFits, Heard
  <2>3. CASE closes' = closes
    <3>1. task'.stage # "business"
      <4>1. CASE closes' = Append(closes, [at |-> "mail", attempt |-> Attempt, creation |-> e.creation])
        BY <1>3, <1>5, <2>3, <4>1
      <4>2. QED BY <1>4, <4>1 DEF NoTask
    <3>2. QED BY <1>1, <2>2, <2>3, <3>1 DEF CloseInv, InOrder, AwaitedIsLast
  <2>4. CASE /\ Len(closes') = Len(closes) + 1 /\ DOMAIN closes' = 1 .. Len(closes) + 1
             /\ closes'[Len(closes) + 1] = [at |-> "mail", attempt |-> Attempt, creation |-> e.creation]
             /\ task' = [stage |-> "business", attempt |-> Attempt] /\ ~e.checkpoint
    <3>0. PICK newest \in Nat : newest = Len(closes) + 1 BY <1>3
    <3>1. CloseFits(closes[newest])'
      BY <1>1, <1>2, <1>4, <2>1, <2>4, <3>0 DEF CloseFits, Heard
    <3>2. \A n \in DOMAIN closes : closes[n].attempt < Attempt
      <4>1. ASSUME NEW n \in DOMAIN closes PROVE closes[n].attempt < Attempt
        <5>1. Len(closes) \in DOMAIN closes /\ closes # <<>> BY <1>3
        <5>2. closes[n] \in CloseType /\ closes[Len(closes)] \in CloseType
          BY <1>3, <5>1, ElementOfSeq
        <5>3. closes[n].attempt \in Nat /\ closes[Len(closes)].attempt \in Nat
          BY <5>2, RegistryAssumption DEF CloseType
        <5>4. n = Len(closes) \/ closes[n].attempt < closes[Len(closes)].attempt
          BY <1>1, <1>3, <5>1 DEF CloseInv, InOrder
        <5>5. Attempt = closes[Len(closes)].attempt + 1 BY <5>1 DEF Attempt, Last
        <5>6. QED BY <5>3, <5>4, <5>5
      <4>2. QED BY <4>1
    <3>3. InOrder'
      <4>1. SUFFICES ASSUME NEW m \in DOMAIN closes', NEW n \in DOMAIN closes', m < n
                     PROVE  /\ closes'[m].at = "mail" => closes'[n].at = "mail"
                            /\ closes'[m].attempt < closes'[n].attempt
        BY DEF InOrder
      <4>2. m \in DOMAIN closes /\ closes'[m] = closes[m] BY <1>3, <1>5, <2>4, <4>1
      <4>3. CASE n \in DOMAIN closes
        <5>1. closes'[n] = closes[n] BY <1>5, <4>3
        <5>2. QED BY <1>1, <4>1, <4>2, <4>3, <5>1 DEF CloseInv, InOrder
      <4>4. CASE n = Len(closes) + 1 BY <2>4, <3>2, <4>2, <4>4
      <4>5. QED BY <1>3, <2>4, <4>3, <4>4
    <3>4. AwaitedIsLast'
      <4>1. closes' # <<>> /\ Len(closes') = Len(closes) + 1 BY <1>3, <2>4
      <4>2. QED BY <1>2, <2>4, <4>1 DEF AwaitedIsLast
    <3>5. \A n \in DOMAIN closes' : CloseFits(closes[n])'
      <4>1. ASSUME NEW n \in DOMAIN closes' PROVE CloseFits(closes[n])'
        <5>1. n \in DOMAIN closes \/ n = Len(closes) + 1 BY <1>3, <2>4
        <5>2. QED BY <2>2, <3>0, <3>1, <5>1
      <4>2. QED BY <4>1
    <3>6. QED BY <3>3, <3>4, <3>5 DEF CloseInv
  <2>5. QED BY <1>5, <2>3, <2>4
<1>11. HistoryInv' BY <1>1 DEF HistoryInv
<1>12. QED BY <1>6, <1>7, <1>8, <1>9, <1>10, <1>11 DEF RegistryInv


LEMMA CloseSessionKeeps ==
  ASSUME RegistryInv, NEW k \in Callers, NEW c \in Creation, CloseSession(k, c)
  PROVE  RegistryInv'
<1>1. Types /\ ResultIsLast /\ RecordInv /\ OpeningInv /\ GrainInv /\ CloseInv /\ HistoryInv
  BY TypeSplit DEF RegistryInv
<1> DEFINE e == [entry EXCEPT !.closing = TRUE, !.closers = @ \cup {k}]
           callsNow == [calls EXCEPT ![k] = [for |-> "close", creation |-> c]]
<1>2. /\ up /\ grant.creation = c
      /\ IF e.running
         THEN /\ entry' = e /\ calls' = callsNow
              /\ UNCHANGED <<closes, task, spent>>
         ELSE IF ~e.settled THEN WaitForInitialization(e, callsNow) ELSE RunClosure(e, callsNow)
      /\ UNCHANGED <<up, grant, opening, grain, hist>>
  BY DEF CloseSession, Check
<1>3. /\ e \in EntryType /\ e.closing /\ e.creation = entry.creation /\ e.header = entry.header
      /\ e.input = entry.input /\ e.openers = entry.openers /\ e.settled = entry.settled
      /\ e.checkpoint = entry.checkpoint /\ e.running = entry.running /\ e.result = entry.result
  BY <1>1 DEF Types, EntryType
<1>4. callsNow \in [Callers -> CallType] BY <1>1 DEF Types, CallType
<1> HIDE DEF e, callsNow
<1>5. grant # NoGrant /\ entry.creation = grant.creation /\ ~entry.result
  BY <1>1, <1>2, RegistryAssumption DEF NoGrant, RecordInv
<1>6. CASE e.running \/ ~e.settled
  <2>1. /\ entry' \in EntryType /\ entry'.closing /\ entry'.creation = entry.creation
        /\ entry'.header = entry.header /\ entry'.input = entry.input
        /\ entry'.openers = entry.openers /\ entry'.settled = entry.settled
        /\ entry'.checkpoint = entry.checkpoint /\ entry'.running /\ entry'.result = entry.result
        /\ calls' \in [Callers -> CallType] /\ UNCHANGED <<closes, spent>>
        /\ task' \in TaskType
        /\ (task' = task /\ entry.running) \/ task'.stage = "settling"
    <3>1. CASE e.running BY <1>1, <1>2, <1>3, <1>4, <3>1 DEF Types
    <3>2. CASE ~e.running
      <4>1. /\ entry' = [e EXCEPT !.running = TRUE] /\ task' = [stage |-> "settling", attempt |-> 0]
            /\ calls' = callsNow /\ UNCHANGED <<closes, spent>>
        BY <1>2, <1>6, <3>2 DEF WaitForInitialization, Running
      <4>2. task' \in TaskType BY <4>1, RegistryAssumption DEF TaskType
      <4>3. QED BY <1>3, <1>4, <4>1, <4>2 DEF EntryType
    <3>3. QED BY <3>1, <3>2
  <2>2. TypeOK'
    <3>1. Types' BY <1>1, <1>2, <2>1 DEF Types
    <3>2. ResultIsLast' BY <1>5, <2>1 DEF ResultIsLast
    <3>3. QED BY <3>1, <3>2, TypeSplitNext
  <2>3. RecordInv' BY <1>1, <1>2, <1>5, <2>1 DEF RecordInv
  <2>4. OpeningInv' BY <1>1, <1>2, <2>1 DEF OpeningInv
  <2>5. GrainInv' BY <1>1, <1>2, <2>1 DEF GrainInv, OneOwner, Owner
  <2>6. CloseInv'
    <3>1. ASSUME NEW n \in DOMAIN closes PROVE CloseFits(closes[n])'
      <4>1. CloseFits(closes[n]) BY <1>1 DEF CloseInv
      <4>2. QED BY <1>2, <2>1, <4>1 DEF CloseFits, Heard
    <3>2. grant' = grant /\ closes' = closes BY <1>2, <2>1
    <3>3. task'.stage = "business" => task' = task BY <2>1
    <3>4. QED BY <1>1, <3>1, <3>2, <3>3 DEF CloseInv, InOrder, AwaitedIsLast
  <2>7. HistoryInv' BY <1>1, <1>2 DEF HistoryInv
  <2>8. QED BY <2>2, <2>3, <2>4, <2>5, <2>6, <2>7 DEF RegistryInv
<1>7. CASE ~e.running /\ e.settled
  <2>1. RunClosure(e, callsNow) BY <1>2, <1>7
  <2>2. task.stage \in {"none", "settling"} BY <1>1, <1>3, <1>7 DEF RecordInv
  <2>3. entry.settled BY <1>3, <1>7
  <2>4. QED BY <1>2, <1>3, <1>4, <1>5, <1>7, <2>1, <2>2, <2>3, RunClosureKeeps
<1>8. QED BY <1>6, <1>7

LEMMA ContinueClosureKeeps == ASSUME RegistryInv, ContinueClosure PROVE RegistryInv'
<1>1. Types /\ ResultIsLast /\ RecordInv /\ OpeningInv /\ GrainInv /\ CloseInv /\ HistoryInv
  BY TypeSplit DEF RegistryInv
<1> DEFINE e == [entry EXCEPT !.running = FALSE]
<1>2. /\ up /\ task.stage = "settling" /\ entry.settled /\ RunClosure(e, calls)
      /\ UNCHANGED <<up, grant, opening, grain, hist>>
  BY DEF ContinueClosure
<1>3. entry.closing /\ grant # NoGrant BY <1>1, <1>2 DEF RecordInv
<1>4. /\ e \in EntryType /\ e.closing /\ e.creation = entry.creation /\ e.header = entry.header
      /\ e.input = entry.input /\ e.openers = entry.openers /\ e.settled = entry.settled
      /\ e.checkpoint = entry.checkpoint /\ ~e.running /\ e.result = entry.result
  BY <1>1, <1>3 DEF Types, EntryType
<1>5. calls \in [Callers -> CallType] BY <1>1 DEF Types
<1> HIDE DEF e
<1>6. QED BY <1>2, <1>3, <1>4, <1>5, RunClosureKeeps

\* The awaited close is the last one that was sent.
LEMMA AwaitedClose ==
  ASSUME RegistryInv, task.stage = "business"
  PROVE  /\ closes \in Seq(CloseType) /\ Len(closes) \in Nat \ {0}
         /\ DOMAIN closes = 1 .. Len(closes)
         /\ \A n \in DOMAIN closes : n \in Awaited <=> n = Len(closes)
<1>1. Types /\ CloseInv BY TypeSplit DEF RegistryInv
<1>2. /\ closes \in Seq(CloseType) /\ Len(closes) \in Nat \ {0} /\ DOMAIN closes = 1 .. Len(closes)
      /\ closes[Len(closes)].attempt = task.attempt
  BY <1>1, LenProperties, EmptySeq DEF Types, CloseInv, AwaitedIsLast
<1>3. ASSUME NEW n \in DOMAIN closes, n # Len(closes) PROVE closes[n].attempt # task.attempt
  <2>1. closes[n] \in CloseType /\ closes[Len(closes)] \in CloseType BY <1>2, ElementOfSeq
  <2>2. closes[n].attempt \in Nat /\ closes[Len(closes)].attempt \in Nat
    BY <2>1, RegistryAssumption DEF CloseType
  <2>3. closes[n].attempt < closes[Len(closes)].attempt
    BY <1>1, <1>2, <1>3 DEF CloseInv, InOrder
  <2>4. QED BY <1>2, <2>2, <2>3
<1>4. QED BY <1>2, <1>3 DEF Awaited

\* An answered close that nobody awaits, or whose awaiting ends, leaves the
\* others in their order.
LEMMA RemovedClose ==
  ASSUME RegistryInv, NEW n \in DOMAIN closes, closes' = RemoveAt(closes, n)
  PROVE  /\ closes' \in Seq(CloseType) /\ InOrder'
         /\ DOMAIN closes' = 1 .. Len(closes) - 1 /\ Len(closes') = Len(closes) - 1
         /\ \A m \in DOMAIN closes' : \E q \in DOMAIN closes : q # n /\ closes'[m] = closes[q]
         /\ \A m \in DOMAIN closes' : m >= n => closes'[m] = closes[m + 1]
<1>1. Types /\ CloseInv BY TypeSplit DEF RegistryInv
<1>2. closes \in Seq(CloseType) /\ Len(closes) \in Nat /\ DOMAIN closes = 1 .. Len(closes)
  BY <1>1, LenProperties DEF Types
<1>3. /\ closes' \in Seq(CloseType) /\ Len(closes') = Len(closes) - 1
      /\ \A m \in 1 .. Len(closes) - 1 : closes'[m] = IF m < n THEN closes[m] ELSE closes[m + 1]
  BY <1>2, RemoveAtFacts
<1>4. DOMAIN closes' = 1 .. Len(closes) - 1 BY <1>3, LenProperties
<1>5. ASSUME NEW m \in DOMAIN closes' PROVE \E q \in DOMAIN closes : q # n /\ closes'[m] = closes[q]
  <2>1. m \in 1 .. Len(closes) - 1 BY <1>4
  <2>2. CASE m < n BY <1>2, <1>3, <2>1, <2>2
  <2>3. CASE ~(m < n)
    <3>1. m + 1 \in DOMAIN closes /\ m + 1 # n BY <1>2, <2>1, <2>3
    <3>2. closes'[m] = closes[m + 1] BY <1>3, <2>1, <2>3
    <3>3. QED BY <3>1, <3>2
  <2>4. QED BY <2>2, <2>3
<1>6. InOrder'
  <2>1. SUFFICES ASSUME NEW m \in DOMAIN closes', NEW q \in DOMAIN closes', m < q
                 PROVE  /\ closes'[m].at = "mail" => closes'[q].at = "mail"
                        /\ closes'[m].attempt < closes'[q].attempt
    BY DEF InOrder
  <2>2. PICK i \in DOMAIN closes : closes'[m] = closes[i] /\ i = IF m < n THEN m ELSE m + 1
    BY <1>2, <1>3, <1>4, <2>1
  <2>3. PICK j \in DOMAIN closes : closes'[q] = closes[j] /\ j = IF q < n THEN q ELSE q + 1
    BY <1>2, <1>3, <1>4, <2>1
  <2>4. i < j BY <1>2, <1>4, <2>1, <2>2, <2>3
  <2>5. QED BY <1>1, <2>2, <2>3, <2>4 DEF CloseInv, InOrder
<1>7. \A m \in DOMAIN closes' : m >= n => closes'[m] = closes[m + 1] BY <1>2, <1>3, <1>4
<1>8. QED BY <1>3, <1>4, <1>5, <1>6, <1>7


LEMMA CloseReturnsKeeps ==
  ASSUME RegistryInv, NEW n \in DOMAIN closes, CloseReturns(n) PROVE RegistryInv'
<1>1. Types /\ ResultIsLast /\ RecordInv /\ OpeningInv /\ GrainInv /\ CloseInv /\ HistoryInv
  BY TypeSplit DEF RegistryInv
<1>2. /\ up /\ task.stage = "business" /\ n \in Awaited
      /\ \/ closes[n].at = "ok" /\ grant' = [grant EXCEPT !.retired = TRUE]
            /\ entry' = [entry EXCEPT !.checkpoint = TRUE]
            /\ task' = [task EXCEPT !.stage = "authorized"]
         \/ task' = [task EXCEPT !.stage = "failed"] /\ UNCHANGED <<grant, entry>>
      /\ closes' = RemoveAt(closes, n)
      /\ UNCHANGED <<up, opening, grain, calls, hist, spent>>
  BY DEF CloseReturns, Retire
<1>3. n = Len(closes) /\ Len(closes) \in Nat \ {0} /\ DOMAIN closes = 1 .. Len(closes)
  BY <1>2, AwaitedClose
<1>4. entry.settled /\ entry.closing /\ entry.running /\ opening = NoOpening /\ grant # NoGrant
      /\ entry.creation = grant.creation /\ ~entry.result
  BY <1>1, <1>2 DEF RecordInv
<1>5. /\ closes' \in Seq(CloseType) /\ InOrder'
      /\ \A m \in DOMAIN closes' : \E q \in DOMAIN closes : q # n /\ closes'[m] = closes[q]
  BY <1>2, RemovedClose
<1>6. task' \in TaskType BY <1>1, <1>2 DEF Types, TaskType
<1>7. AwaitedIsLast' BY <1>1, <1>2 DEF Types, TaskType, AwaitedIsLast
<1>8. HistoryInv' BY <1>1, <1>2 DEF HistoryInv, Types, GrantType
<1>9. CASE /\ closes[n].at = "ok" /\ grant' = [grant EXCEPT !.retired = TRUE]
           /\ entry' = [entry EXCEPT !.checkpoint = TRUE]
           /\ task' = [task EXCEPT !.stage = "authorized"]
  <2>1. /\ grant' \in GrantType /\ grant'.creation = grant.creation
        /\ grant'.instance = grant.instance /\ grant'.retired
    BY <1>1, <1>9 DEF Types, GrantType
  <2>2. /\ entry' \in EntryType /\ entry'.checkpoint /\ entry'.closing /\ entry'.settled
        /\ entry'.running /\ entry'.creation = entry.creation /\ ~entry'.result
        /\ entry'.header = entry.header /\ entry'.input = entry.input /\ entry'.openers = entry.openers
    BY <1>1, <1>4, <1>9 DEF Types, EntryType
  <2>3. task'.stage = "authorized" BY <1>1, <1>9 DEF Types, TaskType
  <2>4. TypeOK'
    <3>1. Types' BY <1>1, <1>2, <1>5, <1>6, <2>1, <2>2 DEF Types
    <3>2. ResultIsLast' BY <2>2 DEF ResultIsLast
    <3>3. QED BY <3>1, <3>2, TypeSplitNext
  <2>5. RecordInv' BY <1>1, <1>2, <1>4, <2>1, <2>2, <2>3 DEF RecordInv, NoGrant
  <2>6. OpeningInv' BY <1>1, <1>2, <1>4, <2>1 DEF OpeningInv, NoOpening
  <2>7. CloseFits(closes[n]) BY <1>1 DEF CloseInv
  <2>8. closes[n].creation = grant.creation BY <1>1, <1>2, <1>3 DEF CloseInv, AwaitedIsLast
  <2>9. GrainInv'
    <3>1. grain.phase = "open" => grain.closing /\ ~grain.dirty BY <1>9, <2>7, <2>8 DEF CloseFits
    <3>2. grain.phase # "restoring" BY <1>1, <1>4 DEF OpeningInv, NoOpening
    <3>3. QED BY <1>1, <1>2, <2>1, <2>2, <2>3, <3>1, <3>2 DEF GrainInv, OneOwner, Owner, NoGrant
  <2>10. CloseInv'
    <3>1. ASSUME NEW m \in DOMAIN closes' PROVE CloseFits(closes[m])'
      <4>1. PICK q \in DOMAIN closes : q # n /\ closes'[m] = closes[q] BY <1>5
      <4>2. CloseFits(closes[q]) BY <1>1 DEF CloseInv
      <4>3. closes[q].at # "mail"
        <5>1. q < n BY <1>3, <4>1
        <5>2. closes[q].at = "mail" => closes[n].at = "mail" BY <1>1, <5>1 DEF CloseInv, InOrder
        <5>3. QED BY <1>9, <5>2
      <4>4. QED BY <1>2, <1>4, <2>1, <2>2, <2>3, <4>1, <4>2, <4>3 DEF CloseFits, Heard
    <3>2. QED BY <1>5, <1>7, <3>1 DEF CloseInv
  <2>11. QED BY <1>8, <2>4, <2>5, <2>6, <2>9, <2>10 DEF RegistryInv
<1>10. CASE task' = [task EXCEPT !.stage = "failed"] /\ UNCHANGED <<grant, entry>>
  <2>1. task'.stage = "failed" BY <1>1, <1>10 DEF Types, TaskType
  <2>2. TypeOK'
    <3>1. Types' BY <1>1, <1>2, <1>5, <1>6, <1>10 DEF Types
    <3>2. ResultIsLast' BY <1>4, <1>10 DEF ResultIsLast
    <3>3. QED BY <3>1, <3>2, TypeSplitNext
  <2>3. RecordInv' BY <1>1, <1>2, <1>4, <1>10, <2>1 DEF RecordInv
  <2>4. OpeningInv' BY <1>1, <1>2, <1>10 DEF OpeningInv
  <2>5. GrainInv' BY <1>1, <1>2, <1>10, <2>1 DEF GrainInv, OneOwner, Owner
  <2>6. CloseInv'
    <3>1. ASSUME NEW m \in DOMAIN closes' PROVE CloseFits(closes[m])'
      <4>1. PICK q \in DOMAIN closes : q # n /\ closes'[m] = closes[q] BY <1>5
      <4>2. CloseFits(closes[q]) BY <1>1 DEF CloseInv
      <4>3. QED BY <1>2, <1>4, <1>10, <2>1, <4>1, <4>2 DEF CloseFits, Heard
    <3>2. QED BY <1>5, <1>7, <3>1 DEF CloseInv
  <2>7. QED BY <1>8, <2>2, <2>3, <2>4, <2>5, <2>6 DEF RegistryInv
<1>11. QED BY <1>2, <1>9, <1>10


LEMMA CloseTimesOutKeeps == ASSUME RegistryInv, CloseTimesOut PROVE RegistryInv'
<1>1. Types /\ ResultIsLast /\ RecordInv /\ OpeningInv /\ GrainInv /\ CloseInv /\ HistoryInv
  BY TypeSplit DEF RegistryInv
<1>2. /\ up /\ task.stage = "business" /\ Fault /\ task' = [task EXCEPT !.stage = "failed"]
      /\ UNCHANGED <<up, grant, entry, opening, closes, grain, calls, hist>>
  BY DEF CloseTimesOut
<1>3. task' \in TaskType /\ task'.stage = "failed" BY <1>1, <1>2 DEF Types, TaskType
<1>4. TypeOK'
  <2>1. spent' \in SpentType BY <1>1, <1>2, FaultTypes DEF Types
  <2>2. Types' BY <1>1, <1>2, <1>3, <2>1 DEF Types
  <2>3. ResultIsLast' BY <1>1, <1>2 DEF ResultIsLast
  <2>4. QED BY <2>2, <2>3, TypeSplitNext
<1>5. RecordInv' BY <1>1, <1>2, <1>3 DEF RecordInv
<1>6. OpeningInv' BY <1>1, <1>2 DEF OpeningInv
<1>7. GrainInv' BY <1>1, <1>2, <1>3 DEF GrainInv, OneOwner, Owner
<1>8. CloseInv'
  <2>1. ASSUME NEW n \in DOMAIN closes PROVE CloseFits(closes[n])'
    <3>1. CloseFits(closes[n]) BY <1>1 DEF CloseInv
    <3>2. QED BY <1>2, <1>3, <3>1 DEF CloseFits, Heard
  <2>2. QED BY <1>1, <1>2, <1>3, <2>1 DEF CloseInv, InOrder, AwaitedIsLast
<1>9. HistoryInv' BY <1>1, <1>2 DEF HistoryInv
<1>10. QED BY <1>4, <1>5, <1>6, <1>7, <1>8, <1>9 DEF RegistryInv

LEMMA LateAnswerKeeps ==
  ASSUME RegistryInv, NEW n \in DOMAIN closes, LateAnswer(n) PROVE RegistryInv'
<1>1. Types /\ ResultIsLast /\ RecordInv /\ OpeningInv /\ GrainInv /\ CloseInv /\ HistoryInv
  BY TypeSplit DEF RegistryInv
<1>2. /\ task.stage # "business" \/ n \notin Awaited
      /\ closes' = RemoveAt(closes, n)
      /\ UNCHANGED <<registryVars, opening, task, grain, calls, hist, spent>>
  BY DEF LateAnswer
<1>3. /\ closes' \in Seq(CloseType) /\ InOrder'
      /\ DOMAIN closes' = 1 .. Len(closes) - 1 /\ Len(closes') = Len(closes) - 1
      /\ \A m \in DOMAIN closes' : \E q \in DOMAIN closes : q # n /\ closes'[m] = closes[q]
      /\ \A m \in DOMAIN closes' : m >= n => closes'[m] = closes[m + 1]
  BY <1>2, RemovedClose
<1>4. TypeOK'
  <2>1. Types' BY <1>1, <1>2, <1>3 DEF Types, registryVars
  <2>2. ResultIsLast' BY <1>1, <1>2 DEF ResultIsLast, registryVars
  <2>3. QED BY <2>1, <2>2, TypeSplitNext
<1>5. RecordInv' BY <1>1, <1>2 DEF RecordInv, registryVars
<1>6. OpeningInv' BY <1>1, <1>2 DEF OpeningInv, registryVars
<1>7. GrainInv' BY <1>1, <1>2 DEF GrainInv, OneOwner, Owner, registryVars
<1>8. AwaitedIsLast'
  <2>1. SUFFICES ASSUME task.stage = "business"
                 PROVE  /\ closes' # <<>> /\ closes'[Len(closes')].attempt = task.attempt
                        /\ closes'[Len(closes')].creation = grant.creation
    BY <1>2 DEF AwaitedIsLast, registryVars
  <2>2. /\ Len(closes) \in Nat \ {0} /\ DOMAIN closes = 1 .. Len(closes) /\ n # Len(closes)
    BY <1>2, <2>1, AwaitedClose
  <2>3. Len(closes) - 1 \in DOMAIN closes' /\ Len(closes) - 1 >= n BY <1>3, <2>2
  <2>4. closes'[Len(closes')] = closes[Len(closes)] BY <1>3, <2>2, <2>3
  <2>5. closes' # <<>> BY <1>3, <2>2, <2>3, EmptySeq
  <2>6. QED BY <1>1, <2>1, <2>4, <2>5 DEF CloseInv, AwaitedIsLast
<1>9. CloseInv'
  <2>1. ASSUME NEW m \in DOMAIN closes' PROVE CloseFits(closes[m])'
    <3>1. PICK q \in DOMAIN closes : q # n /\ closes'[m] = closes[q] BY <1>3
    <3>2. CloseFits(closes[q]) BY <1>1 DEF CloseInv
    <3>3. QED BY <1>2, <3>1, <3>2 DEF CloseFits, Heard, registryVars
  <2>2. QED BY <1>3, <1>8, <2>1 DEF CloseInv
<1>10. HistoryInv' BY <1>1, <1>2 DEF HistoryInv, registryVars
<1>11. QED BY <1>4, <1>5, <1>6, <1>7, <1>9, <1>10 DEF RegistryInv

\* What the end of an activation answers.
LEMMA DeactivateFacts ==
  ASSUME RegistryInv, Deactivate
  PROVE  /\ grain' = NoGrain /\ grain' \in GrainType /\ opening' \in OpeningType
         /\ closes' \in Seq(CloseType) /\ Len(closes') = Len(closes) /\ DOMAIN closes' = DOMAIN closes
         /\ \A n \in DOMAIN closes :
              /\ closes'[n].attempt = closes[n].attempt /\ closes'[n].creation = closes[n].creation
              /\ (closes'[n].at = closes[n].at \/ (~Heard(closes[n]) /\ closes[n].at # "mail"))
              /\ closes'[n].at \in {"mail", "ok", "err"}
              /\ closes'[n].at = "mail" <=> closes[n].at = "mail"
              /\ closes'[n].at = "ok" <=> closes[n].at = "ok"
         /\ opening'.creation = opening.creation /\ opening'.mode = opening.mode
         /\ opening'.at \in {"none", "mail", "ok", "err"}
         /\ opening'.at = "ok" <=> opening.at = "ok"
         /\ opening' = NoOpening <=> opening = NoOpening
<1>1. Types /\ OpeningInv BY TypeSplit DEF RegistryInv
<1>2. /\ grain' = NoGrain /\ opening' = Failing(opening)
      /\ closes' = [n \in DOMAIN closes |-> Failing(closes[n])]
  BY DEF Deactivate
<1>3. closes \in Seq(CloseType) /\ Len(closes) \in Nat /\ DOMAIN closes = 1 .. Len(closes)
  BY <1>1, LenProperties DEF Types
<1>4. ASSUME NEW r \in CloseType
      PROVE  /\ Failing(r) \in CloseType
             /\ Failing(r).attempt = r.attempt /\ Failing(r).creation = r.creation
             /\ (Failing(r).at = r.at \/ (~Heard(r) /\ r.at # "mail"))
             /\ Failing(r).at \in {"mail", "ok", "err"}
             /\ Failing(r).at = "mail" <=> r.at = "mail"
             /\ Failing(r).at = "ok" <=> r.at = "ok"
  <2>1. CASE r.at \in Unanswered
    <3>1. Failing(r) = [r EXCEPT !.at = "err"] BY <2>1 DEF Failing
    <3>2. Failing(r) \in CloseType BY <1>4, <3>1 DEF CloseType
    <3>3. /\ Failing(r).at = "err" /\ Failing(r).attempt = r.attempt
          /\ Failing(r).creation = r.creation
      BY <1>4, <3>1 DEF CloseType
    <3>4. r.at \notin {"mail", "ok", "err"} BY <2>1 DEF Unanswered
    <3>5. QED BY <3>2, <3>3, <3>4 DEF Heard
  <2>2. CASE r.at \notin Unanswered
    <3>1. Failing(r) = r BY <2>2 DEF Failing
    <3>2. r.at \in {"mail", "ok", "err"} BY <1>4, <2>2 DEF CloseType
    <3>3. Failing(r) \in CloseType /\ Failing(r).at \in {"mail", "ok", "err"} BY <1>4, <3>1, <3>2
    <3>4. QED BY <3>1, <3>3
  <2>3. QED BY <2>1, <2>2
<1>5. \A n \in 1 .. Len(closes) : closes[n] \in CloseType BY <1>3, ElementOfSeq
<1>6. closes' \in Seq(CloseType) /\ Len(closes') = Len(closes) /\ DOMAIN closes' = DOMAIN closes
  <2>1. closes' = [n \in 1 .. Len(closes) |-> Failing(closes[n])] BY <1>2, <1>3
  <2>2. \A n \in 1 .. Len(closes) : Failing(closes[n]) \in CloseType BY <1>4, <1>5
  <2>3. QED BY <1>3, <2>1, <2>2
<1>7. /\ opening' \in OpeningType /\ opening'.creation = opening.creation
      /\ opening'.mode = opening.mode /\ opening'.at \in {"none", "mail", "ok", "err"}
      /\ opening'.at = "ok" <=> opening.at = "ok"
      /\ opening' = NoOpening <=> opening = NoOpening
  BY <1>1, <1>2, SMTT(30) DEF Types, OpeningType, Failing, Unanswered, NoOpening
<1>8. grain' \in GrainType BY <1>2, InitialTypes
<1>9. ASSUME NEW n \in DOMAIN closes
      PROVE  /\ closes'[n].attempt = closes[n].attempt /\ closes'[n].creation = closes[n].creation
             /\ (closes'[n].at = closes[n].at \/ (~Heard(closes[n]) /\ closes[n].at # "mail"))
             /\ closes'[n].at \in {"mail", "ok", "err"}
             /\ closes'[n].at = "mail" <=> closes[n].at = "mail"
             /\ closes'[n].at = "ok" <=> closes[n].at = "ok"
  <2>1. closes'[n] = Failing(closes[n]) BY <1>2
  <2>2. closes[n] \in CloseType BY <1>3, <1>5
  <2>3. QED BY <1>4, <2>1, <2>2
<1>10. QED BY <1>2, <1>6, <1>7, <1>8, <1>9

\* An activation ends.  What it acknowledged is the matter of the two premises:
\* the reservation was revoked, or history remembers the activation as lost.
LEMMA DeactivateKeeps ==
  ASSUME RegistryInv, Deactivate, UNCHANGED <<up, grant, entry, calls>>,
         task' \in TaskType, spent' \in SpentType,
         hist' \in HistType, hist'.owners = hist.owners, hist'.acked = hist.acked,
         \/ grant.retired
         \/ hist'.lost = hist.lost \cup {grain.inst},
         \/ task' = task
         \/ /\ up /\ task.stage = "authorized" /\ entry.checkpoint
            /\ task'.stage \in {"stopped", "failed"}
  PROVE  RegistryInv'
<1>1. Types /\ ResultIsLast /\ RecordInv /\ OpeningInv /\ GrainInv /\ CloseInv /\ HistoryInv
  BY TypeSplit DEF RegistryInv
<1>2. /\ grain' = NoGrain /\ grain' \in GrainType /\ opening' \in OpeningType
      /\ closes' \in Seq(CloseType) /\ Len(closes') = Len(closes) /\ DOMAIN closes' = DOMAIN closes
      /\ opening'.creation = opening.creation /\ opening'.mode = opening.mode
      /\ opening'.at \in {"none", "mail", "ok", "err"}
      /\ opening'.at = "ok" <=> opening.at = "ok"
      /\ opening' = NoOpening <=> opening = NoOpening
  BY DeactivateFacts
<1>3. grain'.phase = "empty" BY <1>2 DEF NoGrain
<1>4. TypeOK'
  <2>1. Types' BY <1>1, <1>2 DEF Types
  <2>2. ResultIsLast' BY <1>1 DEF ResultIsLast
  <2>3. QED BY <2>1, <2>2, TypeSplitNext
<1>5. RecordInv' BY <1>1, <1>2 DEF RecordInv
<1>6. OpeningInv'
  <2>1. opening'.at = "none" => opening' = NoOpening
    <3>1. CASE opening = NoOpening BY <1>2, <3>1
    <3>2. CASE opening # NoOpening
      <4>1. opening' = Failing(opening) /\ opening.at # "none"
        BY <1>1, <3>2 DEF Deactivate, OpeningInv
      <4>2. opening.at # "none" => Failing(opening).at # "none"
        BY <1>1 DEF Failing, Types, OpeningType
      <4>3. QED BY <4>1, <4>2
    <3>3. QED BY <3>1, <3>2
  <2>2. QED BY <1>1, <1>2, <1>3, <2>1 DEF OpeningInv
<1>7. GrainInv'
  <2>1. SUFFICES ASSUME grant # NoGrant, ~grant.retired, (up /\ entry.header) \/ opening.at = "ok"
                 PROVE  grant.instance \in hist'.lost
    BY <1>2, <1>3 DEF GrainInv, OneOwner
  <2>2. grant.instance \in hist.lost \/ grain.inst = grant.instance BY <1>1, <2>1 DEF GrainInv
  <2>3. QED BY <2>1, <2>2
<1>8. CloseInv'
  <2>1. ASSUME NEW n \in DOMAIN closes PROVE CloseFits(closes[n])'
    <3>1. CloseFits(closes[n]) BY <1>1 DEF CloseInv
    <3>2. /\ closes'[n].creation = closes[n].creation
          /\ (closes'[n].at = closes[n].at \/ (~Heard(closes[n]) /\ closes[n].at # "mail"))
          /\ closes'[n].at \in {"mail", "ok", "err"}
          /\ closes'[n].at = "mail" <=> closes[n].at = "mail"
          /\ closes'[n].at = "ok" <=> closes[n].at = "ok"
      BY DeactivateFacts
    <3>3. closes'[n].at # "drain" BY <3>2
    <3>4. Heard(closes[n]) => Heard(closes[n])' BY <3>2 DEF Heard
    <3>5. closes'[n].at # "mail" => Heard(closes[n])' BY <3>2 DEF Heard
    <3>6. task'.stage = "stopped" => task.stage = "stopped" \/ entry.checkpoint OBVIOUS
    <3>7. task'.stage = "stopped" => Heard(closes[n])'
      BY <3>1, <3>2, <3>4, <3>5, <3>6 DEF CloseFits
    <3>8. ~Heard(closes[n])' => ~Heard(closes[n]) BY <3>4
    <3>9. /\ closes'[n].creation \in hist'.acked \cup {grant'.creation}
          /\ ~Heard(closes[n])' => closes'[n].creation = grant'.creation
      BY <3>1, <3>2, <3>8 DEF CloseFits
    <3>10. /\ opening' # NoOpening \/ (up' /\ ~entry'.closing) =>
                Heard(closes[n])' /\ closes'[n].creation # grant'.creation
           /\ entry'.checkpoint => closes'[n].at # "mail"
      BY <1>2, <3>1, <3>2, <3>4 DEF CloseFits
    <3>11. QED BY <1>3, <3>3, <3>7, <3>9, <3>10 DEF CloseFits
  <2>2. InOrder' BY <1>1, <1>2, DeactivateFacts DEF CloseInv, InOrder
  <2>3. AwaitedIsLast'
    <3>1. SUFFICES ASSUME task' = task, task.stage = "business"
                   PROVE  /\ closes' # <<>> /\ closes'[Len(closes)].attempt = task.attempt
                          /\ closes'[Len(closes)].creation = grant.creation
      BY <1>2 DEF AwaitedIsLast
    <3>2. Len(closes) \in Nat \ {0} /\ Len(closes) \in DOMAIN closes BY <3>1, AwaitedClose
    <3>3. closes' # <<>> BY <1>2, <3>2, EmptySeq
    <3>4. QED BY <1>1, <3>1, <3>2, <3>3, DeactivateFacts DEF CloseInv, AwaitedIsLast
  <2>4. QED BY <1>2, <2>1, <2>2, <2>3 DEF CloseInv
<1>9. HistoryInv' BY <1>1 DEF HistoryInv
<1>10. QED BY <1>4, <1>5, <1>6, <1>7, <1>8, <1>9 DEF RegistryInv


LEMMA PoisonKeeps == ASSUME RegistryInv, Poison PROVE RegistryInv'
<1>1. Types /\ RecordInv BY TypeSplit DEF RegistryInv
<1>2. /\ up /\ task.stage = "authorized" /\ Deactivate /\ task' = [task EXCEPT !.stage = "stopped"]
      /\ UNCHANGED <<up, grant, entry, calls, hist, spent>>
  BY DEF Poison
<1>3. entry.checkpoint /\ grant.retired BY <1>1, <1>2 DEF RecordInv
<1>4. task' \in TaskType /\ task'.stage = "stopped" BY <1>1, <1>2 DEF Types, TaskType
<1>5. hist' \in HistType /\ spent' \in SpentType BY <1>1, <1>2 DEF Types
<1>6. QED BY <1>2, <1>3, <1>4, <1>5, DeactivateKeeps

LEMMA PoisonFailsKeeps == ASSUME RegistryInv, PoisonFails PROVE RegistryInv'
<1>1. Types /\ ResultIsLast /\ RecordInv /\ OpeningInv /\ GrainInv /\ CloseInv /\ HistoryInv
  BY TypeSplit DEF RegistryInv
<1>2. /\ up /\ task.stage = "authorized" /\ Fault
      /\ Deactivate \/ UNCHANGED <<grain, closes, opening>>
      /\ task' = [task EXCEPT !.stage = "failed"]
      /\ UNCHANGED <<up, grant, entry, calls, hist>>
  BY DEF PoisonFails
<1>3. entry.checkpoint /\ grant.retired BY <1>1, <1>2 DEF RecordInv
<1>4. task' \in TaskType /\ task'.stage = "failed" BY <1>1, <1>2 DEF Types, TaskType
<1>5. hist' \in HistType /\ spent' \in SpentType BY <1>1, <1>2, FaultTypes DEF Types
<1>6. CASE Deactivate BY <1>2, <1>3, <1>4, <1>5, <1>6, DeactivateKeeps
<1>7. CASE UNCHANGED <<grain, closes, opening>>
  <2>1. TypeOK'
    <3>1. Types' BY <1>1, <1>2, <1>4, <1>5, <1>7 DEF Types
    <3>2. ResultIsLast' BY <1>1, <1>2 DEF ResultIsLast
    <3>3. QED BY <3>1, <3>2, TypeSplitNext
  <2>2. RecordInv' BY <1>1, <1>2, <1>4, <1>7 DEF RecordInv
  <2>3. OpeningInv' BY <1>1, <1>2, <1>7 DEF OpeningInv
  <2>4. GrainInv' BY <1>1, <1>2, <1>4, <1>7 DEF GrainInv, OneOwner, Owner
  <2>5. CloseInv'
    <3>1. ASSUME NEW n \in DOMAIN closes PROVE CloseFits(closes[n])'
      <4>1. CloseFits(closes[n]) BY <1>1 DEF CloseInv
      <4>2. QED BY <1>2, <1>4, <1>7, <4>1 DEF CloseFits, Heard
    <3>2. QED BY <1>1, <1>4, <1>7, <3>1 DEF CloseInv, InOrder, AwaitedIsLast
  <2>6. HistoryInv' BY <1>1, <1>2 DEF HistoryInv
  <2>7. QED BY <2>1, <2>2, <2>3, <2>4, <2>5, <2>6 DEF RegistryInv
<1>8. QED BY <1>2, <1>6, <1>7

LEMMA GrainLostKeeps == ASSUME RegistryInv, GrainLost PROVE RegistryInv'
<1>1. Types BY TypeSplit DEF RegistryInv
<1>2. /\ grain.inst # 0 /\ Fault /\ Deactivate
      /\ hist' = [hist EXCEPT !.lost = @ \cup {grain.inst}]
      /\ UNCHANGED <<registryVars, task, calls>>
  BY DEF GrainLost
<1>3. grain.inst \in 1 .. MaxInst BY <1>1, <1>2, RegistryAssumption DEF Types, GrainType
<1>4. /\ hist' \in HistType /\ hist'.owners = hist.owners /\ hist'.acked = hist.acked
      /\ hist'.lost = hist.lost \cup {grain.inst}
  BY <1>1, <1>2, <1>3 DEF Types, HistType
<1>5. spent' \in SpentType BY <1>1, <1>2, FaultTypes DEF Types
<1>6. task' \in TaskType /\ task' = task BY <1>1, <1>2 DEF Types
<1>7. UNCHANGED <<up, grant, entry, calls>> BY <1>2 DEF registryVars
<1>8. QED BY <1>2, <1>4, <1>5, <1>6, <1>7, DeactivateKeeps

LEMMA FinishClosureKeeps == ASSUME RegistryInv, FinishClosure PROVE RegistryInv'
<1>1. Types /\ ResultIsLast /\ RecordInv /\ OpeningInv /\ GrainInv /\ CloseInv /\ HistoryInv
  BY TypeSplit DEF RegistryInv
<1>2. /\ up /\ task.stage \in {"stopped", "failed"} /\ task' = NoTask
      /\ calls' = Answered(entry.closers)
      /\ UNCHANGED <<up, opening, closes, grain, spent>>
  BY DEF FinishClosure
<1>3. calls' \in [Callers -> CallType] BY <1>1, <1>2, AnsweredTypes DEF Types
<1>4. task' \in TaskType /\ task'.stage = "none" BY <1>2, InitialTypes DEF NoTask
<1>5. /\ entry.settled /\ entry.closing /\ opening = NoOpening /\ grant # NoGrant
      /\ entry.creation = grant.creation /\ ~entry.result /\ grant.creation \in Creation
  BY <1>1, <1>2 DEF RecordInv, Types, GrantType
<1>6. CASE task.stage = "stopped" /\ ReleaseAllows(entry.creation)
  <2>1. /\ grant' = NoGrant
        /\ entry' = [NewEntry(entry.creation) EXCEPT !.header = entry.header, !.result = TRUE]
        /\ hist' = [hist EXCEPT !.acked = @ \cup {entry.creation}]
    BY <1>6 DEF FinishClosure
  <2>2. /\ entry' \in EntryType /\ entry'.creation = entry.creation /\ entry'.result
        /\ entry'.input = "none" /\ ~entry'.closing /\ ~entry'.checkpoint /\ ~entry'.running
        /\ entry'.settled /\ entry'.openers = {}
    <3>1. NewEntry(entry.creation) \in EntryType BY <1>1, InitialTypes DEF Types, EntryType
    <3>2. entry.header \in BOOLEAN BY <1>1 DEF Types, EntryType
    <3>3. QED BY <2>1, <3>1, <3>2 DEF EntryType, NewEntry
  <2>3. hist' \in HistType /\ hist'.owners = hist.owners /\ hist'.lost = hist.lost
        /\ hist'.acked = hist.acked \cup {grant.creation}
    BY <1>1, <1>5, <2>1 DEF Types, HistType
  <2>4. TypeOK'
    <3>1. Types' BY <1>1, <1>2, <1>3, <1>4, <2>1, <2>2, <2>3, InitialTypes DEF Types
    <3>2. ResultIsLast' BY <2>2 DEF ResultIsLast
    <3>3. QED BY <3>1, <3>2, TypeSplitNext
  <2>5. RecordInv' BY <1>1, <1>2, <1>4, <1>5, <2>1, <2>2 DEF RecordInv, NoGrant
  <2>6. OpeningInv' BY <1>1, <1>2, <1>5 DEF OpeningInv, NoOpening
  <2>7. GrainInv'
    <3>1. grain.phase = "empty" BY <1>1, <1>6 DEF GrainInv
    <3>2. QED BY <1>2, <1>4, <2>1, <2>2, <3>1 DEF GrainInv, OneOwner
  <2>8. CloseInv'
    <3>1. ASSUME NEW n \in DOMAIN closes PROVE CloseFits(closes[n])'
      <4>1. CloseFits(closes[n]) BY <1>1 DEF CloseInv
      <4>2. Heard(closes[n]) /\ closes[n].creation \in hist.acked \cup {grant.creation}
        BY <1>6, <4>1 DEF CloseFits
      <4>3. closes[n] \in CloseType BY <1>1, LenProperties, ElementOfSeq DEF Types
      <4>4. closes[n].creation # NoCreation BY <4>3, RegistryAssumption DEF CloseType
      <4>5. closes[n].at # "mail" /\ closes[n].at # "drain" BY <4>2 DEF Heard
      <4>6. QED BY <1>2, <1>4, <2>1, <2>2, <2>3, <4>2, <4>4, <4>5 DEF CloseFits, Heard, NoGrant
    <3>2. QED BY <1>1, <1>2, <1>4, <3>1 DEF CloseInv, InOrder, AwaitedIsLast
  <2>9. HistoryInv'
    <3>1. NoCreation \notin hist'.acked BY <2>3, RegistryAssumption DEF HistType
    <3>2. QED BY <1>1, <2>1, <2>3, <3>1 DEF HistoryInv, NoGrant
  <2>10. QED BY <2>4, <2>5, <2>6, <2>7, <2>8, <2>9 DEF RegistryInv
<1>7. CASE ~(task.stage = "stopped" /\ ReleaseAllows(entry.creation))
  <2>1. entry' = CloseFails(entry) /\ UNCHANGED <<grant, hist>> BY <1>7 DEF FinishClosure
  <2>2. /\ entry' \in EntryType /\ ~entry'.running /\ entry'.creation = entry.creation
        /\ entry'.header = entry.header /\ entry'.input = entry.input
        /\ entry'.openers = entry.openers /\ entry'.settled = entry.settled
        /\ entry'.closing = entry.closing /\ entry'.checkpoint = entry.checkpoint
        /\ entry'.result = entry.result
    BY <1>1, <2>1 DEF CloseFails, Types, EntryType
  <2>3. TypeOK'
    <3>1. Types' BY <1>1, <1>2, <1>3, <1>4, <2>1, <2>2 DEF Types
    <3>2. ResultIsLast' BY <1>1, <2>2 DEF ResultIsLast
    <3>3. QED BY <3>1, <3>2, TypeSplitNext
  <2>4. RecordInv' BY <1>1, <1>2, <1>4, <2>1, <2>2 DEF RecordInv
  <2>5. OpeningInv' BY <1>1, <1>2, <2>1, <2>2 DEF OpeningInv
  <2>6. GrainInv' BY <1>1, <1>2, <1>4, <2>1, <2>2 DEF GrainInv, OneOwner, Owner
  <2>7. CloseInv'
    <3>1. ASSUME NEW n \in DOMAIN closes PROVE CloseFits(closes[n])'
      <4>1. CloseFits(closes[n]) BY <1>1 DEF CloseInv
      <4>2. QED BY <1>2, <1>4, <2>1, <2>2, <4>1 DEF CloseFits, Heard
    <3>2. QED BY <1>1, <1>2, <1>4, <3>1 DEF CloseInv, InOrder, AwaitedIsLast
  <2>8. HistoryInv' BY <1>1, <2>1 DEF HistoryInv
  <2>9. QED BY <2>3, <2>4, <2>5, <2>6, <2>7, <2>8 DEF RegistryInv
<1>8. QED BY <1>6, <1>7

LEMMA StopRegistryKeeps == ASSUME RegistryInv, StopRegistry PROVE RegistryInv'
<1>1. Types /\ ResultIsLast /\ RecordInv /\ OpeningInv /\ GrainInv /\ CloseInv /\ HistoryInv
  BY TypeSplit DEF RegistryInv
<1>2. /\ up' = FALSE /\ entry' = NewEntry(NoCreation) /\ task' = NoTask
      /\ calls' = Answered(entry.openers \cup entry.closers)
      /\ UNCHANGED <<grant, opening, closes, grain, hist, spent>>
  BY DEF StopRegistry
<1>3. entry' \in EntryType /\ ~entry'.running /\ ~entry'.checkpoint /\ ~entry'.result
  BY <1>2, InitialTypes DEF NewEntry
<1>4. task' \in TaskType /\ task'.stage = "none" BY <1>2, InitialTypes DEF NoTask
<1>5. TypeOK'
  <2>1. calls' \in [Callers -> CallType] BY <1>1, <1>2, AnsweredTypes DEF Types
  <2>2. Types' BY <1>1, <1>2, <1>3, <1>4, <2>1 DEF Types
  <2>3. ResultIsLast' BY <1>3 DEF ResultIsLast
  <2>4. QED BY <2>2, <2>3, TypeSplitNext
<1>6. RecordInv' BY <1>1, <1>2, <1>3, <1>4 DEF RecordInv
<1>7. OpeningInv' BY <1>1, <1>2 DEF OpeningInv
<1>8. GrainInv' BY <1>1, <1>2, <1>3, <1>4 DEF GrainInv, OneOwner, Owner
<1>9. CloseInv'
  <2>1. ASSUME NEW n \in DOMAIN closes PROVE CloseFits(closes[n])'
    <3>1. CloseFits(closes[n]) BY <1>1 DEF CloseInv
    <3>2. QED BY <1>2, <1>3, <1>4, <3>1 DEF CloseFits, Heard
  <2>2. QED BY <1>1, <1>2, <1>4, <2>1 DEF CloseInv, InOrder, AwaitedIsLast
<1>10. HistoryInv' BY <1>1, <1>2 DEF HistoryInv
<1>11. QED BY <1>5, <1>6, <1>7, <1>8, <1>9, <1>10 DEF RegistryInv


-----------------------------------------------------------------------------
(* The Session Grain.                                                      *)

\* What any request finds when it activates the Grain.
LEMMA ActiveFacts ==
  ASSUME Types, GrainInv, MayActivate
  PROVE  /\ Active \in GrainType /\ Activated \in SpentType /\ Active.inst # 0
         /\ Active.phase = grain.phase
         /\ grain.phase # "empty" => Active = grain
<1>1. CASE grain.inst = 0
  <2>1. grain.phase = "empty" BY <1>1 DEF GrainInv
  <2>2. spent.inst + 1 \in 1 .. MaxInst /\ spent \in SpentType
    BY <1>1, RegistryAssumption DEF MayActivate, Types, SpentType
  <2>3. Active = [NoGrain EXCEPT !.inst = spent.inst + 1] /\ Activated = [spent EXCEPT !.inst = @ + 1]
    BY <1>1 DEF Active, Activated
  <2>4. Activated \in SpentType BY <2>2, <2>3 DEF SpentType
  <2>5. Active \in GrainType /\ Active.inst = spent.inst + 1 /\ Active.phase = "empty"
    <3>1. NoGrain \in GrainType /\ NoGrain.phase = "empty" BY InitialTypes DEF NoGrain
    <3>2. spent.inst + 1 \in 0 .. MaxInst BY <2>2
    <3>3. QED BY <2>3, <3>1, <3>2 DEF GrainType
  <2>6. QED BY <2>1, <2>2, <2>4, <2>5
<1>2. CASE grain.inst # 0 BY <1>2 DEF Active, Activated, Types
<1>3. QED BY <1>1, <1>2

\* A step of the Grain on its initialization: no close waits, and none is new.
LEMMA OpeningStepKeeps ==
  ASSUME RegistryInv, opening # NoOpening, opening' # NoOpening,
         UNCHANGED <<up, entry, closes, task, calls>>,
         Types', OpeningInv', GrainInv', HistoryInv',
         grant'.creation = grant.creation, grant'.retired = grant.retired, grant' # NoGrant,
         hist'.acked = hist.acked
  PROVE  RegistryInv'
<1>1. Types /\ ResultIsLast /\ RecordInv /\ OpeningInv /\ GrainInv /\ CloseInv
  BY TypeSplit DEF RegistryInv
<1>2. TypeOK' BY <1>1, TypeSplitNext DEF ResultIsLast
<1>3. RecordInv'
  <2>1. grant # NoGrant BY <1>1 DEF OpeningInv
  <2>2. QED BY <1>1, <2>1 DEF RecordInv
<1>4. task.stage # "stopped" BY <1>1 DEF RecordInv, NoTask
<1>5. CloseInv'
  <2>1. ASSUME NEW n \in DOMAIN closes PROVE CloseFits(closes[n])'
    <3>1. CloseFits(closes[n]) BY <1>1 DEF CloseInv
    <3>2. Heard(closes[n]) /\ closes[n].creation # grant.creation BY <3>1 DEF CloseFits
    <3>3. closes[n].at # "mail" /\ closes[n].at # "drain" BY <3>2 DEF Heard
    <3>4. QED BY <1>4, <3>1, <3>2, <3>3 DEF CloseFits, Heard
  <2>2. QED BY <1>1, <2>1 DEF CloseInv, InOrder, AwaitedIsLast
<1>6. QED BY <1>2, <1>3, <1>5 DEF RegistryInv

LEMMA TakeOpenKeeps == ASSUME RegistryInv, TakeOpen PROVE RegistryInv'
<1>1. Types /\ RecordInv /\ OpeningInv /\ GrainInv /\ HistoryInv BY TypeSplit DEF RegistryInv
<1>2. /\ opening.at = "mail" /\ MayActivate /\ spent' = Activated
      /\ UNCHANGED <<up, grant, entry, closes, task, calls, hist>>
      /\ \/ /\ grain' = Active /\ opening' = [opening EXCEPT !.at = "err"]
         \/ /\ grain.phase = "open" /\ grain.creation = opening.creation
            /\ grain' = Active /\ opening' = [opening EXCEPT !.at = "ok"]
         \/ /\ grain.phase \notin {"open", "admitting", "restoring"}
            /\ grain' = [Active EXCEPT !.phase = "admitting"]
            /\ opening' = [opening EXCEPT !.at = "claim"]
  BY DEF TakeOpen, Busy, registryVars
<1>3. /\ Active \in GrainType /\ Activated \in SpentType /\ Active.inst # 0
      /\ Active.phase = grain.phase /\ (grain.phase # "empty" => Active = grain)
  BY <1>1, <1>2, ActiveFacts
<1>4. /\ opening # NoOpening /\ opening.creation = grant.creation /\ grant # NoGrant
      /\ ~grant.retired /\ grain.phase \notin {"restoring", "admitting"}
  BY <1>1, <1>2 DEF OpeningInv, NoOpening
<1>5. /\ opening' \in OpeningType /\ opening'.creation = opening.creation
      /\ opening'.mode = opening.mode /\ opening'.at \in {"err", "ok", "claim"}
  BY <1>1, <1>2 DEF Types, OpeningType, Unanswered
<1>6. grain' \in GrainType /\ grain'.inst # 0
      /\ (grain'.phase = "open" <=> grain.phase = "open") /\ (grain'.phase # "restoring")
      /\ (grain'.phase = "admitting" <=> opening'.at = "claim")
      /\ (grain.phase = "open" => grain' = grain)
  <2>1. CASE grain' = Active /\ opening'.at # "claim" BY <1>1, <1>3, <1>4, <2>1 DEF Types
  <2>2. CASE /\ grain.phase \notin {"open", "admitting", "restoring"}
             /\ grain' = [Active EXCEPT !.phase = "admitting"] /\ opening'.at = "claim"
    BY <1>3, <2>2 DEF GrainType
  <2>3. QED
    <3>1. opening' = [opening EXCEPT !.at = "err"] => opening'.at = "err"
      BY <1>1 DEF Types, OpeningType
    <3>2. opening' = [opening EXCEPT !.at = "ok"] => opening'.at = "ok"
      BY <1>1 DEF Types, OpeningType
    <3>3. opening' = [opening EXCEPT !.at = "claim"] => opening'.at = "claim"
      BY <1>1 DEF Types, OpeningType
    <3>4. QED BY <1>2, <2>1, <2>2, <3>1, <3>2, <3>3
<1>7. Types' BY <1>1, <1>2, <1>3, <1>5, <1>6 DEF Types
<1>8. OpeningInv'
  <2>1. opening'.mode \in Modes /\ (up => opening'.mode = entry.input)
    BY <1>1, <1>4, <1>5 DEF OpeningInv
  <2>2. QED BY <1>2, <1>4, <1>5, <1>6, <2>1 DEF OpeningInv
<1>9. GrainInv'
  <2>1. OneOwner' BY <1>1, <1>2, <1>6 DEF GrainInv, OneOwner, Owner
  <2>2. task.stage # "stopped" /\ ~entry.checkpoint
    BY <1>1, <1>4 DEF RecordInv, NoTask, NewEntry
  <2>3. opening'.at = "ok" => grain.phase = "open"
    BY <1>1, <1>2 DEF Types, OpeningType
  <2>4. grain.phase = "open" => grain.inst = grant.instance BY <1>1 DEF GrainInv, OneOwner
  <2>5. QED BY <1>1, <1>2, <1>4, <1>6, <2>1, <2>2, <2>3, <2>4 DEF GrainInv
<1>10. HistoryInv' BY <1>1, <1>2 DEF HistoryInv
<1>11. opening' # NoOpening BY <1>5 DEF NoOpening
<1>12. QED BY <1>2, <1>4, <1>7, <1>8, <1>9, <1>10, <1>11, OpeningStepKeeps

\* A Claim that is granted writes the instance of the activation that asks; if
\* the creation opened before, that instance was there already.
LEMMA ClaimedGrant ==
  ASSUME RegistryInv, grant # NoGrant, ~grant.retired, grant.instance \in {0, grain.inst},
         grant' = [grant EXCEPT !.instance = grain.inst]
  PROVE  /\ grant' \in GrantType /\ grant'.creation = grant.creation
         /\ grant'.retired = grant.retired /\ grant'.instance = grain.inst /\ grant' # NoGrant
         /\ grant.instance # 0 => grant' = grant
         /\ grain.phase \in {"restoring", "open"} => grant.instance # 0
         /\ hist.owners[grant.creation] # {} => grant.instance # 0
         /\ (up /\ entry.header) \/ opening.at = "ok" => grant.instance # 0
<1>1. Types /\ RecordInv /\ GrainInv /\ HistoryInv BY TypeSplit DEF RegistryInv
<1>2. /\ grant' \in GrantType /\ grant'.creation = grant.creation
      /\ grant'.retired = grant.retired /\ grant'.instance = grain.inst
      /\ grant.instance # 0 => grant' = grant
  BY <1>1 DEF Types, GrantType, GrainType
<1>3. grant.creation # NoCreation /\ grant.creation \in Creation
  BY <1>1 DEF RecordInv, Types, GrantType
<1>4. grant' # NoGrant BY <1>2, <1>3 DEF NoGrant
<1>5. grain.phase \in {"restoring", "open"} => grant.instance # 0
  BY <1>1 DEF GrainInv, OneOwner
<1>6. hist.owners[grant.creation] # {} => grant.instance # 0
  <2>1. SUFFICES ASSUME hist.owners[grant.creation] # {}, grant.instance = 0 PROVE FALSE OBVIOUS
  <2>2. grant.creation \notin hist.acked BY <1>1 DEF HistoryInv
  <2>3. hist.owners[grant.creation] = {0} BY <1>1, <1>3, <2>1, <2>2 DEF HistoryInv
  <2>4. hist.owners[grant.creation] \subseteq 1 .. MaxInst BY <1>1, <1>3 DEF Types, HistType
  <2>5. QED BY <2>3, <2>4
<1>7. (up /\ entry.header) \/ opening.at = "ok" => grant.instance # 0
  <2>1. SUFFICES ASSUME (up /\ entry.header) \/ opening.at = "ok", grant.instance = 0 PROVE FALSE
    OBVIOUS
  <2>2. 0 \in hist.lost \/ (grain.phase = "open" /\ grain.inst = 0) BY <1>1, <2>1 DEF GrainInv
  <2>3. 0 \notin hist.lost BY <1>1 DEF Types, HistType
  <2>4. QED BY <1>1, <2>2, <2>3 DEF GrainInv
<1>8. QED BY <1>2, <1>4, <1>5, <1>6, <1>7

LEMMA ClaimForOpenKeeps == ASSUME RegistryInv, ClaimForOpen PROVE RegistryInv'
<1>1. Types /\ RecordInv /\ OpeningInv /\ GrainInv /\ HistoryInv BY TypeSplit DEF RegistryInv
<1>2. /\ opening.at = "claim"
      /\ UNCHANGED <<up, entry, closes, task, grain, calls, hist, spent>>
      /\ \/ /\ ~grant.retired /\ grant.instance \in {0, grain.inst}
            /\ grant' = [grant EXCEPT !.instance = grain.inst]
            /\ opening' = [opening EXCEPT !.at = "claimed"]
         \/ opening' = [opening EXCEPT !.at = "refused"] /\ UNCHANGED grant
  BY DEF ClaimForOpen, ClaimAllows
<1>3. /\ opening # NoOpening /\ opening.creation = grant.creation /\ grant # NoGrant
      /\ ~grant.retired /\ grain.phase = "admitting" /\ opening.mode \in Modes
  BY <1>1, <1>2 DEF OpeningInv, NoOpening
<1>4. /\ opening' \in OpeningType /\ opening'.creation = opening.creation
      /\ opening'.mode = opening.mode /\ opening'.at \in {"claimed", "refused"}
  BY <1>1, <1>2 DEF Types, OpeningType, Unanswered
<1>5. /\ grant' \in GrantType /\ grant'.creation = grant.creation
      /\ grant'.retired = grant.retired /\ grant' # NoGrant
      /\ grant' = grant \/ grant.instance = 0
      /\ (grant.instance = 0 => hist.owners[grant.creation] = {} /\ ~(up /\ entry.header)) \/ grant' = grant
      /\ opening'.at = "claimed" => grant'.instance = grain.inst
  <2>1. CASE /\ grant.instance \in {0, grain.inst} /\ grant' = [grant EXCEPT !.instance = grain.inst]
    BY <1>3, <2>1, ClaimedGrant
  <2>2. CASE grant' = grant /\ opening' = [opening EXCEPT !.at = "refused"]
    BY <1>1, <1>3, <2>2 DEF Types, OpeningType
  <2>3. QED BY <1>2, <2>1, <2>2
<1>6. Types' BY <1>1, <1>2, <1>4, <1>5 DEF Types
<1>7. OpeningInv' BY <1>1, <1>2, <1>3, <1>4, <1>5 DEF OpeningInv, NoOpening
<1>8. GrainInv' BY <1>1, <1>2, <1>3, <1>4, <1>5 DEF GrainInv, OneOwner
<1>9. HistoryInv' BY <1>1, <1>2, <1>5 DEF HistoryInv
<1>10. opening' # NoOpening BY <1>4 DEF NoOpening
<1>11. QED BY <1>2, <1>3, <1>5, <1>6, <1>7, <1>8, <1>9, <1>10, OpeningStepKeeps


\* History remembers the activation in which a creation opens.
Opens == hist' = [hist EXCEPT !.owners[opening.creation] = @ \cup {grain.inst}]

\* A Session opens: only the activation its reservation names ever opened it.
LEMMA OpenedHistory ==
  ASSUME RegistryInv, opening.creation = grant.creation, grant # NoGrant,
         grain.inst # 0, grant.instance = grain.inst, UNCHANGED grant,
         Opens
  PROVE  hist' \in HistType /\ hist'.acked = hist.acked /\ hist'.lost = hist.lost /\ HistoryInv'
<1>1. Types /\ RecordInv /\ HistoryInv BY TypeSplit DEF RegistryInv
<1> DEFINE o == grant.creation
           owns == hist.owners[o] \cup {grain.inst}
<1>2. o \in Creation /\ o \notin hist.acked
  BY <1>1 DEF RecordInv, Types, GrantType, HistoryInv
<1>3. grain.inst \in 1 .. MaxInst BY <1>1, RegistryAssumption DEF Types, GrainType
<1>4. owns \in SUBSET (1 .. MaxInst) BY <1>1, <1>2, <1>3 DEF Types, HistType
<1>5. owns = {grant.instance} BY <1>1, <1>2 DEF HistoryInv
<1>6. hist' = [hist EXCEPT !.owners = [@ EXCEPT ![o] = owns]] BY <1>1, <1>2 DEF Types, HistType, Opens
<1> HIDE DEF owns, o
<1>7. /\ hist'.owners = [hist.owners EXCEPT ![o] = owns] /\ hist'.acked = hist.acked
      /\ hist'.lost = hist.lost /\ hist' \in HistType
  <2> DEFINE ow == [hist.owners EXCEPT ![o] = owns]
  <2>1. ow \in [Creation -> SUBSET (1 .. MaxInst)] BY <1>1, <1>2, <1>4 DEF Types, HistType
  <2>2. hist' = [hist EXCEPT !.owners = ow] BY <1>6
  <2> HIDE DEF ow
  <2>3. hist' \in HistType /\ hist'.owners = ow /\ hist'.acked = hist.acked /\ hist'.lost = hist.lost
    BY <1>1, <2>1, <2>2 DEF Types, HistType
  <2>4. QED BY <2>3 DEF ow
<1>8. ASSUME NEW d \in Creation
      PROVE  /\ hist'.owners[d] # {} =>
                  d \in hist'.acked \/ (d = grant'.creation /\ hist'.owners[d] = {grant'.instance})
             /\ \A i, j \in hist'.owners[d] : i = j
  <2>1. CASE d = o
    <3>1. hist'.owners[d] = {grant.instance} BY <1>1, <1>5, <1>7, <2>1 DEF Types, HistType
    <3>2. QED BY <2>1, <3>1 DEF o
  <2>2. CASE d # o
    <3>1. hist'.owners[d] = hist.owners[d] BY <1>1, <1>7, <2>2 DEF Types, HistType
    <3>2. QED BY <1>1, <1>7, <3>1 DEF HistoryInv
  <2>3. QED BY <2>1, <2>2
<1>9. HistoryInv' BY <1>1, <1>7, <1>8 DEF HistoryInv
<1>10. QED BY <1>7, <1>9

LEMMA FinishAdmissionKeeps == ASSUME RegistryInv, FinishAdmission PROVE RegistryInv'
<1>1. Types /\ RecordInv /\ OpeningInv /\ GrainInv /\ HistoryInv BY TypeSplit DEF RegistryInv
<1> DEFINE Installed ==
             \E unwritten \in BOOLEAN :
               grain' = [grain EXCEPT !.phase = "open", !.creation = opening.creation, !.dirty = unwritten]
<1>2. /\ UNCHANGED <<up, grant, entry, closes, task, calls, spent>>
      /\ \/ /\ opening.at = "refused" /\ grain' = [grain EXCEPT !.phase = "empty"]
            /\ opening' = [opening EXCEPT !.at = "err"] /\ hist' = hist
         \/ /\ opening.at = "claimed" /\ grain' = [grain EXCEPT !.phase = "restoring"]
            /\ opening' = [opening EXCEPT !.at = "restoring"] /\ hist' = hist
         \/ /\ opening.at = "claimed"
            /\ Installed
            /\ opening' = [opening EXCEPT !.at = "ok"]
            /\ Opens
  BY DEF FinishAdmission, registryVars, Opens
<1> HIDE DEF Installed
<1>3. /\ opening # NoOpening /\ opening.creation = grant.creation /\ grant # NoGrant
      /\ ~grant.retired /\ grain.phase = "admitting" /\ opening.mode \in Modes
      /\ grain.inst # 0
  BY <1>1, <1>2 DEF OpeningInv, NoOpening, GrainInv
<1>4. /\ opening' \in OpeningType /\ opening'.creation = opening.creation
      /\ opening'.mode = opening.mode
      /\ \/ opening'.at = "err" /\ grain' = [grain EXCEPT !.phase = "empty"] /\ hist' = hist
         \/ /\ opening.at = "claimed" /\ opening'.at = "restoring"
            /\ grain' = [grain EXCEPT !.phase = "restoring"] /\ hist' = hist
         \/ /\ opening.at = "claimed" /\ opening'.at = "ok"
            /\ Installed
            /\ Opens
  BY <1>1, <1>2 DEF Types, OpeningType, Unanswered
<1>5. task.stage # "stopped" /\ ~entry.checkpoint
  BY <1>1, <1>3 DEF RecordInv, NoTask, NewEntry
<1>6. opening' # NoOpening BY <1>4 DEF NoOpening
<1>7. CASE opening'.at = "err" /\ grain' = [grain EXCEPT !.phase = "empty"] /\ hist' = hist
  <2>1. grain' \in GrainType /\ grain'.phase = "empty" BY <1>1, <1>7 DEF Types, GrainType
  <2>2. Types' BY <1>1, <1>2, <1>4, <1>7, <2>1 DEF Types
  <2>3. OpeningInv' BY <1>1, <1>2, <1>3, <1>4, <1>6, <1>7, <2>1 DEF OpeningInv
  <2>4. GrainInv' BY <1>1, <1>2, <1>3, <1>5, <1>7, <2>1 DEF GrainInv, OneOwner
  <2>5. HistoryInv' BY <1>1, <1>2, <1>7 DEF HistoryInv
  <2>6. QED BY <1>2, <1>3, <1>6, <1>7, <2>2, <2>3, <2>4, <2>5, OpeningStepKeeps
<1>8. CASE /\ opening.at = "claimed" /\ opening'.at = "restoring"
           /\ grain' = [grain EXCEPT !.phase = "restoring"] /\ hist' = hist
  <2>1. grain' \in GrainType /\ grain'.phase = "restoring" /\ grain'.inst = grain.inst
    BY <1>1, <1>8 DEF Types, GrainType
  <2>2. grant.instance = grain.inst BY <1>1, <1>8 DEF OpeningInv
  <2>3. Types' BY <1>1, <1>2, <1>4, <1>8, <2>1 DEF Types
  <2>4. OpeningInv' BY <1>1, <1>2, <1>3, <1>4, <1>6, <1>8, <2>1 DEF OpeningInv
  <2>5. GrainInv' BY <1>1, <1>2, <1>3, <1>4, <1>5, <1>8, <2>1, <2>2 DEF GrainInv, OneOwner, Owner
  <2>6. HistoryInv' BY <1>1, <1>2, <1>8 DEF HistoryInv
  <2>7. QED BY <1>2, <1>3, <1>6, <1>8, <2>3, <2>4, <2>5, <2>6, OpeningStepKeeps
<1>9. CASE /\ opening.at = "claimed" /\ opening'.at = "ok"
           /\ Installed
           /\ Opens
  <2>1. /\ grain' \in GrainType /\ grain'.phase = "open" /\ grain'.inst = grain.inst
        /\ grain'.creation = opening.creation
    BY <1>1, <1>9 DEF Types, GrainType, OpeningType, Installed
  <2>2. grant.instance = grain.inst BY <1>1, <1>9 DEF OpeningInv
  <2>3. hist' \in HistType /\ hist'.acked = hist.acked /\ HistoryInv'
    BY <1>1, <1>2, <1>3, <1>9, <2>2, OpenedHistory
  <2>4. Types' BY <1>1, <1>2, <1>4, <2>1, <2>3 DEF Types
  <2>5. OpeningInv' BY <1>1, <1>2, <1>3, <1>4, <1>6, <1>9, <2>1 DEF OpeningInv
  <2>6. GrainInv' BY <1>1, <1>2, <1>3, <1>5, <1>9, <2>1, <2>2 DEF GrainInv, OneOwner, Owner
  <2>7. QED BY <1>2, <1>3, <1>6, <2>3, <2>4, <2>5, <2>6, OpeningStepKeeps
<1>10. QED BY <1>4, <1>7, <1>8, <1>9

LEMMA FinishResumeKeeps == ASSUME RegistryInv, FinishResume PROVE RegistryInv'
<1>1. Types /\ RecordInv /\ OpeningInv /\ GrainInv /\ HistoryInv BY TypeSplit DEF RegistryInv
<1>2. /\ opening.at = "restoring" /\ UNCHANGED <<up, grant, entry, closes, task, calls>>
      /\ \/ /\ grain' = [grain EXCEPT !.phase = "open", !.creation = opening.creation]
            /\ opening' = [opening EXCEPT !.at = "ok"]
            /\ Opens
            /\ UNCHANGED spent
         \/ /\ Fault /\ grain' = [grain EXCEPT !.phase = "empty"]
            /\ opening' = [opening EXCEPT !.at = "err"] /\ UNCHANGED hist
  BY DEF FinishResume, registryVars, Opens
<1>3. /\ opening # NoOpening /\ opening.creation = grant.creation /\ grant # NoGrant
      /\ ~grant.retired /\ grain.phase = "restoring" /\ opening.mode \in Modes
      /\ grain.inst # 0 /\ grant.instance = grain.inst
  BY <1>1, <1>2 DEF OpeningInv, NoOpening, GrainInv, OneOwner
<1>4. task.stage # "stopped" /\ ~entry.checkpoint
  BY <1>1, <1>3 DEF RecordInv, NoTask, NewEntry
<1>5. spent' \in SpentType BY <1>1, <1>2, FaultTypes DEF Types
<1>6. CASE /\ grain' = [grain EXCEPT !.phase = "open", !.creation = opening.creation]
           /\ opening' = [opening EXCEPT !.at = "ok"]
           /\ Opens
  <2>1. /\ grain' \in GrainType /\ grain'.phase = "open" /\ grain'.inst = grain.inst
        /\ grain'.creation = opening.creation
    BY <1>1, <1>6 DEF Types, GrainType, OpeningType
  <2>2. /\ opening' \in OpeningType /\ opening'.creation = opening.creation
        /\ opening'.mode = opening.mode /\ opening'.at = "ok"
    BY <1>1, <1>6 DEF Types, OpeningType
  <2>3. hist' \in HistType /\ hist'.acked = hist.acked /\ HistoryInv'
    BY <1>2, <1>3, <1>6, OpenedHistory
  <2>4. Types' BY <1>1, <1>2, <1>5, <2>1, <2>2, <2>3 DEF Types
  <2>5. OpeningInv' BY <1>1, <1>2, <1>3, <2>1, <2>2 DEF OpeningInv
  <2>6. GrainInv' BY <1>1, <1>2, <1>3, <1>4, <2>1, <2>2 DEF GrainInv, OneOwner, Owner
  <2>7. opening' # NoOpening BY <2>2 DEF NoOpening
  <2>8. QED BY <1>2, <1>3, <2>3, <2>4, <2>5, <2>6, <2>7, OpeningStepKeeps
<1>7. CASE /\ grain' = [grain EXCEPT !.phase = "empty"] /\ opening' = [opening EXCEPT !.at = "err"]
           /\ UNCHANGED hist
  <2>1. grain' \in GrainType /\ grain'.phase = "empty" BY <1>1, <1>7 DEF Types, GrainType
  <2>2. /\ opening' \in OpeningType /\ opening'.creation = opening.creation
        /\ opening'.mode = opening.mode /\ opening'.at = "err"
    BY <1>1, <1>7 DEF Types, OpeningType
  <2>3. Types' BY <1>1, <1>2, <1>5, <1>7, <2>1, <2>2 DEF Types
  <2>4. OpeningInv' BY <1>1, <1>2, <1>3, <2>1, <2>2 DEF OpeningInv
  <2>5. GrainInv'
    <3>1. grant.instance \in hist.lost \/ ~(up /\ entry.header) BY <1>1, <1>3 DEF GrainInv
    <3>2. QED BY <1>1, <1>2, <1>3, <1>4, <1>7, <2>1, <2>2, <3>1 DEF GrainInv, OneOwner
  <2>6. HistoryInv' BY <1>1, <1>2, <1>7 DEF HistoryInv
  <2>7. opening' # NoOpening BY <2>2 DEF NoOpening
  <2>8. QED BY <1>2, <1>3, <1>7, <2>3, <2>4, <2>5, <2>6, <2>7, OpeningStepKeeps
<1>8. QED BY <1>2, <1>6, <1>7


LEMMA CommitKeeps == ASSUME RegistryInv, Commit PROVE RegistryInv'
<1>1. Types /\ ResultIsLast /\ RecordInv /\ OpeningInv /\ GrainInv /\ CloseInv /\ HistoryInv
  BY TypeSplit DEF RegistryInv
<1>2. /\ grain.phase = "open" /\ ~grain.closing /\ grain' = [grain EXCEPT !.dirty = TRUE]
      /\ UNCHANGED <<up, grant, entry, opening, closes, task, calls, hist, spent>>
  BY DEF Commit, registryVars
<1>3. /\ grain' \in GrainType /\ grain'.phase = "open" /\ ~grain'.closing
      /\ grain'.inst = grain.inst /\ grain'.creation = grain.creation
  BY <1>1, <1>2 DEF Types, GrainType
<1>4. TypeOK'
  <2>1. Types' BY <1>1, <1>2, <1>3 DEF Types
  <2>2. ResultIsLast' BY <1>1, <1>2 DEF ResultIsLast
  <2>3. QED BY <2>1, <2>2, TypeSplitNext
<1>5. RecordInv' BY <1>1, <1>2 DEF RecordInv
<1>6. OpeningInv' BY <1>1, <1>2, <1>3 DEF OpeningInv
<1>7. GrainInv' BY <1>1, <1>2, <1>3 DEF GrainInv, OneOwner, Owner
<1>8. CloseInv'
  <2>1. ASSUME NEW n \in DOMAIN closes PROVE CloseFits(closes[n])'
    <3>1. CloseFits(closes[n]) BY <1>1 DEF CloseInv
    <3>2. QED BY <1>2, <1>3, <3>1 DEF CloseFits, Heard
  <2>2. QED BY <1>1, <1>2, <2>1 DEF CloseInv, InOrder, AwaitedIsLast
<1>9. HistoryInv' BY <1>1, <1>2 DEF HistoryInv
<1>10. QED BY <1>4, <1>5, <1>6, <1>7, <1>8, <1>9 DEF RegistryInv

\* Answers change where the closes are, not which they are, and never back to
\* the mail.
LEMMA AnsweredClose ==
  ASSUME RegistryInv, closes' \in Seq(CloseType), Len(closes') = Len(closes),
         \A n \in DOMAIN closes :
           /\ closes'[n].attempt = closes[n].attempt /\ closes'[n].creation = closes[n].creation
           /\ closes'[n].at = "mail" => closes[n].at = "mail",
         \A m, n \in DOMAIN closes : m < n /\ closes'[m].at = "mail" => closes'[n].at = "mail",
         \A n \in DOMAIN closes : CloseFits(closes[n])',
         task'.stage = "business" => task' = task /\ grant'.creation = grant.creation
  PROVE  CloseInv'
<1>1. Types /\ CloseInv BY TypeSplit DEF RegistryInv
<1>2. DOMAIN closes' = DOMAIN closes /\ closes \in Seq(CloseType)
  BY <1>1, LenProperties DEF Types
<1>3. InOrder' BY <1>1, <1>2 DEF CloseInv, InOrder
<1>4. AwaitedIsLast'
  <2>1. SUFFICES ASSUME task'.stage = "business"
                 PROVE  /\ closes' # <<>> /\ closes'[Len(closes')].attempt = task'.attempt
                        /\ closes'[Len(closes')].creation = grant'.creation
    BY DEF AwaitedIsLast
  <2>2. Len(closes) \in Nat \ {0} /\ Len(closes) \in DOMAIN closes BY <2>1, AwaitedClose
  <2>3. closes' # <<>> BY <2>2, EmptySeq
  <2>4. QED BY <1>1, <2>1, <2>2, <2>3 DEF CloseInv, AwaitedIsLast
<1>5. QED BY <1>2, <1>3, <1>4 DEF CloseInv

LEMMA WriteEndsKeeps == ASSUME RegistryInv, WriteEnds PROVE RegistryInv'
<1>1. Types /\ ResultIsLast /\ RecordInv /\ OpeningInv /\ GrainInv /\ CloseInv /\ HistoryInv
  BY TypeSplit DEF RegistryInv
<1>2. /\ grain.phase = "open" /\ UNCHANGED <<up, grant, entry, opening, task, calls, hist>>
      /\ \/ grain' = [grain EXCEPT !.dirty = FALSE] /\ closes' = Draining("ok") /\ UNCHANGED spent
         \/ closes' = Draining("err") /\ Fault /\ UNCHANGED grain
  BY DEF WriteEnds, registryVars
<1>3. /\ grain' \in GrainType /\ grain'.phase = grain.phase /\ grain'.closing = grain.closing
      /\ grain'.inst = grain.inst /\ grain'.creation = grain.creation
      /\ grain'.dirty => grain.dirty
  <2>1. CASE grain' = [grain EXCEPT !.dirty = FALSE] BY <1>1, <2>1 DEF Types, GrainType
  <2>2. CASE UNCHANGED grain BY <1>1, <2>2 DEF Types
  <2>3. QED BY <1>2, <2>1, <2>2
<1>4. spent' \in SpentType BY <1>1, <1>2, FaultTypes DEF Types
<1>5. PICK at \in {"ok", "err"} : closes' = Draining(at) /\ (at = "ok" => ~grain'.dirty)
  <2>1. CASE grain' = [grain EXCEPT !.dirty = FALSE] /\ closes' = Draining("ok")
    <3>1. ~grain'.dirty BY <1>1, <2>1 DEF Types, GrainType
    <3>2. QED BY <2>1, <3>1
  <2>2. CASE closes' = Draining("err") BY <2>2
  <2>3. QED BY <1>2, <2>1, <2>2
<1>6. closes \in Seq(CloseType) /\ Len(closes) \in Nat /\ DOMAIN closes = 1 .. Len(closes)
  BY <1>1, LenProperties DEF Types
<1>7. ASSUME NEW n \in DOMAIN closes
      PROVE  /\ closes'[n] \in CloseType
             /\ closes'[n].attempt = closes[n].attempt /\ closes'[n].creation = closes[n].creation
             /\ \/ closes'[n] = closes[n] /\ closes[n].at # "drain"
                \/ closes[n].at = "drain" /\ closes'[n].at = at
  <2>1. closes[n] \in CloseType BY <1>6, ElementOfSeq
  <2>2. closes'[n] = IF closes[n].at = "drain" THEN [closes[n] EXCEPT !.at = at] ELSE closes[n]
    BY <1>5 DEF Draining
  <2>3. CASE closes[n].at = "drain"
    <3>1. closes'[n] = [closes[n] EXCEPT !.at = at] BY <2>2, <2>3
    <3>2. QED BY <1>5, <2>1, <2>3, <3>1 DEF CloseType
  <2>4. CASE closes[n].at # "drain" BY <2>1, <2>2, <2>4
  <2>5. QED BY <2>3, <2>4
<1>8. closes' \in Seq(CloseType) /\ Len(closes') = Len(closes) /\ DOMAIN closes' = DOMAIN closes
  <2>1. closes' = [n \in 1 .. Len(closes) |->
                     IF closes[n].at = "drain" THEN [closes[n] EXCEPT !.at = at] ELSE closes[n]]
    BY <1>5, <1>6 DEF Draining
  <2>2. \A n \in 1 .. Len(closes) : closes'[n] \in CloseType BY <1>6, <1>7
  <2>3. QED BY <1>6, <2>1, <2>2
<1>9. TypeOK'
  <2>1. Types' BY <1>1, <1>2, <1>3, <1>4, <1>8 DEF Types
  <2>2. ResultIsLast' BY <1>1, <1>2 DEF ResultIsLast
  <2>3. QED BY <2>1, <2>2, TypeSplitNext
<1>10. RecordInv' BY <1>1, <1>2 DEF RecordInv
<1>11. OpeningInv' BY <1>1, <1>2, <1>3 DEF OpeningInv
<1>12. GrainInv' BY <1>1, <1>2, <1>3 DEF GrainInv, OneOwner, Owner
<1>13. CloseInv'
  <2>1. ASSUME NEW n \in DOMAIN closes PROVE CloseFits(closes[n])'
    <3>1. CloseFits(closes[n]) BY <1>1 DEF CloseInv
    <3>2. CASE closes'[n] = closes[n] BY <1>2, <1>3, <3>1, <3>2 DEF CloseFits, Heard
    <3>3. CASE closes[n].at = "drain" /\ closes'[n].at = at
      <4>1. closes'[n].at \in {"ok", "err"} /\ closes'[n].creation = closes[n].creation
        BY <1>7, <3>3
      <4>2. ~Heard(closes[n]) BY <3>3 DEF Heard
      <4>3. closes'[n].at = "ok" => ~grain'.dirty BY <1>5, <3>3
      <4>4. grain.closing BY <3>1, <3>3 DEF CloseFits
      <4>5. QED BY <1>2, <1>3, <3>1, <4>1, <4>2, <4>3, <4>4 DEF CloseFits, Heard
    <3>4. QED BY <1>7, <3>2, <3>3
  <2>2. ASSUME NEW n \in DOMAIN closes PROVE closes'[n].at = "mail" <=> closes[n].at = "mail"
    BY <1>5, <1>7
  <2>3. \A m, n \in DOMAIN closes : m < n /\ closes'[m].at = "mail" => closes'[n].at = "mail"
    BY <1>1, <2>2 DEF CloseInv, InOrder
  <2>4. \A n \in DOMAIN closes :
          /\ closes'[n].attempt = closes[n].attempt /\ closes'[n].creation = closes[n].creation
          /\ closes'[n].at = "mail" => closes[n].at = "mail"
    BY <1>7, <2>2
  <2>5. task'.stage = "business" => task' = task /\ grant'.creation = grant.creation BY <1>2
  <2>6. QED BY <1>8, <2>1, <2>3, <2>4, <2>5, AnsweredClose
<1>14. HistoryInv' BY <1>1, <1>2 DEF HistoryInv
<1>15. QED BY <1>9, <1>10, <1>11, <1>12, <1>13, <1>14 DEF RegistryInv


\* One close in flight moves on.
LEMMA BecomesFacts ==
  ASSUME Types, NEW n \in DOMAIN closes, NEW at \in Unanswered \cup {"mail", "ok", "err"},
         Becomes(n, at)
  PROVE  /\ closes' \in Seq(CloseType) /\ Len(closes') = Len(closes) /\ DOMAIN closes' = DOMAIN closes
         /\ closes'[n].at = at /\ closes'[n].attempt = closes[n].attempt
         /\ closes'[n].creation = closes[n].creation
         /\ \A m \in DOMAIN closes : m # n => closes'[m] = closes[m]
<1>1. closes \in Seq(CloseType) /\ DOMAIN closes = 1 .. Len(closes)
  BY LenProperties DEF Types
<1> DEFINE r == [closes[n] EXCEPT !.at = at]
<1>2. closes[n] \in CloseType BY <1>1, ElementOfSeq
<1>3. /\ r \in CloseType /\ r.at = at /\ r.attempt = closes[n].attempt
      /\ r.creation = closes[n].creation
  BY <1>2 DEF CloseType
<1>4. closes' = [closes EXCEPT ![n] = r] BY DEF Becomes
<1> HIDE DEF r
<1>5. /\ closes' \in Seq(CloseType) /\ Len(closes') = Len(closes)
      /\ \A m \in 1 .. Len(closes) : closes'[m] = IF m = n THEN r ELSE closes[m]
  BY <1>1, <1>3, <1>4, ExceptSeq
<1>6. DOMAIN closes' = DOMAIN closes BY <1>1, <1>5, LenProperties
<1>7. QED BY <1>1, <1>3, <1>5, <1>6

\* A step that takes or answers one close: its creation still holds the
\* reservation, no initialization is in flight, and the Grain keeps its log.
LEMMA CloseStepKeeps ==
  ASSUME RegistryInv, NEW n \in DOMAIN closes, ~Heard(closes[n]),
         NEW at \in Unanswered \cup {"ok", "err"}, Becomes(n, at),
         FirstInMail(n) \/ closes[n].at # "mail",
         UNCHANGED <<up, entry, opening, task, calls, hist>>, spent' \in SpentType,
         grain' \in GrainType, grain'.phase = grain.phase,
         grain.phase = "open" =>
           /\ grain'.inst = grain.inst /\ grain'.creation = grain.creation
           /\ grain'.dirty = grain.dirty /\ (grain.closing => grain'.closing),
         at = "drain" => grain'.phase = "open" /\ grain'.closing,
         at = "ok" /\ grain'.phase = "open" => grain'.closing /\ ~grain'.dirty,
         \/ UNCHANGED grant
         \/ /\ UNCHANGED grain /\ ~grant.retired /\ grant.instance \in {0, grain.inst}
            /\ grant' = [grant EXCEPT !.instance = grain.inst]
  PROVE  RegistryInv'
<1>1. Types /\ ResultIsLast /\ RecordInv /\ OpeningInv /\ GrainInv /\ CloseInv /\ HistoryInv
  BY TypeSplit DEF RegistryInv
<1>2. /\ closes' \in Seq(CloseType) /\ Len(closes') = Len(closes) /\ DOMAIN closes' = DOMAIN closes
      /\ closes'[n].at = at /\ closes'[n].attempt = closes[n].attempt
      /\ closes'[n].creation = closes[n].creation
      /\ \A m \in DOMAIN closes : m # n => closes'[m] = closes[m]
  BY <1>1, BecomesFacts
<1>3. /\ closes[n].creation = grant.creation /\ closes[n].creation \in Creation
      /\ opening = NoOpening /\ ~(up /\ ~entry.closing) /\ task.stage # "stopped"
  <2>1. CloseFits(closes[n]) BY <1>1 DEF CloseInv
  <2>2. closes[n] \in CloseType BY <1>1, ElementOfSeq, LenProperties DEF Types
  <2>3. QED BY <2>1, <2>2 DEF CloseFits, CloseType
<1>4. grant # NoGrant BY <1>3, RegistryAssumption DEF NoGrant
<1>5. grain.phase \in {"empty", "open"}
  BY <1>1, <1>3 DEF OpeningInv, NoOpening, Types, GrainType
<1>6. /\ grant' \in GrantType /\ grant'.creation = grant.creation
      /\ grant'.retired = grant.retired /\ grant' # NoGrant
      /\ grain.phase = "open" => grant' = grant
      /\ hist.owners[grant.creation] # {} => grant' = grant
      /\ up /\ entry.header => grant' = grant
  <2>1. CASE UNCHANGED grant BY <1>1, <1>4, <2>1 DEF Types
  <2>2. CASE /\ ~grant.retired /\ grant.instance \in {0, grain.inst}
             /\ grant' = [grant EXCEPT !.instance = grain.inst]
    BY <1>4, <2>2, ClaimedGrant
  <2>3. QED BY <2>1, <2>2
<1>7. TypeOK'
  <2>1. Types' BY <1>1, <1>2, <1>6 DEF Types
  <2>2. ResultIsLast' BY <1>1 DEF ResultIsLast
  <2>3. QED BY <2>1, <2>2, TypeSplitNext
<1>8. RecordInv' BY <1>1, <1>4, <1>6 DEF RecordInv
<1>9. OpeningInv' BY <1>1, <1>3, <1>5 DEF OpeningInv, NoOpening
<1>10. GrainInv'
  <2>1. opening'.at # "ok" BY <1>3 DEF NoOpening
  <2>2. CASE grain.phase = "empty"
    BY <1>1, <1>3, <1>4, <1>6, <2>1, <2>2 DEF GrainInv, OneOwner
  <2>3. CASE grain.phase = "open"
    BY <1>1, <1>3, <1>4, <1>6, <2>1, <2>3 DEF GrainInv, OneOwner, Owner
  <2>4. QED BY <1>5, <2>2, <2>3
<1>11. CloseInv'
  <2>1. at # "mail" BY DEF Unanswered
  <2>2. CloseFits(closes[n])' BY <1>1, <1>2, <1>3, <1>6, <2>1 DEF CloseFits, Heard
  <2>3. ASSUME NEW m \in DOMAIN closes, m # n PROVE CloseFits(closes[m])'
    <3>1. CloseFits(closes[m]) BY <1>1 DEF CloseInv
    <3>2. closes'[m] = closes[m] BY <1>2, <2>3
    <3>3. QED BY <1>6, <3>1, <3>2 DEF CloseFits, Heard
  <2>4. \A m \in DOMAIN closes : CloseFits(closes[m])' BY <2>2, <2>3
  <2>5. ASSUME NEW m \in DOMAIN closes, NEW q \in DOMAIN closes, m < q, closes'[m].at = "mail"
        PROVE  closes'[q].at = "mail"
    <3>1. m # n /\ closes[m].at = "mail" BY <1>2, <2>1, <2>5
    <3>2. closes[q].at = "mail" BY <1>1, <2>5, <3>1 DEF CloseInv, InOrder
    <3>3. q # n BY <2>5, <3>1, <3>2 DEF FirstInMail
    <3>4. QED BY <1>2, <3>2, <3>3
  <2>6. \A m \in DOMAIN closes :
          /\ closes'[m].attempt = closes[m].attempt /\ closes'[m].creation = closes[m].creation
          /\ closes'[m].at = "mail" => closes[m].at = "mail"
    BY <1>2, <2>1
  <2>7. task'.stage = "business" => task' = task /\ grant'.creation = grant.creation BY <1>6
  <2>8. QED BY <1>2, <2>4, <2>5, <2>6, <2>7, AnsweredClose
<1>12. HistoryInv' BY <1>1, <1>6 DEF HistoryInv
<1>13. QED BY <1>7, <1>8, <1>9, <1>10, <1>11, <1>12 DEF RegistryInv

LEMMA TakeCloseKeeps == ASSUME RegistryInv, NEW n \in DOMAIN closes, TakeClose(n) PROVE RegistryInv'
<1>1. Types /\ GrainInv /\ OpeningInv BY TypeSplit DEF RegistryInv
<1>2. /\ FirstInMail(n) /\ MayActivate /\ spent' = Activated
      /\ UNCHANGED <<up, grant, entry, opening, task, calls, hist>>
  BY DEF TakeClose, registryVars
<1>3. ~Heard(closes[n]) BY <1>2 DEF FirstInMail, Heard
<1>4. /\ Active \in GrainType /\ Activated \in SpentType /\ Active.phase = grain.phase
      /\ (grain.phase # "empty" => Active = grain)
  BY <1>1, <1>2, ActiveFacts
<1>5. CASE grain.phase = "open" /\ grain.creation # closes[n].creation
  <2>1. grain' = grain /\ Becomes(n, "err") BY <1>5 DEF TakeClose, Busy
  <2>2. QED BY <1>1, <1>2, <1>3, <1>4, <2>1, CloseStepKeeps DEF Types
<1>6. CASE grain.phase = "open" /\ grain.creation = closes[n].creation
  <2>1. /\ grain' = [grain EXCEPT !.closing = TRUE]
        /\ Becomes(n, IF grain.dirty THEN "drain" ELSE "ok")
    BY <1>6 DEF TakeClose, Busy
  <2>2. /\ grain' \in GrainType /\ grain'.phase = grain.phase /\ grain'.closing
        /\ grain'.inst = grain.inst /\ grain'.creation = grain.creation /\ grain'.dirty = grain.dirty
    BY <1>1, <2>1 DEF Types, GrainType
  <2>3. PICK at \in {"drain", "ok"} :
          Becomes(n, at) /\ (at = "drain" => grain.dirty) /\ (at = "ok" => ~grain.dirty)
    <3>1. CASE grain.dirty
      <4>1. Becomes(n, "drain") BY <2>1, <3>1
      <4>2. QED BY <3>1, <4>1
    <3>2. CASE ~grain.dirty
      <4>1. Becomes(n, "ok") BY <2>1, <3>2
      <4>2. QED BY <3>2, <4>1
    <3>3. QED BY <3>1, <3>2
  <2>4. at \in Unanswered \cup {"ok", "err"} BY DEF Unanswered
  <2>5. QED BY <1>2, <1>3, <1>4, <1>6, <2>2, <2>3, <2>4, CloseStepKeeps
<1>7. CASE Busy
  <2>1. grain' = grain /\ Becomes(n, "err") BY <1>7 DEF TakeClose, Busy
  <2>2. QED BY <1>1, <1>2, <1>3, <1>4, <2>1, CloseStepKeeps DEF Types
<1>8. CASE grain.phase = "empty" /\ Active.closing
  <2>1. /\ grain' = grain
        /\ Becomes(n, IF grain.creation = closes[n].creation THEN "ok" ELSE "err")
    BY <1>8 DEF TakeClose, Busy
  <2>2. PICK at \in {"ok", "err"} : Becomes(n, at) BY <2>1
  <2>3. QED BY <1>1, <1>2, <1>3, <1>4, <1>8, <2>1, <2>2, CloseStepKeeps DEF Types
<1>9. CASE grain.phase = "empty" /\ ~Active.closing
  <2>1. grain' = Active /\ Becomes(n, "claim") BY <1>9 DEF TakeClose, Busy
  <2>2. "claim" \in Unanswered \cup {"ok", "err"} BY DEF Unanswered
  <2>3. QED BY <1>2, <1>3, <1>4, <1>9, <2>1, <2>2, CloseStepKeeps
<1>10. grain.phase \in {"empty", "admitting", "restoring", "open"} BY <1>1 DEF Types, GrainType
<1>11. QED BY <1>5, <1>6, <1>7, <1>8, <1>9, <1>10 DEF Busy

LEMMA ClaimForCloseKeeps ==
  ASSUME RegistryInv, NEW n \in DOMAIN closes, ClaimForClose(n) PROVE RegistryInv'
<1>1. Types BY TypeSplit DEF RegistryInv
<1>2. /\ closes[n].at = "claim" /\ UNCHANGED <<up, entry, opening, task, grain, calls, hist, spent>>
      /\ \/ /\ ~grant.retired /\ grant.instance \in {0, grain.inst}
            /\ grant' = [grant EXCEPT !.instance = grain.inst] /\ Becomes(n, "claimed")
         \/ Becomes(n, "refused") /\ UNCHANGED grant
  BY DEF ClaimForClose, ClaimAllows
<1>3. ~Heard(closes[n]) /\ closes[n].at # "mail" BY <1>2 DEF Heard
<1>4. PICK at \in {"claimed", "refused"} : Becomes(n, at) BY <1>2
<1>5. at \in Unanswered \cup {"ok", "err"} BY DEF Unanswered
<1>6. grain' \in GrainType /\ spent' \in SpentType BY <1>1, <1>2 DEF Types
<1>7. QED BY <1>2, <1>3, <1>4, <1>5, <1>6, CloseStepKeeps

LEMMA FinishEmptyCloseKeeps ==
  ASSUME RegistryInv, NEW n \in DOMAIN closes, FinishEmptyClose(n) PROVE RegistryInv'
<1>1. Types BY TypeSplit DEF RegistryInv
<1>2. closes[n] \in CloseType BY <1>1, ElementOfSeq, LenProperties DEF Types
<1>3. UNCHANGED <<up, grant, entry, opening, task, calls, hist, spent>>
  BY DEF FinishEmptyClose, registryVars
<1>4. CASE /\ closes[n].at = "claimed" /\ grain.phase = "empty"
           /\ grain' = [grain EXCEPT !.closing = TRUE, !.creation = closes[n].creation]
           /\ Becomes(n, "ok")
  <2>1. grain' \in GrainType /\ grain'.phase = "empty"
    BY <1>1, <1>2, <1>4 DEF Types, GrainType, CloseType
  <2>2. ~Heard(closes[n]) /\ closes[n].at # "mail" BY <1>4 DEF Heard
  <2>3. spent' \in SpentType BY <1>1, <1>3 DEF Types
  <2>4. QED BY <1>3, <1>4, <2>1, <2>2, <2>3, CloseStepKeeps
<1>5. CASE closes[n].at \in {"refused", "claimed"} /\ Becomes(n, "err") /\ UNCHANGED grain
  <2>1. ~Heard(closes[n]) /\ closes[n].at # "mail" BY <1>5 DEF Heard
  <2>2. grain' \in GrainType /\ spent' \in SpentType BY <1>1, <1>3, <1>5 DEF Types
  <2>3. QED BY <1>3, <1>5, <2>1, <2>2, CloseStepKeeps
<1>6. QED BY <1>4, <1>5 DEF FinishEmptyClose

LEMMA ClaimTimesOutKeeps == ASSUME RegistryInv, ClaimTimesOut PROVE RegistryInv'
<1>1. Types /\ RecordInv /\ OpeningInv /\ GrainInv /\ HistoryInv BY TypeSplit DEF RegistryInv
<1>2. /\ Fault /\ UNCHANGED <<up, grant, entry, task, grain, calls, hist>>
      /\ \/ /\ opening.at \in {"claim", "claimed"}
            /\ opening' = [opening EXCEPT !.at = "refused"] /\ UNCHANGED closes
         \/ /\ \E n \in DOMAIN closes : closes[n].at \in {"claim", "claimed"} /\ Becomes(n, "refused")
            /\ UNCHANGED opening
  BY DEF ClaimTimesOut, registryVars
<1>3. spent' \in SpentType BY <1>1, <1>2, FaultTypes DEF Types
<1>4. CASE /\ opening.at \in {"claim", "claimed"}
           /\ opening' = [opening EXCEPT !.at = "refused"] /\ UNCHANGED closes
  <2>1. /\ opening' \in OpeningType /\ opening'.at = "refused"
        /\ opening'.creation = opening.creation /\ opening'.mode = opening.mode
    BY <1>1, <1>4 DEF Types, OpeningType, Unanswered
  <2>2. opening # NoOpening /\ opening' # NoOpening BY <1>4, <2>1 DEF NoOpening
  <2>3. grain.phase = "admitting" BY <1>1, <1>4 DEF OpeningInv
  <2>4. Types' BY <1>1, <1>2, <1>3, <1>4, <2>1 DEF Types
  <2>5. OpeningInv' BY <1>1, <1>2, <2>1, <2>2, <2>3 DEF OpeningInv
  <2>6. GrainInv' BY <1>1, <1>2, <2>1, <2>3 DEF GrainInv, OneOwner
  <2>7. HistoryInv' BY <1>1, <1>2 DEF HistoryInv
  <2>8. grant' # NoGrant BY <1>1, <1>2, <2>2 DEF OpeningInv
  <2>9. QED BY <1>2, <1>4, <2>2, <2>4, <2>5, <2>6, <2>7, <2>8, OpeningStepKeeps
<1>5. CASE UNCHANGED opening /\ \E n \in DOMAIN closes :
             closes[n].at \in {"claim", "claimed"} /\ Becomes(n, "refused")
  <2>1. PICK n \in DOMAIN closes : closes[n].at \in {"claim", "claimed"} /\ Becomes(n, "refused")
    BY <1>5
  <2>2. ~Heard(closes[n]) /\ closes[n].at # "mail" BY <2>1 DEF Heard
  <2>3. "refused" \in Unanswered \cup {"ok", "err"} BY DEF Unanswered
  <2>4. grain' \in GrainType BY <1>1, <1>2 DEF Types
  <2>5. QED BY <1>2, <1>3, <1>5, <2>1, <2>2, <2>3, <2>4, CloseStepKeeps
<1>6. QED BY <1>2, <1>4, <1>5


-----------------------------------------------------------------------------
(* The theorems.                                                           *)

LEMMA InitialRegistry == Init => RegistryInv
<1> SUFFICES ASSUME Init PROVE RegistryInv OBVIOUS
<1>1. /\ up = TRUE /\ grant = NoGrant /\ entry = NewEntry(NoCreation) /\ opening = NoOpening
      /\ closes = <<>> /\ task = NoTask /\ grain = NoGrain
      /\ hist = [owners |-> [c \in Creation |-> {}], acked |-> {}, lost |-> {}]
  BY DEF Init
<1>2. TypeOK
  <2>1. calls \in [Callers -> CallType] BY InitialTypes DEF Init
  <2>2. hist \in HistType BY <1>1 DEF HistType
  <2>3. spent \in SpentType BY RegistryAssumption DEF Init, SpentType
  <2>4. closes \in Seq(CloseType) BY <1>1
  <2>5. Types BY <1>1, <2>1, <2>2, <2>3, <2>4, InitialTypes DEF Types
  <2>6. ResultIsLast BY <1>1 DEF ResultIsLast, NewEntry
  <2>7. QED BY <2>5, <2>6, TypeSplit
<1>3. RecordInv BY <1>1 DEF RecordInv, NoGrant, NewEntry, NoOpening, NoTask
<1>4. OpeningInv BY <1>1 DEF OpeningInv, NoOpening, NoGrain
<1>5. GrainInv BY <1>1 DEF GrainInv, OneOwner, NoGrain, NoTask
<1>6. CloseInv BY <1>1 DEF CloseInv, InOrder, AwaitedIsLast, NoTask
<1>7. HistoryInv BY <1>1 DEF HistoryInv
<1>8. QED BY <1>2, <1>3, <1>4, <1>5, <1>6, <1>7 DEF RegistryInv

LEMMA RegistryStutters == ASSUME RegistryInv, UNCHANGED vars PROVE RegistryInv'
<1>1. Types /\ ResultIsLast /\ RecordInv /\ OpeningInv /\ GrainInv /\ CloseInv /\ HistoryInv
  BY TypeSplit DEF RegistryInv
<1>2. UNCHANGED <<up, grant, entry, opening, closes, task, grain, calls, hist, spent>> BY DEF vars
<1>3. TypeOK'
  <2>1. Types' BY <1>1, <1>2 DEF Types
  <2>2. ResultIsLast' BY <1>1, <1>2 DEF ResultIsLast
  <2>3. QED BY <2>1, <2>2, TypeSplitNext
<1>4. RecordInv' /\ OpeningInv' BY <1>1, <1>2 DEF RecordInv, OpeningInv
<1>5. GrainInv' BY <1>1, <1>2 DEF GrainInv, OneOwner, Owner
<1>6. CloseInv' BY <1>1, <1>2 DEF CloseInv, CloseFits, Heard, InOrder, AwaitedIsLast
<1>7. HistoryInv' BY <1>1, <1>2 DEF HistoryInv
<1>8. QED BY <1>3, <1>4, <1>5, <1>6, <1>7 DEF RegistryInv

LEMMA RegistryStep == RegistryInv /\ [Next]_vars => RegistryInv'
<1> SUFFICES ASSUME RegistryInv, [Next]_vars PROVE RegistryInv' OBVIOUS
<1>1. CASE UNCHANGED vars BY <1>1, RegistryStutters
<1>2. CASE Clients
  BY <1>2, RegisterKeeps, OpenKeeps, StartKeeps, CloseSessionKeeps, CommitKeeps
  DEF Clients, CreateOrResume
<1>3. CASE Answers
  BY <1>3, ClaimForOpenKeeps, ClaimForCloseKeeps, CloseReturnsKeeps, LateAnswerKeeps DEF Answers
<1>4. CASE Mailbox BY <1>4, OpenReturnsKeeps, ContinueClosureKeeps, FinishClosureKeeps DEF Mailbox
<1>5. CASE Session
  BY <1>5, TakeOpenKeeps, FinishAdmissionKeeps, TakeCloseKeeps, FinishEmptyCloseKeeps DEF Session
<1>6. CASE FinishResume \/ WriteEnds \/ Poison
  BY <1>6, FinishResumeKeeps, WriteEndsKeeps, PoisonKeeps
<1>7. CASE PoisonFails \/ CloseTimesOut \/ ClaimTimesOut \/ GrainLost \/ StopRegistry
  BY <1>7, PoisonFailsKeeps, CloseTimesOutKeeps, ClaimTimesOutKeeps, GrainLostKeeps, StopRegistryKeeps
<1>8. QED BY <1>1, <1>2, <1>3, <1>4, <1>5, <1>6, <1>7 DEF Next

\* The Registry, the requests between it and the Session Grain, and the Grain
\* keep to RegistryInv.
THEOREM RegistryInvariance == Spec => []RegistryInv
BY InitialRegistry, RegistryStep, PTL DEF Spec

\* What the invariant says of ownership (Claim and Reserve in authority.go).
LEMMA OwnershipFollows == RegistryInv => OwnershipIsUnique
<1> SUFFICES ASSUME RegistryInv PROVE OwnershipIsUnique OBVIOUS
<1>1. TypeOK /\ Types /\ OneOwner /\ OpensAsRegistered
  BY TypeSplit DEF RegistryInv, GrainInv, OpeningInv, OpensAsRegistered
<1>2. ASSUME NEW c \in Creation PROVE Cardinality(hist.owners[c]) <= 1
  <2>1. \A i, j \in hist.owners[c] : i = j BY DEF RegistryInv, HistoryInv
  <2>2. CASE hist.owners[c] = {} BY <2>2, FS_EmptySet
  <2>3. CASE hist.owners[c] # {}
    <3>1. PICK i \in hist.owners[c] : TRUE BY <2>3
    <3>2. hist.owners[c] = {i} BY <2>1, <3>1
    <3>3. QED BY <3>2, FS_Singleton
  <2>4. QED BY <2>2, <2>3
<1>3. QED BY <1>1, <1>2 DEF OwnershipIsUnique, OneActivation

\* What the invariant says of an acknowledged close (finishClosure, runClosure).
LEMMA ClosedFollows == RegistryInv => ClosedIsGone
<1> SUFFICES ASSUME RegistryInv PROVE ClosedIsGone OBVIOUS
<1>1. Types /\ RecordInv /\ OpeningInv /\ GrainInv /\ CloseInv /\ HistoryInv
  BY TypeSplit DEF RegistryInv
<1>2. AcknowledgedIsGone BY <1>1 DEF AcknowledgedIsGone, HistoryInv, GrainInv, OneOwner
<1>3. FreeIdentityIsQuiet BY <1>1 DEF FreeIdentityIsQuiet, GrainInv, OpeningInv
<1>4. DeactivatesDrained
  <2>1. SUFFICES ASSUME task.stage = "authorized"
                 PROVE  /\ grant.retired /\ ~Busy
                        /\ grain.phase = "open" => grain.closing /\ ~grain.dirty
    BY DEF DeactivatesDrained
  <2>2. up /\ entry.checkpoint /\ entry.settled BY <1>1, <2>1 DEF RecordInv, NoTask
  <2>3. grant.retired /\ opening = NoOpening BY <1>1, <2>2 DEF RecordInv
  <2>4. ~Busy BY <1>1, <2>3 DEF Busy, OpeningInv, NoOpening
  <2>5. QED BY <1>1, <2>2, <2>3, <2>4 DEF GrainInv
<1>5. CloseAwaitsOpening BY <1>1 DEF CloseAwaitsOpening, CloseInv, CloseFits, Heard
<1>6. ListedIsOpen BY <1>1 DEF ListedIsOpen, Listed, GrainInv, OneOwner, Owner
<1>7. QED BY <1>2, <1>3, <1>4, <1>5, <1>6 DEF ClosedIsGone

\* However creations, requests, answers and activations interleave or are lost,
\* one creation owns the Session in one activation, and a close that was
\* acknowledged left nothing of it (registry_close.go, authority.go).
THEOREM RegistryOwnsSessions == Spec => []SessionsAreOwned
<1>1. RegistryInv => SessionsAreOwned BY OwnershipFollows, ClosedFollows DEF SessionsAreOwned
<1>2. QED BY <1>1, RegistryInvariance, PTL
=============================================================================
