------------------------- MODULE AgentRegistryProofs -------------------------
(***************************************************************************)
(* Theorems about AgentRegistry: whatever component fails, whichever Agent *)
(* is closed or replaced while it starts, and however often an AgentLoop   *)
(* is lost, the directory lists every resource a component owner holds,    *)
(* and an Agent that is published holds all it was declared with.          *)
(*                                                                         *)
(* A handler of the Registry is a composition of operators on its memory   *)
(* w, and so are the lemmas: each says that one operator keeps w typed,    *)
(* its lifetimes sound beside what is held, and its replacements bounded   *)
(* by the revisions of the Settings that asked for them.                   *)
(***************************************************************************)
EXTENDS AgentRegistry, SequenceTheorems, WellFoundedInduction, TLAPS

Lives == {"absent", "initializing", "available", "closing", "closed"}
Waits == {"none", "settings", "component"}
CloseStages == {"none", "asked", "joined", "ok", "failed"}
Requested == {"none", "start", "close", "restart", "verify", "verified", "stale", "undelivered"}
Replies == {"none", "ready", "closed", "refused"}
SessionOf == <<"session", 0>>

\* L: the identities of lifetimes; s: the latest revision of the Settings.
OpeningType(s) ==
  [on : BOOLEAN, wait : Waits, component : Components, answer : Answers, read : 0 .. s,
   revision : 0 .. s]
ClosingType == [on : BOOLEAN, resource : Duties, stage : CloseStages]
LifeType(L, s) ==
  [life : Lives, failed : BOOLEAN, ready : SUBSET Components, owned : SUBSET Resources,
   id : L, parent : L, instance : Nat, opening : OpeningType(s), closing : ClosingType]
RestartType(L) == [stage : RestartStages, of : L]
CallType(L) ==
  {k \in [on : Requested, agent : Agents \cup {NoAgent}, id : L, got : Replies] :
     k.on # "none" => k.agent \in Agents}

RegType(L, s) ==
  [stopped : BOOLEAN, seen : 0 .. s, observing : BOOLEAN, of : [Agents -> LifeType(L, s)],
   restarts : [Agents -> RestartType(L)], selfCloses : SUBSET (Agents \X L),
   calls : [Callers -> CallType(L)]]

\* A start waits for one component at a time, and never while the Agent closes
\* one; the Session is the first of them.
Sound(e) ==
  /\ e.life = "absent" <=> e.id = 0
  /\ e.life = "available" => e.ready = Components
  /\ e.closing.stage # "none" => e.life = "closing"
  /\ e.opening.wait # "none" =>
       /\ e.life \in {"initializing", "closing"}
       /\ e.closing.stage = "none"
  /\ e.opening.wait = "settings" => e.ready = {}
  /\ e.opening.wait = "component" =>
       LET c == e.opening.component answer == e.opening.answer IN
       /\ c \notin e.ready
       /\ c = SessionOf \/ SessionOf \in e.ready
       /\ Owns(c) \subseteq e.owned
       /\ answer = "claimed" /\ c[1] = "agent" => Claimed \subseteq e.owned
       /\ answer = "unowned" => c = SessionOf

\* What the owners hold for a lifetime: nothing it does not list, everything it
\* has made ready, and not what its last answer says is gone.
Holding(e, h, a) ==
  LET has(r) == <<a, e.id, r>> \in h
      opening(answers) == e.opening.wait = "component" /\ e.opening.answer \in answers
  IN
  /\ \A x \in h : x[1] = a =>
       x[2] = e.id /\ e.id # 0 /\ e.life # "closed" /\ x[3] \in e.owned
  /\ e.life \in {"initializing", "available"} =>
       \A c \in e.ready : \A r \in Owns(c) \ Claimed : has(r)
  /\ opening({"ok"}) => \A r \in Owns(e.opening.component) \ Claimed : has(r)
  /\ opening({"asked", "unowned"}) /\ e.opening.component = SessionOf =>
       ~has(<<"conversation", 0>>)
  /\ e.opening.wait = "settings" => \A x \in h : x[1] # a
  /\ e.closing.stage = "ok" => ~has(e.closing.resource)

\* A replacement is asked for by a revision newer than that of the lifetime it
\* replaces, so lifetimes are created by callers or by one revision each.
Replacing == {"close", "joined", "closed", "loading", "loaded", "create"}
Within(e, stage, seen, drawn, n) ==
  /\ e.id <= drawn
  /\ drawn <= n \/ drawn <= n + seen - 1
  /\ e.opening.revision <= seen
  /\ e.opening.revision # 0 => drawn <= n + e.opening.revision - 1
  /\ e.life \in {"absent", "closed"} => e.opening.revision = 0
  /\ stage \in Replacing => seen >= 2 /\ drawn <= n + seen - 2

\* h: what is held; drawn: the lifetimes drawn; n: those callers may create.
Ids(n) == 0 .. n + Len(Configured)
Kept(w, h, drawn, n, s) ==
  /\ w \in RegType(Ids(n), s)
  /\ \A a \in Agents : Sound(w.of[a])
  /\ \A a \in Agents : Holding(w.of[a], h, a)
  /\ \A a \in Agents : Within(w.of[a], w.restarts[a].stage, w.seen, drawn[a], n)

SpentType ==
  [of : Settings, created : [Agents -> Lifetimes], lost : Nat, faults : Nat]

\* The variables of the other owners.
OthersInv ==
  /\ spent \in SpentType
  /\ spent.lost <= spent.of.lost /\ spent.faults <= spent.of.faults
  /\ saved \in Revisions
  /\ notices \in Seq(1 .. saved)
  /\ held \subseteq Agents \X Lifetimes \X Resources
  /\ loops \in [Agents -> [instance : Nat, creation : Lifetimes]]
  /\ asked \subseteq Agents \X Lifetimes \X {"close", "lost"}

ListedInv == OthersInv /\ Kept(reg, held, spent.created, spent.of.creations, saved)

-----------------------------------------------------------------------------
(* The constants.                                                          *)

\* A set of natural numbers has a smallest one.
LEMMA SmallestExists ==
  ASSUME NEW T \in SUBSET Nat, T # {}
  PROVE  \E x \in T : \A y \in T : x <= y
<1> DEFINE R == {ss \in Nat \X Nat : ss[1] < ss[2]}
<1>1. IsWellFoundedOn(R, Nat)  BY NatLessThanWellFounded DEF OpToRel
<1>2. PICK x \in T : \A y \in T : ~ (<<y, x>> \in R)
  <2> HIDE DEF R
  <2> QED BY <1>1, WFMin
<1>3. \A y \in T : ~(y < x)  BY <1>2
<1>4. \A y \in T : x <= y  BY <1>3
<1> QED BY <1>4

Names == {"session", "tools", "prompt", "model", "agent", "commands", "capability"}
Kinds ==
  {"conversation", "tools", "prompt", "loop", "commands", "capability", "work", "execution"}
Named == {c \in Names \X (0 .. Capabilities) : c[1] = "session" => c[2] = 0}

\* There is at least one revision of the Settings.
LEMMA SomeRevision == Len(Configured) \in Nat /\ Len(Configured) >= 1
<1>1. Configured \in Seq(ToSet(Configured)) /\ Configured # <<>>  BY RegistryAssumption
<1>2. Len(Configured) \in Nat /\ Len(Configured) # 0  BY <1>1, LenProperties, EmptySeq
<1> QED BY <1>2

\* What an Agent is declared with begins with its Session.
LEMMA RequiredFacts ==
  Required \in Seq(Named) /\ Len(Required) >= 5 /\ Required[1] = SessionOf
<1> DEFINE first == <<<<"session", 0>>, <<"tools", 0>>, <<"prompt", 0>>, <<"model", 0>>, <<"agent", 0>>>>
           second == IF Commands THEN <<<<"commands", 0>>>> ELSE <<>>
           third == [i \in 1 .. Capabilities |-> <<"capability", i>>]
<1>1. first \in Seq(Named) /\ Len(first) = 5 /\ first[1] = SessionOf
  BY RegistryAssumption DEF Names, Named, SessionOf
<1>2. second \in Seq(Named)
  <2>1. <<"commands", 0>> \in Named  BY RegistryAssumption DEF Names, Named
  <2>2. <<<<"commands", 0>>>> \in Seq(Named) /\ <<>> \in Seq(Named)  BY <2>1
  <2> QED BY <2>2
<1>3. third \in Seq(Named)
  <2>1. \A i \in 1 .. Capabilities : <<"capability", i>> \in Named
    BY RegistryAssumption DEF Names, Named
  <2>2. third \in [1 .. Capabilities -> Named]  BY <2>1
  <2> QED BY <2>2, RegistryAssumption
<1>4. Required = (first \o second) \o third  BY DEF Required
<1> HIDE DEF first, second, third
<1>5. Len(second) \in Nat /\ Len(third) \in Nat  BY <1>2, <1>3, LenProperties
<1>6. /\ first \o second \in Seq(Named) /\ Len(first \o second) = 5 + Len(second)
      /\ (first \o second)[1] = SessionOf
  <2>1. 1 \in 1 .. Len(first) + Len(second) /\ 1 <= Len(first)  BY <1>1, <1>5
  <2>2. first \o second \in Seq(Named) /\ Len(first \o second) = Len(first) + Len(second)
    BY <1>1, <1>2, ConcatProperties
  <2>3. (first \o second)[1] = first[1]  BY <2>1, <1>1, <1>2, ConcatProperties
  <2> QED BY <2>2, <2>3, <1>1
<1>7. 1 \in 1 .. Len(first \o second) + Len(third) /\ 1 <= Len(first \o second)
  BY <1>5, <1>6
<1>8. /\ Required \in Seq(Named) /\ Len(Required) = Len(first \o second) + Len(third)
      /\ Required[1] = SessionOf
  BY <1>3, <1>4, <1>6, <1>7, ConcatProperties
<1> QED BY <1>5, <1>6, <1>8

\* The declared components are exactly the required ones, the Session among them.
LEMMA ComponentsNamed ==
  /\ Components \subseteq Named /\ SessionOf \in Components
  /\ \A i \in DOMAIN Required : Required[i] \in Components
  /\ \A c \in Components : \E i \in DOMAIN Required : c = Required[i]
<1>1. DOMAIN Required = 1 .. Len(Required) /\ Len(Required) \in Nat
  BY RequiredFacts, LenProperties
<1>2. \A i \in DOMAIN Required : Required[i] \in Named  BY RequiredFacts, <1>1, ElementOfSeq
<1>3. 1 \in DOMAIN Required  BY <1>1, RequiredFacts
<1> QED BY <1>2, <1>3, RequiredFacts DEF Components, ToSet

\* The component a start asks for next is not ready; it is the Session unless
\* the Session is ready.
LEMMA NextComponentFacts ==
  ASSUME NEW w, NEW a, Unready(w, a) # {}
  PROVE  /\ NextComponent(w, a) \in Components \ w.of[a].ready
         /\ NextComponent(w, a) = SessionOf \/ SessionOf \in w.of[a].ready
<1> DEFINE T == Unready(w, a)
<1>1. DOMAIN Required = 1 .. Len(Required) /\ Len(Required) \in Nat
  BY RequiredFacts, LenProperties
<1>2. T \in SUBSET Nat  BY <1>1 DEF Unready
<1>3. \E x \in T : \A y \in T : x <= y
  <2> HIDE DEF T
  <2> QED BY <1>2, SmallestExists DEF T
<1>4. Min(T) \in T /\ \A y \in T : Min(T) <= y
  <2> HIDE DEF T
  <2> QED BY <1>3 DEF Min
<1>5. Min(T) \in DOMAIN Required /\ Required[Min(T)] \notin w.of[a].ready
  BY <1>4 DEF Unready
<1>6. CASE SessionOf \notin w.of[a].ready
  <2>1. 1 \in T  BY <1>1, <1>6, RequiredFacts DEF Unready
  <2>2. Min(T) = 1
    <3> HIDE DEF T
    <3> QED BY <2>1, <1>2, <1>4, <1>5, <1>1
  <2> QED BY <2>2, <1>5, RequiredFacts, ComponentsNamed DEF NextComponent
<1>7. CASE SessionOf \in w.of[a].ready
  BY <1>5, <1>7, ComponentsNamed DEF NextComponent
<1> QED BY <1>6, <1>7

\* Nothing is left to start exactly when everything is ready.
LEMMA AllReady ==
  ASSUME NEW w, NEW a, w.of[a].ready \subseteq Components, Unready(w, a) = {}
  PROVE  w.of[a].ready = Components
BY ComponentsNamed DEF Unready

\* Only the Session's component owns the conversation.
LEMMA OwnsFacts ==
  ASSUME NEW c \in Components
  PROVE  /\ Owns(c) \subseteq Resources
         /\ c[1] = "session" => c = SessionOf
         /\ c # SessionOf => <<"conversation", 0>> \notin Owns(c)
         /\ c = SessionOf => Owns(c) = {<<"conversation", 0>>}
         /\ c[1] = "agent" => Owns(c) \subseteq Claimed
<1>1. c \in Named  BY ComponentsNamed
<1>2. Owns(c) \subseteq Resources  BY DEF Resources
<1>3. c = <<c[1], c[2]>>  BY <1>1 DEF Named
<1>4. c[1] = "session" => c = SessionOf  BY <1>1, <1>3 DEF Named, SessionOf
<1>5. c = SessionOf => Owns(c) = {<<"conversation", 0>>}  BY DEF SessionOf, Owns
<1>6. c[1] = "agent" => Owns(c) \subseteq Claimed  BY DEF Owns, Claimed
<1>7. c # SessionOf => <<"conversation", 0>> \notin Owns(c)
  BY <1>1, <1>3, <1>4 DEF Owns, Named, Names
<1> QED BY <1>2, <1>4, <1>5, <1>6, <1>7

\* No resource is a child, and the Claimed ones are not the conversation.
LEMMA ResourceKinds ==
  /\ \A r \in Resources : r = <<r[1], r[2]>> /\ r[1] \in Kinds /\ r[2] \in 0 .. Capabilities
  /\ Claimed \subseteq Resources /\ <<"conversation", 0>> \notin Claimed
  /\ \A r \in Resources, b \in Agents : r # <<"child", b>>
<1>1. \A c \in Components : \A r \in Owns(c) :
        r = <<r[1], r[2]>> /\ r[1] \in Kinds /\ r[2] \in 0 .. Capabilities
  <2> SUFFICES ASSUME NEW c \in Components, NEW r \in Owns(c)
               PROVE  r = <<r[1], r[2]>> /\ r[1] \in Kinds /\ r[2] \in 0 .. Capabilities
    OBVIOUS
  <2>1. c \in Named /\ c = <<c[1], c[2]>>  BY ComponentsNamed DEF Named
  <2>2. 0 \in 0 .. Capabilities  BY RegistryAssumption
  <2> QED BY <2>1, <2>2 DEF Named, Names, Owns, Kinds
<1>2. \A r \in Claimed : r = <<r[1], r[2]>> /\ r[1] \in Kinds /\ r[2] \in 0 .. Capabilities
  BY RegistryAssumption DEF Claimed, Kinds
<1>3. \A r \in Resources : r = <<r[1], r[2]>> /\ r[1] \in Kinds /\ r[2] \in 0 .. Capabilities
  BY <1>1, <1>2 DEF Resources
<1>4. Claimed \subseteq Resources  BY DEF Resources
<1>5. <<"conversation", 0>> \notin Claimed  BY DEF Claimed
<1>6. \A r \in Resources, b \in Agents : r # <<"child", b>>  BY <1>3 DEF Kinds
<1> QED BY <1>3, <1>4, <1>5, <1>6

\* Every kind of duty has a place in the release order.
LEMMA PriorityFacts ==
  ASSUME NEW kind \in Kinds \cup {"child"}
  PROVE  Priority(kind) \in 1 .. 9
<1>1. DOMAIN ReleaseOrder = 1 .. 9  BY DEF ReleaseOrder
<1>2. \E i \in 1 .. 9 : ReleaseOrder[i] = kind
  <2>1. /\ ReleaseOrder[1] = "work" /\ ReleaseOrder[2] = "capability" /\ ReleaseOrder[3] = "child"
        /\ ReleaseOrder[4] = "commands" /\ ReleaseOrder[5] = "execution"
        /\ ReleaseOrder[6] = "tools" /\ ReleaseOrder[7] = "prompt"
        /\ ReleaseOrder[8] = "conversation" /\ ReleaseOrder[9] = "loop"
    BY DEF ReleaseOrder
  <2> QED BY <2>1 DEF Kinds
<1> QED BY <1>1, <1>2 DEF Priority

\* What an Agent still has to release has a first: the next release exists.
LEMMA NextReleaseFacts ==
  ASSUME NEW w, NEW a, w.of[a].owned \subseteq Resources, Obligations(w, a) # {}
  PROVE  /\ NextRelease(w, a) \in Obligations(w, a) /\ NextRelease(w, a) \in Duties
         /\ \A r \in Obligations(w, a) : ~Before(r, NextRelease(w, a))
<1> DEFINE D == Obligations(w, a)
<1>1. D \subseteq Duties  BY DEF Obligations, Children, Duties
<1>2. \A r \in Duties : r[1] \in Kinds \cup {"child"} /\ (r[1] = "capability" => r[2] \in 0 .. Capabilities)
  BY ResourceKinds DEF Duties
<1>3. \A r \in D : Priority(r[1]) \in 1 .. 9  BY <1>1, <1>2, PriorityFacts
<1> HIDE DEF D
<1>4. PICK low \in D : \A y \in D : Priority(low[1]) <= Priority(y[1])
  <2> DEFINE T == {Priority(r[1]) : r \in D}
  <2>1. T \in SUBSET Nat  BY <1>3
  <2>2. T # {}  BY DEF D
  <2> HIDE DEF T
  <2>3. PICK x \in T : \A y \in T : x <= y  BY <2>1, <2>2, SmallestExists
  <2> USE DEF T
  <2>4. PICK r \in D : x = Priority(r[1])  BY <2>3
  <2> QED BY <2>3, <2>4
<1>5. \E r \in D : \A other \in D : ~Before(other, r)
  <2>1. CASE low[1] # "capability"
    <3>1. \A other \in D : ~Before(other, low)  BY <1>3, <1>4, <2>1 DEF Before
    <3> QED BY <3>1
  <2>2. CASE low[1] = "capability"
    <3> DEFINE N == {Capabilities - r[2] : r \in {x \in D : x[1] = "capability"}}
    <3>1. \A r \in D : r[1] = "capability" => r[2] \in 0 .. Capabilities  BY <1>1, <1>2
    <3>2. N \in SUBSET Nat  BY <3>1, RegistryAssumption
    <3>3. N # {}  BY <2>2
    <3> HIDE DEF N
    <3>4. PICK x \in N : \A y \in N : x <= y  BY <3>2, <3>3, SmallestExists
    <3> USE DEF N
    <3>5. PICK r \in D : r[1] = "capability" /\ x = Capabilities - r[2]  BY <3>4
    <3>6. \A other \in D : other[1] = "capability" => Capabilities - r[2] <= Capabilities - other[2]
      BY <3>4, <3>5
    <3>7. \A other \in D : other[1] = "capability" => other[2] <= r[2]
      BY <3>1, <3>5, <3>6, RegistryAssumption
    <3>8. \A other \in D : ~Before(other, r)
      BY <1>3, <1>4, <2>2, <3>1, <3>5, <3>7 DEF Before
    <3> QED BY <3>8
  <2> QED BY <2>1, <2>2
<1>6. NextRelease(w, a) \in D /\ \A r \in D : ~Before(r, NextRelease(w, a))
  BY <1>5 DEF NextRelease, D
<1> QED BY <1>1, <1>6 DEF D

-----------------------------------------------------------------------------
(* Replies and replacements leave the lifetimes alone.                     *)

\* No lifetime at all is written 0.
LEMMA ZeroIsId == ASSUME NEW n \in Nat PROVE 0 \in Ids(n)
BY SomeRevision DEF Ids

\* Only the lifetimes, the newest revision seen and replacements in progress count.
LEMMA KeptWithLives ==
  ASSUME NEW h, NEW drawn, NEW n \in Nat, NEW s \in Nat, NEW w, Kept(w, h, drawn, n, s),
         NEW v \in RegType(Ids(n), s), v.of = w.of, v.seen = w.seen,
         \A a \in Agents : v.restarts[a].stage \in {w.restarts[a].stage} \cup (RestartStages \ Replacing)
  PROVE  Kept(v, h, drawn, n, s)
BY DEF Kept, Within

\* Replies change nothing but the calls they answer.
LEMMA AnswerFacts ==
  ASSUME NEW L, 0 \in L, NEW s, NEW w \in RegType(L, s), NEW who, NEW got \in Replies
  PROVE  /\ Answer(w, who, got) \in RegType(L, s)
         /\ Answer(w, who, got) = [w EXCEPT !.calls = Answer(w, who, got).calls]
<1> DEFINE calls == [c \in Callers |-> IF c \in who THEN [NoAsk EXCEPT !.got = got] ELSE w.calls[c]]
<1>1. w.calls \in [Callers -> CallType(L)]  BY DEF RegType
<1>2. [NoAsk EXCEPT !.got = got] \in CallType(L)  BY DEF NoAsk, CallType, Requested
<1>3. calls \in [Callers -> CallType(L)]  BY <1>1, <1>2
<1>4. Answer(w, who, got) = [w EXCEPT !.calls = calls]  BY DEF Answer
<1> HIDE DEF calls
<1> QED BY <1>3, <1>4 DEF RegType

\* A parked request changes nothing but its own call.
LEMMA ParkFacts ==
  ASSUME NEW L, NEW s, NEW w \in RegType(L, s), NEW c \in Callers, NEW on \in Requested,
         NEW a \in Agents, NEW id \in L
  PROVE  /\ Park(w, c, on, a, id) \in RegType(L, s)
         /\ Park(w, c, on, a, id) = [w EXCEPT !.calls = Park(w, c, on, a, id).calls]
<1> DEFINE call == [on |-> on, agent |-> a, id |-> id, got |-> "none"]
           calls == [w.calls EXCEPT ![c] = call]
<1>1. w.calls \in [Callers -> CallType(L)]  BY DEF RegType
<1>2. call \in CallType(L)  BY DEF CallType, Replies
<1>3. calls \in [Callers -> CallType(L)]  BY <1>1, <1>2
<1>4. Park(w, c, on, a, id) = [w EXCEPT !.calls = calls]  BY DEF Park, RegType
<1> HIDE DEF calls
<1> QED BY <1>3, <1>4 DEF RegType

\* Replies keep the directory beside what is held.
LEMMA AnswerKeeps ==
  ASSUME NEW h, NEW drawn, NEW n \in Nat, NEW s \in Nat, NEW w, Kept(w, h, drawn, n, s),
         NEW who, NEW got \in Replies
  PROVE  /\ Kept(Answer(w, who, got), h, drawn, n, s)
         /\ Answer(w, who, got) = [w EXCEPT !.calls = Answer(w, who, got).calls]
<1>1. w \in RegType(Ids(n), s) /\ 0 \in Ids(n)  BY ZeroIsId DEF Kept
<1> DEFINE v == Answer(w, who, got)
<1>2. v \in RegType(Ids(n), s) /\ v = [w EXCEPT !.calls = v.calls]  BY <1>1, AnswerFacts
<1> HIDE DEF v
<1>3. v.of = w.of /\ v.seen = w.seen /\ v.restarts = w.restarts  BY <1>1, <1>2 DEF RegType
<1>4. \A a \in Agents : v.restarts[a].stage \in {w.restarts[a].stage}  BY <1>3
<1> QED BY <1>2, <1>3, <1>4, KeptWithLives DEF v

\* A parked request keeps the directory beside what is held.
LEMMA ParkKeeps ==
  ASSUME NEW h, NEW drawn, NEW n \in Nat, NEW s \in Nat, NEW w, Kept(w, h, drawn, n, s),
         NEW c \in Callers, NEW on \in Requested, NEW a \in Agents, NEW id \in Ids(n)
  PROVE  /\ Kept(Park(w, c, on, a, id), h, drawn, n, s)
         /\ Park(w, c, on, a, id) = [w EXCEPT !.calls = Park(w, c, on, a, id).calls]
<1>1. w \in RegType(Ids(n), s)  BY DEF Kept
<1> DEFINE v == Park(w, c, on, a, id)
<1>2. v \in RegType(Ids(n), s) /\ v = [w EXCEPT !.calls = v.calls]  BY <1>1, ParkFacts
<1> HIDE DEF v
<1>3. v.of = w.of /\ v.seen = w.seen /\ v.restarts = w.restarts  BY <1>1, <1>2 DEF RegType
<1>4. \A b \in Agents : v.restarts[b].stage \in {w.restarts[b].stage}  BY <1>3
<1> QED BY <1>2, <1>3, <1>4, KeptWithLives DEF v

\* The stage of one replacement.
LEMMA RestartStage ==
  ASSUME NEW h, NEW drawn, NEW n \in Nat, NEW s \in Nat, NEW w, Kept(w, h, drawn, n, s),
         NEW a \in Agents, NEW stage \in RestartStages,
         stage \in Replacing => w.restarts[a].stage \in Replacing
  PROVE  /\ Kept(AtStage(w, a, stage), h, drawn, n, s)
         /\ AtStage(w, a, stage).of = w.of /\ AtStage(w, a, stage).stopped = w.stopped
         /\ AtStage(w, a, stage).seen = w.seen
         /\ AtStage(w, a, stage).restarts[a].stage = stage
<1> DEFINE rs == [w.restarts EXCEPT ![a].stage = stage]
           v == [w EXCEPT !.restarts = rs]
<1>1. w \in RegType(Ids(n), s)  BY DEF Kept
<1>2. w.restarts \in [Agents -> RestartType(Ids(n))]  BY <1>1 DEF RegType
<1>3. rs \in [Agents -> RestartType(Ids(n))]  BY <1>2 DEF RestartType
<1>4. \A b \in Agents : rs[b].stage = IF b = a THEN stage ELSE w.restarts[b].stage
  BY <1>2 DEF RestartType
<1>5. AtStage(w, a, stage) = v  BY <1>1 DEF AtStage, RegType
<1> HIDE DEF rs
<1>6. /\ v \in RegType(Ids(n), s) /\ v.of = w.of /\ v.seen = w.seen /\ v.restarts = rs
      /\ v.stopped = w.stopped
  BY <1>1, <1>3 DEF RegType
<1> HIDE DEF v
<1>7. Kept(v, h, drawn, n, s)
  BY <1>1, <1>4, <1>6 DEF Kept, Within
<1> QED BY <1>4, <1>5, <1>6, <1>7

\* A replacement begins only for a lifetime older than the revision seen.
LEMMA RestartChangedKeeps ==
  ASSUME NEW h, NEW drawn \in [Agents -> Nat], NEW n \in Nat, NEW s \in Nat, NEW w,
         Kept(w, h, drawn, n, s)
  PROVE  /\ Kept(RestartChanged(w), h, drawn, n, s)
         /\ RestartChanged(w).of = w.of /\ RestartChanged(w).stopped = w.stopped
<1> DEFINE which == {a \in Agents : Outdated(w, a) /\ Admitted(w, a)}
           start == {a \in which : w.restarts[a].stage = "none"}
           rs == [a \in Agents |-> IF a \in start
                    THEN [stage |-> "close", of |-> w.of[a].id] ELSE w.restarts[a]]
           closes == w.selfCloses \cup {<<a, w.of[a].id>> : a \in start}
           v == [w EXCEPT !.restarts = rs, !.selfCloses = closes]
<1>1. w \in RegType(Ids(n), s)  BY DEF Kept
<1>2. CASE w.seen = 0  BY <1>2 DEF RestartChanged
<1>3. CASE w.seen # 0
  <2>1. w.restarts \in [Agents -> RestartType(Ids(n))] /\ w.selfCloses \subseteq Agents \X Ids(n)
        /\ w.seen \in 0 .. s
    BY <1>1 DEF RegType
  <2>2. \A a \in Agents : w.of[a].id \in Ids(n) /\ w.of[a].opening.revision \in Nat
    BY <1>1 DEF RegType, LifeType, OpeningType
  <2>3. rs \in [Agents -> RestartType(Ids(n))]  BY <2>1, <2>2 DEF RestartType, RestartStages
  <2>4. closes \subseteq Agents \X Ids(n)  BY <2>1, <2>2
  <2>5. RestartChanged(w) = v  BY <1>3 DEF RestartChanged, RestartAgents
  <2>6. \A a \in Agents : rs[a].stage = w.restarts[a].stage \/ Outdated(w, a)  BY DEF RestartType
  <2> HIDE DEF rs, closes
  <2>7. v \in RegType(Ids(n), s) /\ v.of = w.of /\ v.seen = w.seen /\ v.restarts = rs
        /\ v.stopped = w.stopped
    BY <1>1, <2>3, <2>4 DEF RegType
  <2> HIDE DEF v
  <2>8. \A a \in Agents : Within(v.of[a], v.restarts[a].stage, v.seen, drawn[a], n)
    <3> SUFFICES ASSUME NEW a \in Agents
                 PROVE  Within(w.of[a], rs[a].stage, w.seen, drawn[a], n)
      BY <2>7
    <3>1. Within(w.of[a], w.restarts[a].stage, w.seen, drawn[a], n)  BY DEF Kept
    <3>2. CASE Outdated(w, a)
      <4>1. w.of[a].opening.revision # 0 /\ w.of[a].opening.revision # w.seen
        BY <3>2 DEF Outdated
      <4>2. w.of[a].opening.revision \in Nat /\ w.seen \in Nat /\ drawn[a] \in Nat
        BY <2>1, <2>2
      <4>3. w.seen >= 2 /\ drawn[a] <= n + w.seen - 2  BY <4>1, <4>2, <3>1 DEF Within
      <4> QED BY <4>3, <3>1 DEF Within
    <3>3. CASE ~Outdated(w, a)  BY <3>1, <3>3, <2>6
    <3> QED BY <3>2, <3>3
  <2>9. Kept(v, h, drawn, n, s)  BY <2>7, <2>8 DEF Kept
  <2> QED BY <2>5, <2>7, <2>9
<1> QED BY <1>2, <1>3

\* The answer of a close reaches callers, the closing parent and the replacement.
LEMMA AnswerCloseKeeps ==
  ASSUME NEW h, NEW drawn, NEW n \in Nat, NEW s \in Nat, NEW w, Kept(w, h, drawn, n, s),
         NEW a \in Agents, NEW done \in BOOLEAN
  PROVE  /\ Kept(AnswerClose(w, a, done), h, drawn, n, s)
         /\ AnswerClose(w, a, done).stopped = w.stopped
         /\ \A p \in Agents :
              \/ AnswerClose(w, a, done).of[p] = w.of[p]
              \/ /\ w.of[p].closing.stage = "joined"
                 /\ \E stage \in {"ok", "failed"} :
                      AnswerClose(w, a, done).of[p] = [w.of[p] EXCEPT !.closing.stage = stage]
<1> DEFINE got == IF done THEN "closed" ELSE "refused"
           stage == IF done THEN "ok" ELSE "failed"
           u == Answer(w, Waiting(w, "close", a), got)
           joined(p) == w.of[p].closing.stage = "joined" /\ w.of[p].closing.resource = <<"child", a>>
           lives == [p \in Agents |-> IF joined(p) THEN [u.of[p] EXCEPT !.closing.stage = stage]
                                      ELSE u.of[p]]
           next == IF u.restarts[a].stage # "joined" THEN u.restarts[a].stage
                   ELSE IF done THEN "closed" ELSE "closeFailed"
           rs == [u.restarts EXCEPT ![a].stage = next]
           v == [u EXCEPT !.of = lives, !.restarts = rs]
<1>1. Kept(u, h, drawn, n, s) /\ u = [w EXCEPT !.calls = u.calls]
  <2>1. got \in Replies  BY DEF Replies
  <2> QED BY <2>1, AnswerKeeps
<1>2. AnswerClose(w, a, done) = v
  BY <1>1, Zenon DEF AnswerClose
<1> HIDE DEF u
<1>3. w \in RegType(Ids(n), s) /\ u \in RegType(Ids(n), s)  BY <1>1 DEF Kept
<1>4. u.of = w.of /\ u.restarts = w.restarts /\ u.seen = w.seen /\ u.stopped = w.stopped
  BY <1>1, <1>3 DEF RegType
<1>5. rs \in [Agents -> RestartType(Ids(n))]
  <2>1. u.restarts \in [Agents -> RestartType(Ids(n))]  BY <1>3 DEF RegType
  <2>2. next \in RestartStages  BY <2>1 DEF RestartType, RestartStages
  <2> QED BY <2>1, <2>2 DEF RestartType
<1>6. \A p \in Agents : rs[p].stage = w.restarts[p].stage \/
        (w.restarts[p].stage = "joined" /\ rs[p].stage \in {"closed", "closeFailed"})
  BY <1>3, <1>4 DEF RegType, RestartType
<1>7. lives \in [Agents -> LifeType(Ids(n), s)]
  <2>1. u.of \in [Agents -> LifeType(Ids(n), s)]  BY <1>3 DEF RegType
  <2>2. stage \in CloseStages  BY DEF CloseStages
  <2> QED BY <2>1, <2>2, ZenonT(90) DEF LifeType, ClosingType
<1>8. \A p \in Agents : lives[p] = IF joined(p) THEN [w.of[p] EXCEPT !.closing.stage = stage]
                                   ELSE w.of[p]
  BY <1>4
<1> HIDE DEF lives, rs, next
<1>9. v \in RegType(Ids(n), s) /\ v.of = lives /\ v.restarts = rs /\ v.seen = w.seen
      /\ v.stopped = w.stopped
  BY <1>3, <1>4, <1>5, <1>7 DEF RegType
<1> HIDE DEF v
<1>10. \A p \in Agents : Sound(lives[p]) /\ Holding(lives[p], h, p) /\
         Within(lives[p], rs[p].stage, w.seen, drawn[p], n)
  <2> SUFFICES ASSUME NEW p \in Agents
               PROVE  Sound(lives[p]) /\ Holding(lives[p], h, p) /\
                      Within(lives[p], rs[p].stage, w.seen, drawn[p], n)
    OBVIOUS
  <2>1. Sound(w.of[p]) /\ Holding(w.of[p], h, p) /\
        Within(w.of[p], w.restarts[p].stage, w.seen, drawn[p], n)
    BY DEF Kept
  <2>2. Within(w.of[p], rs[p].stage, w.seen, drawn[p], n)
    BY <1>6, <2>1 DEF Within, Replacing
  <2>3. w.of[p] \in LifeType(Ids(n), s)  BY <1>3 DEF RegType
  <2>4. CASE joined(p)
    <3> DEFINE e == w.of[p] f == [e EXCEPT !.closing.stage = stage]
    <3>1. lives[p] = f  BY <1>8, <2>4
    <3>2. /\ f.life = e.life /\ f.ready = e.ready /\ f.owned = e.owned /\ f.id = e.id
          /\ f.opening = e.opening /\ f.closing.stage = stage
          /\ f.closing.resource = <<"child", a>>
      BY <2>3, <2>4 DEF LifeType, ClosingType
    <3>3. e.life = "closing" /\ e.owned \subseteq Resources
      BY <2>1, <2>3, <2>4 DEF Sound, LifeType
    <3> HIDE DEF f, e
    <3>4. Sound(f)  BY <2>1, <2>4, <3>2, <3>3 DEF Sound, e
    <3>5. Within(f, rs[p].stage, w.seen, drawn[p], n)  BY <2>2, <3>2 DEF Within, e
    <3>6. <<p, e.id, <<"child", a>>>> \notin h
      <4>1. <<"child", a>> \notin Resources  BY ResourceKinds
      <4> QED BY <2>1, <3>3, <4>1 DEF Holding, e
    <3>7. Holding(f, h, p)  BY <2>1, <3>2, <3>6 DEF Holding, e
    <3> QED BY <3>1, <3>4, <3>5, <3>7
  <2>5. CASE ~joined(p)  BY <1>8, <2>1, <2>2, <2>5
  <2> QED BY <2>4, <2>5
<1>11. Kept(v, h, drawn, n, s)  BY <1>9, <1>10 DEF Kept
<1>12. stage \in {"ok", "failed"}  OBVIOUS
<1> QED BY <1>2, <1>8, <1>9, <1>11, <1>12

\* The answer of a start reaches callers and the replacement that began it.
LEMMA AnswerStartKeeps ==
  ASSUME NEW h, NEW drawn, NEW n \in Nat, NEW s \in Nat, NEW w, Kept(w, h, drawn, n, s),
         NEW a \in Agents, NEW ready \in BOOLEAN
  PROVE  /\ Kept(AnswerStart(w, a, ready), h, drawn, n, s)
         /\ AnswerStart(w, a, ready).of = w.of
         /\ AnswerStart(w, a, ready).stopped = w.stopped
<1> DEFINE got == IF ready THEN "ready" ELSE "refused"
           u == Answer(w, Waiting(w, "start", a), got)
           next == IF u.restarts[a].stage # "creating" THEN u.restarts[a].stage
                   ELSE IF ready THEN "created" ELSE "createFailed"
<1>1. Kept(u, h, drawn, n, s) /\ u = [w EXCEPT !.calls = u.calls]
  <2>1. got \in Replies  BY DEF Replies
  <2> QED BY <2>1, AnswerKeeps
<1>2. w \in RegType(Ids(n), s) /\ u \in RegType(Ids(n), s)  BY <1>1 DEF Kept
<1>3. AnswerStart(w, a, ready) = AtStage(u, a, next)
  BY <1>2, Zenon DEF AnswerStart, AtStage
<1> HIDE DEF u
<1>4. next \in RestartStages /\ (next \in Replacing => u.restarts[a].stage \in Replacing)
  BY <1>2 DEF RegType, RestartType, RestartStages, Replacing
<1> HIDE DEF next
<1>5. /\ Kept(AtStage(u, a, next), h, drawn, n, s)
      /\ AtStage(u, a, next).of = u.of /\ AtStage(u, a, next).stopped = u.stopped
  BY <1>1, <1>4, RestartStage
<1>6. u.of = w.of /\ u.stopped = w.stopped  BY <1>1, <1>2 DEF RegType
<1> QED BY <1>2, <1>3, <1>5, <1>6 DEF RegType

-----------------------------------------------------------------------------
(* Closing.                                                                *)

\* Cancelled replacements leave every lifetime alone.
LEMMA CancelRestartsKeeps ==
  ASSUME NEW h, NEW drawn, NEW n \in Nat, NEW s \in Nat, NEW w, Kept(w, h, drawn, n, s),
         NEW a \in Agents
  PROVE  /\ Kept(CancelRestarts(w, a), h, drawn, n, s)
         /\ CancelRestarts(w, a).of = w.of /\ CancelRestarts(w, a).stopped = w.stopped
<1> DEFINE under == {b \in Agents : b = a \/ (a \in Ancestors[b] /\ Registered(w, b))}
           who == UNION {Waiting(w, "restart", b) : b \in under}
           u == Answer(w, who, "refused")
           rs == [b \in Agents |-> IF b \in under THEN NoRestart ELSE u.restarts[b]]
           v == [u EXCEPT !.restarts = rs]
<1>1. Kept(u, h, drawn, n, s) /\ u = [w EXCEPT !.calls = u.calls]
  <2>1. "refused" \in Replies  BY DEF Replies
  <2> HIDE DEF who
  <2> QED BY <2>1, AnswerKeeps
<1>2. CancelRestarts(w, a) = v  BY Zenon DEF CancelRestarts
<1>3. u \in RegType(Ids(n), s) /\ w \in RegType(Ids(n), s) /\ 0 \in Ids(n)
  BY <1>1, ZeroIsId DEF Kept
<1> HIDE DEF u, who, under
<1>4. rs \in [Agents -> RestartType(Ids(n))]
  BY <1>3 DEF RegType, RestartType, NoRestart, RestartStages
<1>5. \A b \in Agents : rs[b].stage \in {u.restarts[b].stage} \cup (RestartStages \ Replacing)
  BY DEF NoRestart, RestartStages, Replacing
<1> HIDE DEF rs
<1>6. v \in RegType(Ids(n), s) /\ v.of = u.of /\ v.seen = u.seen /\ v.restarts = rs
      /\ v.stopped = u.stopped
  BY <1>3, <1>4 DEF RegType
<1>7. u.of = w.of /\ u.stopped = w.stopped  BY <1>1, <1>3 DEF RegType
<1> HIDE DEF v
<1>8. Kept(v, h, drawn, n, s)  BY <1>1, <1>5, <1>6, KeptWithLives
<1> QED BY <1>2, <1>6, <1>7, <1>8

\* A replacement that fails answers who waits for it.
LEMMA FailRestartKeeps ==
  ASSUME NEW h, NEW drawn, NEW n \in Nat, NEW s \in Nat, NEW w, Kept(w, h, drawn, n, s),
         NEW a \in Agents
  PROVE  Kept(FailRestart(w, a), h, drawn, n, s)
<1>1. "failed" \in RestartStages \ Replacing /\ "refused" \in Replies
  BY DEF RestartStages, Replacing, Replies
<1>2. Kept(AtStage(w, a, "failed"), h, drawn, n, s)  BY <1>1, RestartStage
<1>3. FailRestart(w, a) = Answer(AtStage(w, a, "failed"), Waiting(w, "restart", a), "refused")
  BY DEF FailRestart, AtStage
<1> QED BY <1>1, <1>2, <1>3, AnswerKeeps

\* One lifetime changes.
WithLife(w, a, f) == [w EXCEPT !.of = [w.of EXCEPT ![a] = f]]

\* The other lifetimes, the replacements and the Settings seen stay.
LEMMA WithLifeFacts ==
  ASSUME NEW L, NEW s, NEW w \in RegType(L, s), NEW a \in Agents, NEW f \in LifeType(L, s)
  PROVE  /\ WithLife(w, a, f) \in RegType(L, s)
         /\ \A b \in Agents : WithLife(w, a, f).of[b] = IF b = a THEN f ELSE w.of[b]
         /\ WithLife(w, a, f).restarts = w.restarts /\ WithLife(w, a, f).seen = w.seen
         /\ WithLife(w, a, f).stopped = w.stopped
<1> DEFINE lives == [w.of EXCEPT ![a] = f]
<1>1. /\ lives \in [Agents -> LifeType(L, s)]
      /\ \A b \in Agents : lives[b] = IF b = a THEN f ELSE w.of[b]
  BY DEF RegType
<1>2. WithLife(w, a, f) = [w EXCEPT !.of = lives]  BY DEF WithLife
<1> HIDE DEF lives
<1>3. /\ [w EXCEPT !.of = lives] \in RegType(L, s) /\ [w EXCEPT !.of = lives].of = lives
      /\ [w EXCEPT !.of = lives].restarts = w.restarts
      /\ [w EXCEPT !.of = lives].seen = w.seen /\ [w EXCEPT !.of = lives].stopped = w.stopped
  BY <1>1 DEF RegType
<1> QED BY <1>1, <1>2, <1>3

\* A lifetime that is sound beside what is held may replace another.
LEMMA OneLife ==
  ASSUME NEW h, NEW drawn, NEW n \in Nat, NEW s \in Nat, NEW w, Kept(w, h, drawn, n, s),
         NEW a \in Agents, NEW f \in LifeType(Ids(n), s), Sound(f), Holding(f, h, a),
         Within(f, w.restarts[a].stage, w.seen, drawn[a], n)
  PROVE  Kept(WithLife(w, a, f), h, drawn, n, s)
<1> DEFINE v == WithLife(w, a, f)
<1>1. w \in RegType(Ids(n), s) /\ w.of \in [Agents -> LifeType(Ids(n), s)]  BY DEF Kept, RegType
<1>2. /\ v \in RegType(Ids(n), s) /\ v.restarts = w.restarts /\ v.seen = w.seen
      /\ \A b \in Agents : v.of[b] = IF b = a THEN f ELSE w.of[b]
  BY <1>1, WithLifeFacts
<1> HIDE DEF v
<1>3. Kept(v, h, drawn, n, s)  BY <1>2 DEF Kept
<1> QED BY <1>3 DEF v

\* The fields of a lifetime have their types.
LEMMA LifeFacts ==
  ASSUME NEW h, NEW drawn, NEW n \in Nat, NEW s \in Nat, NEW w, Kept(w, h, drawn, n, s),
         NEW a \in Agents
  PROVE  /\ w.of[a] \in LifeType(Ids(n), s) /\ w.of \in [Agents -> LifeType(Ids(n), s)]
         /\ w.of[a].owned \subseteq Resources
         /\ Sound(w.of[a]) /\ Holding(w.of[a], h, a)
         /\ Within(w.of[a], w.restarts[a].stage, w.seen, drawn[a], n)
BY DEF Kept, RegType, LifeType

\* A close that has nothing left to release ends with nothing held.
LEMMA FinishCloseKeeps ==
  ASSUME NEW h, NEW drawn, NEW n \in Nat, NEW s \in Nat, NEW w, Kept(w, h, drawn, n, s),
         NEW a \in Agents, w.of[a].life = "closing", w.of[a].owned = {}
  PROVE  Kept(FinishClose(w, a), h, drawn, n, s)
<1> DEFINE e == w.of[a]
           f == [e EXCEPT !.life = "closed", !.closing = NoClosing, !.opening = NoOpening]
           v == WithLife(w, a, f)
<1>1. e \in LifeType(Ids(n), s) /\ Sound(e) /\ Holding(e, h, a)
      /\ Within(e, w.restarts[a].stage, w.seen, drawn[a], n)
  BY LifeFacts
<1>2. NoOpening \in OpeningType(s) /\ NoClosing \in ClosingType
  BY ComponentsNamed, ResourceKinds
     DEF OpeningType, ClosingType, NoOpening, NoClosing, Answers, Waits, CloseStages, SessionOf,
         Duties, Claimed
<1>3. f \in LifeType(Ids(n), s)  BY <1>1, <1>2 DEF LifeType, Lives
<1>4. /\ f.life = "closed" /\ f.id = e.id /\ f.opening = NoOpening /\ f.closing = NoClosing
      /\ f.owned = {}
  BY <1>1 DEF LifeType
<1>5. w.of \in [Agents -> LifeType(Ids(n), s)] /\ w \in RegType(Ids(n), s)  BY DEF Kept, RegType
<1>6. FinishClose(w, a) = AnswerClose(v, a, TRUE)
  <2>1. [w EXCEPT !.of[a].life = "closed", !.of[a].closing = NoClosing,
                  !.of[a].opening = NoOpening] = v
    BY <1>5 DEF RegType, LifeType, WithLife
  <2> QED BY <2>1, Zenon DEF FinishClose
<1> HIDE DEF e, f
<1>7. Sound(f)  BY <1>1, <1>4 DEF Sound, NoOpening, NoClosing, e
<1>8. \A x \in h : x[1] # a  BY <1>1 DEF Holding, e
<1>9. Holding(f, h, a)  BY <1>4, <1>8 DEF Holding, NoOpening, NoClosing
<1>10. Within(f, w.restarts[a].stage, w.seen, drawn[a], n)
  <2>1. w.seen \in Nat  BY <1>5 DEF RegType
  <2> QED BY <1>1, <1>4, <2>1 DEF Within, NoOpening
<1>11. Kept(v, h, drawn, n, s)  BY <1>3, <1>7, <1>9, <1>10, OneLife
<1> HIDE DEF v
<1>12. Kept(AnswerClose(v, a, TRUE), h, drawn, n, s)  BY <1>11, AnswerCloseKeeps
<1> QED BY <1>6, <1>12

\* A close releases the next resource, or ends with nothing held.
LEMMA RunCloseKeeps ==
  ASSUME NEW h, NEW drawn, NEW n \in Nat, NEW s \in Nat, NEW w, Kept(w, h, drawn, n, s),
         NEW a \in Agents, w.of[a].life = "closing"
  PROVE  Kept(RunClose(w, a), h, drawn, n, s)
<1> DEFINE e == w.of[a] r == NextRelease(w, a)
           f == [e EXCEPT !.closing = [@ EXCEPT !.resource = r, !.stage = "asked"]]
           v == WithLife(w, a, f)
<1>1. CASE e.opening.wait # "none"  BY <1>1 DEF RunClose
<1>2. CASE e.opening.wait = "none" /\ Obligations(w, a) = {}
  <2>1. RunClose(w, a) = FinishClose(w, a)  BY <1>2 DEF RunClose
  <2>2. e.owned = {}  BY <1>2 DEF Obligations
  <2> QED BY <2>1, <2>2, FinishCloseKeeps
<1>3. CASE e.opening.wait = "none" /\ Obligations(w, a) # {}
  <2>1. e \in LifeType(Ids(n), s) /\ Sound(e) /\ Holding(e, h, a)
        /\ Within(e, w.restarts[a].stage, w.seen, drawn[a], n) /\ e.owned \subseteq Resources
    BY LifeFacts
  <2>2. r \in Duties  BY <1>3, <2>1, NextReleaseFacts
  <2>3. w.of \in [Agents -> LifeType(Ids(n), s)] /\ w \in RegType(Ids(n), s)  BY DEF Kept, RegType
  <2>4. RunClose(w, a) = v
    BY <1>3, <2>3 DEF RunClose, RegType, WithLife
  <2> HIDE DEF e, r
  <2>5. f \in LifeType(Ids(n), s)  BY <2>1, <2>2 DEF LifeType, ClosingType, CloseStages
  <2>6. /\ f.life = e.life /\ f.id = e.id /\ f.opening = e.opening /\ f.ready = e.ready
        /\ f.owned = e.owned /\ f.closing.stage = "asked"
    BY <2>1 DEF LifeType, ClosingType
  <2> HIDE DEF f
  <2>7. /\ Sound(f) /\ Holding(f, h, a)
        /\ Within(f, w.restarts[a].stage, w.seen, drawn[a], n)
    BY <2>1, <2>6, <1>3 DEF Sound, Holding, Within, e
  <2>8. Kept(v, h, drawn, n, s)  BY <2>5, <2>7, OneLife
  <2> QED BY <2>4, <2>8
<1> QED BY <1>1, <1>2, <1>3

\* A lifetime that begins to close keeps everything else.
LEMMA ClosingKeeps ==
  ASSUME NEW h, NEW drawn, NEW n \in Nat, NEW s \in Nat, NEW w, Kept(w, h, drawn, n, s),
         NEW a \in Agents, w.of[a].life \notin {"absent", "closed"},
         NEW f \in LifeType(Ids(n), s), f.life = "closing", f.id = w.of[a].id,
         f.owned = w.of[a].owned, f.ready = w.of[a].ready, f.opening = w.of[a].opening,
         f.closing.stage = w.of[a].closing.stage, f.closing.resource = w.of[a].closing.resource
  PROVE  /\ Kept(WithLife(w, a, f), h, drawn, n, s)
         /\ WithLife(w, a, f).of[a].life = "closing"
         /\ WithLife(w, a, f).stopped = w.stopped
<1>1. /\ Sound(w.of[a]) /\ Holding(w.of[a], h, a)
      /\ Within(w.of[a], w.restarts[a].stage, w.seen, drawn[a], n)
  BY LifeFacts
<1>2. Sound(f)  BY <1>1 DEF Sound
<1>3. Holding(f, h, a)  BY <1>1 DEF Holding
<1>4. Within(f, w.restarts[a].stage, w.seen, drawn[a], n)  BY <1>1 DEF Within
<1>5. Kept(WithLife(w, a, f), h, drawn, n, s)  BY <1>2, <1>3, <1>4, OneLife
<1>6. w \in RegType(Ids(n), s)  BY DEF Kept
<1>7. WithLife(w, a, f).of[a] = f /\ WithLife(w, a, f).stopped = w.stopped
  BY <1>6, WithLifeFacts
<1> QED BY <1>5, <1>7

\* Revoking admission keeps everything listed.
LEMMA BeginCloseKeeps ==
  ASSUME NEW h, NEW drawn, NEW n \in Nat, NEW s \in Nat, NEW w, Kept(w, h, drawn, n, s),
         NEW a \in Agents, w.of[a].life \notin {"absent", "closed"}
  PROVE  Kept(BeginClose(w, a), h, drawn, n, s)
<1> DEFINE e == w.of[a] f == [e EXCEPT !.life = "closing"]
<1>1. e \in LifeType(Ids(n), s)  BY LifeFacts
<1>2. /\ f \in LifeType(Ids(n), s) /\ f.life = "closing" /\ f.id = e.id /\ f.owned = e.owned
      /\ f.ready = e.ready /\ f.opening = e.opening /\ f.closing = e.closing
  BY <1>1 DEF LifeType, Lives
<1>3. BeginClose(w, a) = WithLife(w, a, f)  BY DEF BeginClose, WithLife, Kept, RegType, LifeType
<1> HIDE DEF f
<1> QED BY <1>2, <1>3, ClosingKeeps

\* A lifetime e whose close is under way.
Begun(e) == [e EXCEPT !.life = "closing", !.closing.on = TRUE]

\* A close under way is run, or already runs.
LEMMA ScheduleCloseRuns ==
  ASSUME NEW L, NEW s, NEW w \in RegType(L, s), NEW a \in Agents
  PROVE  ScheduleClose(w, a) \in
           {RunClose(WithLife(w, a, Begun(w.of[a])), a), WithLife(w, a, Begun(w.of[a]))}
<1> DEFINE e == w.of[a] f == Begun(e) g == [e EXCEPT !.life = "closing"]
<1>1. w.of \in [Agents -> LifeType(L, s)] /\ e \in LifeType(L, s)  BY DEF RegType
<1>2. /\ g \in LifeType(L, s) /\ f = [g EXCEPT !.closing.on = TRUE]
      /\ BeginClose(w, a) = [w EXCEPT !.of = [w.of EXCEPT ![a] = g]]
  BY <1>1 DEF Begun, BeginClose, LifeType, Lives, RegType
<1> HIDE DEF g, f
<1>3. [BeginClose(w, a) EXCEPT !.of[a].closing.on = TRUE]
        = [w EXCEPT !.of = [w.of EXCEPT ![a] = [g EXCEPT !.closing.on = TRUE]]]
  BY <1>1, <1>2 DEF RegType
<1>4. [BeginClose(w, a) EXCEPT !.of[a].closing.on = TRUE] = WithLife(w, a, f)
  BY <1>2, <1>3 DEF WithLife
<1> QED BY <1>4 DEF ScheduleClose, f

\* A close begins, joins the one in progress, or waits for a start to answer.
LEMMA ScheduleCloseKeeps ==
  ASSUME NEW h, NEW drawn, NEW n \in Nat, NEW s \in Nat, NEW w, Kept(w, h, drawn, n, s),
         NEW a \in Agents, w.of[a].life \notin {"absent", "closed"}
  PROVE  Kept(ScheduleClose(w, a), h, drawn, n, s)
<1> DEFINE e == w.of[a] f == Begun(e) v == WithLife(w, a, f)
<1>1. e \in LifeType(Ids(n), s) /\ w \in RegType(Ids(n), s)  BY LifeFacts DEF Kept
<1>2. /\ f \in LifeType(Ids(n), s) /\ f.life = "closing" /\ f.id = e.id /\ f.owned = e.owned
      /\ f.ready = e.ready /\ f.opening = e.opening
      /\ f.closing.stage = e.closing.stage /\ f.closing.resource = e.closing.resource
  BY <1>1 DEF Begun, LifeType, ClosingType, Lives
<1>3. ScheduleClose(w, a) \in {RunClose(v, a), v}  BY <1>1, ScheduleCloseRuns
<1> HIDE DEF f
<1>4. Kept(v, h, drawn, n, s) /\ v.of[a].life = "closing"  BY <1>2, ClosingKeeps
<1> HIDE DEF v
<1>5. Kept(RunClose(v, a), h, drawn, n, s)  BY <1>4, RunCloseKeeps
<1> QED BY <1>3, <1>4, <1>5

-----------------------------------------------------------------------------
(* Starting.                                                               *)

\* The answer of a start that is taken.
Settled(w, a) == [w EXCEPT !.of[a].opening.wait = "none", !.of[a].opening.answer = "none"]

\* A start that waits for nothing any more keeps what it owns.
LEMMA SettledKeeps ==
  ASSUME NEW h, NEW drawn, NEW n \in Nat, NEW s \in Nat, NEW w, Kept(w, h, drawn, n, s),
         NEW a \in Agents
  PROVE  /\ Kept(Settled(w, a), h, drawn, n, s)
         /\ Settled(w, a).of[a].opening.wait = "none"
         /\ Settled(w, a).of[a].life = w.of[a].life /\ Settled(w, a).of[a].id = w.of[a].id
         /\ Settled(w, a).of[a].ready = w.of[a].ready
         /\ Settled(w, a).of[a].owned = w.of[a].owned
         /\ Settled(w, a).of[a].opening.revision = w.of[a].opening.revision
         /\ Settled(w, a).seen = w.seen /\ Settled(w, a).stopped = w.stopped
         /\ \A b \in Agents : Settled(w, a).of[b].life = w.of[b].life
<1> DEFINE e == w.of[a]
           f == [e EXCEPT !.opening.wait = "none", !.opening.answer = "none"]
<1>1. /\ e \in LifeType(Ids(n), s) /\ Sound(e) /\ Holding(e, h, a)
      /\ Within(e, w.restarts[a].stage, w.seen, drawn[a], n)
  BY LifeFacts
<1>2. f \in LifeType(Ids(n), s)  BY <1>1 DEF LifeType, OpeningType, Waits, Answers
<1>3. /\ f.life = e.life /\ f.id = e.id /\ f.owned = e.owned /\ f.ready = e.ready
      /\ f.closing = e.closing /\ f.opening.wait = "none"
      /\ f.opening.revision = e.opening.revision
  BY <1>1 DEF LifeType, OpeningType
<1>4. Settled(w, a) = WithLife(w, a, f)
  BY ZenonT(40) DEF Settled, WithLife, Kept, RegType, LifeType, OpeningType
<1> HIDE DEF e, f
<1>5. Sound(f)  BY <1>1, <1>3 DEF Sound
<1>6. Holding(f, h, a)  BY <1>1, <1>3 DEF Holding
<1>7. Within(f, w.restarts[a].stage, w.seen, drawn[a], n)  BY <1>1, <1>3 DEF Within
<1>8. /\ Kept(WithLife(w, a, f), h, drawn, n, s)
      /\ WithLife(w, a, f).of[a] = f
      /\ \A b \in Agents \ {a} : WithLife(w, a, f).of[b] = w.of[b]
      /\ WithLife(w, a, f).seen = w.seen /\ WithLife(w, a, f).stopped = w.stopped
  <2>1. Kept(WithLife(w, a, f), h, drawn, n, s)  BY <1>2, <1>5, <1>6, <1>7, OneLife
  <2>2. w \in RegType(Ids(n), s) /\ w.of \in [Agents -> LifeType(Ids(n), s)]
    BY DEF Kept, RegType
  <2>3. /\ \A b \in Agents : WithLife(w, a, f).of[b] = IF b = a THEN f ELSE w.of[b]
        /\ WithLife(w, a, f).seen = w.seen /\ WithLife(w, a, f).stopped = w.stopped
    BY <1>2, <2>2, WithLifeFacts
  <2> QED BY <2>1, <2>2, <2>3
<1>9. \A b \in Agents : Settled(w, a).of[b].life = w.of[b].life
  BY <1>3, <1>4, <1>8 DEF e
<1> QED BY <1>3, <1>4, <1>8, <1>9 DEF e

\* How a start ends: the Agent is published, or begins to close.
Ended(w, a, bad) ==
  IF bad THEN FailInitialization(w, a) ELSE [w EXCEPT !.of[a].life = "available"]

\* Only a start that made everything ready is published.
LEMMA EndedKeeps ==
  ASSUME NEW h, NEW drawn, NEW n \in Nat, NEW s \in Nat, NEW w, Kept(w, h, drawn, n, s),
         NEW a \in Agents, w.of[a].id # 0, w.of[a].opening.wait = "none", NEW bad \in BOOLEAN,
         ~bad => Open(w, a) /\ Unready(w, a) = {}
  PROVE  Kept(Ended(w, a, bad), h, drawn, n, s)
<1> DEFINE e == w.of[a]
<1>1. /\ e \in LifeType(Ids(n), s) /\ Sound(e) /\ Holding(e, h, a)
      /\ Within(e, w.restarts[a].stage, w.seen, drawn[a], n)
  BY LifeFacts
<1>2. CASE bad /\ e.life \in {"closed", "available"}
  BY <1>2 DEF Ended, FailInitialization
<1>3. CASE bad /\ e.life \notin {"closed", "available"}
  <2> DEFINE f == [e EXCEPT !.failed = TRUE, !.life = "closing"]
  <2>1. Ended(w, a, bad) = WithLife(w, a, f)
    BY <1>3 DEF Ended, FailInitialization, WithLife, Kept, RegType, LifeType
  <2>2. /\ f \in LifeType(Ids(n), s) /\ f.life = "closing" /\ f.id = e.id /\ f.owned = e.owned
        /\ f.ready = e.ready /\ f.opening = e.opening /\ f.closing = e.closing
    BY <1>1 DEF LifeType, Lives
  <2>3. e.life \notin {"absent", "closed"}  BY <1>1, <1>3 DEF Sound
  <2> HIDE DEF f
  <2> QED BY <2>1, <2>2, <2>3, ClosingKeeps
<1>4. CASE ~bad
  <2> DEFINE f == [e EXCEPT !.life = "available"]
  <2>1. Ended(w, a, bad) = WithLife(w, a, f)
    BY <1>4 DEF Ended, WithLife, Kept, RegType, LifeType
  <2>2. /\ f \in LifeType(Ids(n), s) /\ f.life = "available" /\ f.id = e.id /\ f.owned = e.owned
        /\ f.ready = e.ready /\ f.opening = e.opening /\ f.closing = e.closing
    BY <1>1 DEF LifeType, Lives
  <2>3. e.life \in {"initializing", "available"}  BY <1>4 DEF Open
  <2>4. e.ready = Components
    <3>1. e.ready \subseteq Components  BY <1>1 DEF LifeType
    <3> QED BY <1>4, <3>1, AllReady
  <2> HIDE DEF f
  <2>5. Sound(f)  BY <1>1, <2>2, <2>3, <2>4 DEF Sound
  <2>6. Holding(f, h, a)  BY <1>1, <2>2, <2>3 DEF Holding
  <2>7. Within(f, w.restarts[a].stage, w.seen, drawn[a], n)
    BY <1>1, <2>2, <2>3 DEF Within
  <2> QED BY <2>1, <2>2, <2>5, <2>6, <2>7, OneLife
<1> QED BY <1>2, <1>3, <1>4

\* A start that ends publishes an Agent that has everything, or begins its close.
LEMMA FinishCreationKeeps ==
  ASSUME NEW h, NEW drawn \in [Agents -> Nat], NEW n \in Nat, NEW s \in Nat, NEW w,
         Kept(w, h, drawn, n, s), NEW a \in Agents, w.of[a].id # 0, NEW failed \in BOOLEAN
  PROVE  Kept(FinishCreation(w, a, failed), h, drawn, n, s)
<1> DEFINE settled == Settled(w, a)
           bad == failed \/ ~Admitted(w, a) \/ ~Open(w, a) \/ Unready(w, a) # {}
           ended == Ended(settled, a, bad)
           answered == AnswerStart(ended, a, ~bad)
           changed == IF bad THEN answered ELSE RestartChanged(answered)
<1>1. FinishCreation(w, a, failed) =
        IF changed.of[a].life = "closing" THEN ScheduleClose(changed, a) ELSE changed
  BY Zenon DEF FinishCreation, Settled, Ended
<1>2. /\ Kept(settled, h, drawn, n, s) /\ settled.of[a].opening.wait = "none"
      /\ settled.of[a].life = w.of[a].life /\ settled.of[a].id = w.of[a].id
      /\ settled.of[a].ready = w.of[a].ready
  BY SettledKeeps
<1> HIDE DEF settled
<1>3. Kept(ended, h, drawn, n, s)
  <2>1. bad \in BOOLEAN  OBVIOUS
  <2>2. ~bad => Open(settled, a) /\ Unready(settled, a) = {}
    BY <1>2 DEF Open, Unready
  <2> HIDE DEF bad
  <2> QED BY <1>2, <2>1, <2>2, EndedKeeps
<1> HIDE DEF ended, bad
<1>4. Kept(answered, h, drawn, n, s)
  <2>1. (~bad) \in BOOLEAN  BY DEF bad
  <2> QED BY <1>3, <2>1, AnswerStartKeeps
<1> HIDE DEF answered
<1>5. Kept(changed, h, drawn, n, s)
  <2>1. Kept(RestartChanged(answered), h, drawn, n, s)  BY <1>4, RestartChangedKeeps
  <2> QED BY <1>4, <2>1
<1> HIDE DEF changed
<1>6. changed.of[a].life = "closing" => Kept(ScheduleClose(changed, a), h, drawn, n, s)
  BY <1>5, ScheduleCloseKeeps
<1> QED BY <1>1, <1>5, <1>6

\* A start that is not admitted fails, and one with every component ready succeeds.
LEMMA CreationEnds ==
  ASSUME NEW w, NEW a
  PROVE  /\ ~Admitted(w, a) => RunCreation(w, a) = FinishCreation(w, a, TRUE)
         /\ Admitted(w, a) /\ Unready(w, a) = {} =>
              RunCreation(w, a) = FinishCreation(w, a, FALSE)
<1> DEFINE c == NextComponent(w, a)
           waiting == [w.of[a].opening EXCEPT !.wait = "component", !.component = c,
                                              !.answer = "asked"]
           asks == [w EXCEPT !.of[a].owned = @ \cup Owns(c), !.of[a].opening = waiting]
<1>1. RunCreation(w, a) = IF ~Admitted(w, a) THEN FinishCreation(w, a, TRUE)
                          ELSE IF Unready(w, a) = {} THEN FinishCreation(w, a, FALSE) ELSE asks
  BY Zenon DEF RunCreation
<1> HIDE DEF asks
<1> QED BY <1>1

\* A lifetime e that asks for the component c.
AskingFor(e, c) ==
  [e EXCEPT !.owned = @ \cup Owns(c),
            !.opening = [@ EXCEPT !.wait = "component", !.component = c, !.answer = "asked"]]

\* A start that is admitted asks for the next component.
LEMMA RunCreationAsks ==
  ASSUME NEW L, NEW s, NEW w \in RegType(L, s), NEW a \in Agents, Admitted(w, a),
         Unready(w, a) # {}
  PROVE  RunCreation(w, a) = WithLife(w, a, AskingFor(w.of[a], NextComponent(w, a)))
<1> DEFINE e == w.of[a] c == NextComponent(w, a)
           o == [e.opening EXCEPT !.wait = "component", !.component = c, !.answer = "asked"]
           own == e.owned \cup Owns(c)
           f == [e EXCEPT !.owned = own, !.opening = o]
           lives == [w.of EXCEPT ![a].owned = own, ![a].opening = o]
<1>1. w.of \in [Agents -> LifeType(L, s)] /\ e \in LifeType(L, s)  BY DEF RegType
<1>2. RunCreation(w, a) = [w EXCEPT !.of[a].owned = own, !.of[a].opening = o]
  BY Zenon DEF RunCreation
<1>3. f = AskingFor(e, c)  BY <1>1 DEF AskingFor, LifeType
<1> HIDE DEF c, own, o
<1>4. RunCreation(w, a) = [w EXCEPT !.of = lives]  BY <1>1, <1>2 DEF RegType
<1>5. lives = [w.of EXCEPT ![a] = f]  BY <1>1
<1> HIDE DEF f, e, lives
<1> QED BY <1>3, <1>4, <1>5 DEF WithLife, c, e

\* A start asks for the next component, once the responsibility is recorded.
LEMMA RunCreationKeeps ==
  ASSUME NEW h, NEW drawn \in [Agents -> Nat], NEW n \in Nat, NEW s \in Nat, NEW w,
         Kept(w, h, drawn, n, s), NEW a \in Agents, w.of[a].id # 0,
         w.of[a].opening.wait = "none",
         SessionOf \notin w.of[a].ready => <<a, w.of[a].id, <<"conversation", 0>>>> \notin h
  PROVE  Kept(RunCreation(w, a), h, drawn, n, s)
<1> DEFINE e == w.of[a] c == NextComponent(w, a)
           o == [e.opening EXCEPT !.wait = "component", !.component = c, !.answer = "asked"]
           own == e.owned \cup Owns(c)
           f == [e EXCEPT !.owned = own, !.opening = o]
<1>1. CASE ~Admitted(w, a)
  <2>1. RunCreation(w, a) = FinishCreation(w, a, TRUE)  BY <1>1, CreationEnds
  <2> QED BY <2>1, FinishCreationKeeps, ZenonT(60)
<1>2. CASE Admitted(w, a) /\ Unready(w, a) = {}
  <2>1. RunCreation(w, a) = FinishCreation(w, a, FALSE)  BY <1>2, CreationEnds
  <2> QED BY <2>1, FinishCreationKeeps, ZenonT(60)
<1>3. CASE Admitted(w, a) /\ Unready(w, a) # {}
  <2>1. /\ e \in LifeType(Ids(n), s) /\ Sound(e) /\ Holding(e, h, a)
        /\ Within(e, w.restarts[a].stage, w.seen, drawn[a], n)
    BY LifeFacts
  <2>2. c \in Components \ e.ready /\ (c = SessionOf \/ SessionOf \in e.ready)
    BY <1>3, NextComponentFacts
  <2>3. RunCreation(w, a) = WithLife(w, a, f)
    <3>1. w \in RegType(Ids(n), s)  BY DEF Kept
    <3>2. RunCreation(w, a) = WithLife(w, a, AskingFor(e, c))  BY <1>3, <3>1, RunCreationAsks
    <3> HIDE DEF c
    <3>3. AskingFor(e, c) = f  BY <2>1 DEF AskingFor, LifeType
    <3> QED BY <3>2, <3>3
  <2>4. e.life = "initializing" /\ e.closing.stage = "none"
    <3>1. e.life \in {"initializing", "available"}  BY <1>3 DEF Admitted, Open
    <3>2. e.ready # Components  BY <2>2
    <3> QED BY <2>1, <3>1, <3>2 DEF Sound
  <2>5. Owns(c) \subseteq Resources  BY <2>2, OwnsFacts
  <2> HIDE DEF c
  <2>6. o \in OpeningType(s)
    BY <2>1, <2>2 DEF LifeType, OpeningType, Waits, Answers
  <2>7. /\ o.wait = "component" /\ o.component = c /\ o.answer = "asked"
        /\ o.revision = e.opening.revision
    BY <2>1 DEF LifeType, OpeningType
  <2> HIDE DEF o
  <2>8. f \in LifeType(Ids(n), s)  BY <2>1, <2>5, <2>6 DEF LifeType
  <2>9. /\ f.life = e.life /\ f.id = e.id /\ f.owned = e.owned \cup Owns(c) /\ f.ready = e.ready
        /\ f.closing = e.closing /\ f.opening = o
    BY <2>1 DEF LifeType
  <2>10. SessionOf \notin e.ready => <<a, e.id, <<"conversation", 0>>>> \notin h  OBVIOUS
  <2> HIDE DEF f, e
  <2>11. Sound(f)  BY <2>1, <2>2, <2>4, <2>7, <2>9 DEF Sound
  <2>12. Holding(f, h, a)
    BY <2>1, <2>2, <2>4, <2>7, <2>9, <2>10 DEF Holding
  <2>13. Within(f, w.restarts[a].stage, w.seen, drawn[a], n)
    BY <2>1, <2>7, <2>9 DEF Within
  <2> QED BY <2>3, <2>8, <2>11, <2>12, <2>13, OneLife
<1> QED BY <1>1, <1>2, <1>3

\* A lifetime e that reads the Settings.
Reading(e) == [e EXCEPT !.opening.wait = "settings", !.opening.answer = "asked"]

\* The start of a root reads the Settings.
LEMMA PrepareCreationReads ==
  ASSUME NEW L, NEW s, NEW w \in RegType(L, s), NEW a \in Roots
  PROVE  PrepareCreation(w, a) = [WithLife(w, a, Reading(w.of[a])) EXCEPT !.observing = TRUE]
<1>1. /\ a \in Agents /\ w.of \in [Agents -> LifeType(L, s)] /\ w.of[a] \in LifeType(L, s)
  BY DEF Roots, RegType
<1> QED BY <1>1, ZenonT(40) DEF PrepareCreation, WithLife, Reading, RegType, LifeType, OpeningType

\* A start begins with the Settings, or with the first component.
LEMMA PrepareCreationKeeps ==
  ASSUME NEW h, NEW drawn \in [Agents -> Nat], NEW n \in Nat, NEW s \in Nat, NEW w,
         Kept(w, h, drawn, n, s), NEW a \in Agents, w.of[a].id # 0,
         w.of[a].life = "initializing", w.of[a].opening.wait = "none", w.of[a].ready = {},
         \A x \in h : x[1] # a
  PROVE  Kept(PrepareCreation(w, a), h, drawn, n, s)
<1> DEFINE e == w.of[a]
           f == [e EXCEPT !.opening.wait = "settings", !.opening.answer = "asked"]
           u == WithLife(w, a, f)
           v == [u EXCEPT !.observing = TRUE]
<1>1. CASE a \notin Roots
  <2>1. PrepareCreation(w, a) = RunCreation(w, a)  BY <1>1 DEF PrepareCreation
  <2>2. <<a, e.id, <<"conversation", 0>>>> \notin h  OBVIOUS
  <2> QED BY <2>1, <2>2, RunCreationKeeps
<1>2. CASE a \in Roots
  <2>1. /\ e \in LifeType(Ids(n), s) /\ Sound(e) /\ Holding(e, h, a)
        /\ Within(e, w.restarts[a].stage, w.seen, drawn[a], n)
    BY LifeFacts
  <2>2. PrepareCreation(w, a) = v
    <3>1. w \in RegType(Ids(n), s)  BY DEF Kept
    <3>2. PrepareCreation(w, a) = [WithLife(w, a, Reading(e)) EXCEPT !.observing = TRUE]
      BY <1>2, <3>1, PrepareCreationReads
    <3> QED BY <3>2 DEF Reading
  <2>3. f \in LifeType(Ids(n), s)  BY <2>1 DEF LifeType, OpeningType, Waits, Answers
  <2>4. /\ f.life = e.life /\ f.id = e.id /\ f.owned = e.owned /\ f.ready = e.ready
        /\ f.closing = e.closing /\ f.opening.wait = "settings"
        /\ f.opening.revision = e.opening.revision
    BY <2>1 DEF LifeType, OpeningType
  <2> HIDE DEF f
  <2>5. Sound(f)  BY <2>1, <2>4 DEF Sound
  <2>6. Holding(f, h, a)  BY <2>1, <2>4 DEF Holding
  <2>7. Within(f, w.restarts[a].stage, w.seen, drawn[a], n)  BY <2>1, <2>4 DEF Within
  <2>8. Kept(u, h, drawn, n, s)  BY <2>3, <2>5, <2>6, <2>7, OneLife
  <2> HIDE DEF u
  <2>9. /\ v \in RegType(Ids(n), s) /\ v.of = u.of /\ v.seen = u.seen
        /\ v.restarts = u.restarts
    BY <2>8 DEF Kept, RegType
  <2>10. Kept(v, h, drawn, n, s)
    <3>1. \A b \in Agents : v.restarts[b].stage \in {u.restarts[b].stage}  BY <2>9
    <3> HIDE DEF v
    <3> QED BY <2>8, <2>9, <3>1, KeptWithLives
  <2> QED BY <2>2, <2>10
<1> QED BY <1>1, <1>2

\* A new lifetime begins where there is none, so nothing is held.
LEMMA StartKeeps ==
  ASSUME NEW h, NEW drawn \in [Agents -> Nat], NEW n \in Nat, NEW s \in Nat, NEW w,
         Kept(w, h, drawn, n, s), NEW a \in Agents, ~Registered(w, a),
         NEW id \in Ids(n), id # 0, id <= drawn[a], NEW parent \in Ids(n)
  PROVE  Kept(Start(w, a, id, parent), h, drawn, n, s)
<1> DEFINE e == w.of[a]
           f == [NewLife(a, "initializing", id, parent) EXCEPT !.opening.on = TRUE]
           u == WithLife(w, a, f)
<1>1. /\ e \in LifeType(Ids(n), s) /\ Sound(e) /\ Holding(e, h, a)
      /\ Within(e, w.restarts[a].stage, w.seen, drawn[a], n)
  BY LifeFacts
<1>2. \A x \in h : x[1] # a  BY <1>1 DEF Holding, Sound, Registered
<1>3. NoOpening \in OpeningType(s) /\ NoClosing \in ClosingType
  BY ComponentsNamed, ResourceKinds
     DEF OpeningType, ClosingType, NoOpening, NoClosing, Answers, Waits, CloseStages, SessionOf,
         Duties, Claimed
<1>4. f \in LifeType(Ids(n), s)  BY <1>3 DEF NewLife, LifeType, Lives, OpeningType
<1>5. /\ f.life = "initializing" /\ f.id = id /\ f.ready = {} /\ f.closing.stage = "none"
      /\ f.opening.wait = "none" /\ f.opening.revision = 0
  BY DEF NewLife, NoOpening, NoClosing
<1>6. Start(w, a, id, parent) = PrepareCreation(u, a)
  BY DEF Start, WithLife, Kept, RegType
<1> HIDE DEF f, e
<1>7. Sound(f)  BY <1>5 DEF Sound
<1>8. Holding(f, h, a)  BY <1>2, <1>5 DEF Holding
<1>9. Within(f, w.restarts[a].stage, w.seen, drawn[a], n)
  <2>1. w.seen \in Nat  BY DEF Kept, RegType
  <2> QED BY <1>1, <1>5, <2>1 DEF Within
<1>10. Kept(u, h, drawn, n, s)  BY <1>4, <1>7, <1>8, <1>9, OneLife
<1>11. u.of[a] = f
  <2>1. w \in RegType(Ids(n), s)  BY DEF Kept
  <2> QED BY <1>4, <2>1, WithLifeFacts
<1> HIDE DEF u
<1>12. Kept(PrepareCreation(u, a), h, drawn, n, s)
  <2>1. /\ u.of[a].id # 0 /\ u.of[a].life = "initializing" /\ u.of[a].opening.wait = "none"
        /\ u.of[a].ready = {}
    BY <1>5, <1>11
  <2> QED BY <1>2, <1>10, <2>1, PrepareCreationKeeps
<1> QED BY <1>6, <1>12

-----------------------------------------------------------------------------
(* Requests of callers.                                                    *)

\* A request is handed to the AgentLoop for its own answer, or refused.
LEMMA VerifyKeeps ==
  ASSUME NEW h, NEW drawn, NEW n \in Nat, NEW s \in Nat, NEW w, Kept(w, h, drawn, n, s),
         NEW c \in Callers, NEW a \in Agents
  PROVE  Kept(Verify(w, c, a), h, drawn, n, s)
<1>1. w.of[a].id \in Ids(n)  BY LifeFacts DEF LifeType
<1>2. "verify" \in Requested /\ "refused" \in Replies  BY DEF Requested, Replies
<1>3. Kept(Park(w, c, "verify", a, w.of[a].id), h, drawn, n, s)  BY <1>1, <1>2, ParkKeeps
<1>4. Kept(Answer(w, {c}, "refused"), h, drawn, n, s)  BY <1>2, AnswerKeeps
<1> QED BY <1>3, <1>4 DEF Verify

\* CreateAgent reuses the lifetime it finds or starts a fresh one.
LEMMA CreateAgentKeeps ==
  ASSUME NEW h, NEW drawn \in [Agents -> Nat], NEW n \in Nat, NEW s \in Nat, NEW w,
         Kept(w, h, drawn, n, s), NEW c \in Callers, NEW a \in Agents,
         NEW id \in Ids(n), id # 0, id <= drawn[a], NEW parent \in Ids(n)
  PROVE  Kept(CreateAgent(w, c, a, id, parent), h, drawn, n, s)
<1>1. "start" \in Requested /\ "refused" \in Replies  BY DEF Requested, Replies
<1>2. Kept(Answer(w, {c}, "refused"), h, drawn, n, s)  BY <1>1, AnswerKeeps
<1> DEFINE v == Park(w, c, "start", a, id)
<1>3. Kept(v, h, drawn, n, s) /\ v = [w EXCEPT !.calls = v.calls]  BY <1>1, ParkKeeps
<1>4. Kept(Verify(w, c, a), h, drawn, n, s)  BY VerifyKeeps
<1>5. CASE Registered(w, a)
  <2>1. Kept(Reuse(w, c, a, id, parent), h, drawn, n, s)
    BY <1>2, <1>3, <1>4 DEF Reuse
  <2> QED BY <1>5, <2>1 DEF CreateAgent
<1>6. CASE ~Registered(w, a) /\ ReserveRefused(w, a, id, parent)
  BY <1>2, <1>6 DEF CreateAgent
<1>7. CASE ~Registered(w, a) /\ ~ReserveRefused(w, a, id, parent)
  <2>1. CreateAgent(w, c, a, id, parent) = Start(v, a, id, parent)  BY <1>7 DEF CreateAgent
  <2> HIDE DEF v
  <2>2. v.of = w.of  BY <1>3 DEF Kept, RegType
  <2>3. ~Registered(v, a)  BY <1>7, <2>2 DEF Registered
  <2> QED BY <1>3, <2>1, <2>3, StartKeeps
<1> QED BY <1>5, <1>6, <1>7

\* CreateChildAgent is CreateAgent under a parent that has started.
LEMMA CreateChildAgentKeeps ==
  ASSUME NEW h, NEW drawn \in [Agents -> Nat], NEW n \in Nat, NEW s \in Nat, NEW w,
         Kept(w, h, drawn, n, s), NEW c \in Callers, NEW a \in Agents,
         NEW id \in Ids(n), id # 0, id <= drawn[a], NEW parent \in Ids(n)
  PROVE  Kept(CreateChildAgent(w, c, a, id, parent), h, drawn, n, s)
<1>1. "refused" \in Replies  BY DEF Replies
<1>2. Kept(Answer(w, {c}, "refused"), h, drawn, n, s)  BY <1>1, AnswerKeeps
<1>3. Kept(CreateAgent(w, c, a, id, parent), h, drawn, n, s)  BY CreateAgentKeeps
<1> QED BY <1>2, <1>3 DEF CreateChildAgent

\* FindAgent waits for a start or a replacement, or verifies at once.
LEMMA ResolveKeeps ==
  ASSUME NEW h, NEW drawn, NEW n \in Nat, NEW s \in Nat, NEW w, Kept(w, h, drawn, n, s),
         NEW c \in Callers, NEW a \in Agents
  PROVE  Kept(Resolve(w, c, a), h, drawn, n, s)
<1>1. w.of[a].id \in Ids(n) /\ 0 \in Ids(n)  BY LifeFacts, ZeroIsId DEF LifeType
<1>2. {"start", "restart"} \subseteq Requested /\ "refused" \in Replies
  BY DEF Requested, Replies
<1>3. Kept(Park(w, c, "start", a, w.of[a].id), h, drawn, n, s)  BY <1>1, <1>2, ParkKeeps
<1>4. Kept(Park(w, c, "restart", a, 0), h, drawn, n, s)  BY <1>1, <1>2, ParkKeeps
<1>5. Kept(Answer(w, {c}, "refused"), h, drawn, n, s)  BY <1>2, AnswerKeeps
<1>6. Kept(Verify(w, c, a), h, drawn, n, s)  BY VerifyKeeps
<1> QED BY <1>3, <1>4, <1>5, <1>6 DEF Resolve

\* A lifetime that is current is registered.
LEMMA CurrentIsRegistered ==
  ASSUME NEW h, NEW drawn, NEW n \in Nat, NEW s \in Nat, NEW w, Kept(w, h, drawn, n, s),
         NEW a \in Agents, NEW id, Current(w, a, id)
  PROVE  w.of[a].life \notin {"absent", "closed"}
<1>1. Sound(w.of[a])  BY LifeFacts
<1> QED BY <1>1 DEF Current, Sound

\* CloseAgent parks its caller and schedules the close.
LEMMA CloseAgentKeeps ==
  ASSUME NEW h, NEW drawn, NEW n \in Nat, NEW s \in Nat, NEW w, Kept(w, h, drawn, n, s),
         NEW c \in Callers, NEW a \in Agents, NEW id \in Ids(n)
  PROVE  Kept(CloseAgent(w, c, a, id), h, drawn, n, s)
<1>1. "close" \in Requested /\ {"refused", "closed"} \subseteq Replies
  BY DEF Requested, Replies
<1>2. Kept(Answer(w, {c}, "refused"), h, drawn, n, s)  BY <1>1, AnswerKeeps
<1>3. Kept(Answer(w, {c}, "closed"), h, drawn, n, s)  BY <1>1, AnswerKeeps
<1>4. CASE Current(w, a, id)
  <2> DEFINE v == Park(w, c, "close", a, id)
  <2>1. Kept(v, h, drawn, n, s) /\ v = [w EXCEPT !.calls = v.calls]  BY <1>1, ParkKeeps
  <2>2. CloseAgent(w, c, a, id) \in {Answer(w, {c}, "closed"), ScheduleClose(v, a)}
    BY <1>4 DEF CloseAgent
  <2> HIDE DEF v
  <2>3. v.of = w.of  BY <2>1 DEF Kept, RegType
  <2>4. v.of[a].life \notin {"absent", "closed"}  BY <1>4, <2>3, CurrentIsRegistered
  <2>5. Kept(ScheduleClose(v, a), h, drawn, n, s)  BY <2>1, <2>4, ScheduleCloseKeeps
  <2> QED BY <1>3, <2>2, <2>5
<1>5. CASE ~Current(w, a, id)  BY <1>2, <1>3, <1>5 DEF CloseAgent
<1> QED BY <1>4, <1>5

-----------------------------------------------------------------------------
(* The steps.                                                              *)

Creations == spent.of.creations

\* What the invariant says of the constants of a step.
LEMMA ListedFacts ==
  ASSUME ListedInv
  PROVE  /\ Creations \in Nat /\ saved \in Nat /\ saved \in Revisions
         /\ spent.created \in [Agents -> Nat] /\ Lifetimes = Ids(Creations)
         /\ Kept(reg, held, spent.created, Creations, saved)
         /\ spent.of.asks \subseteq Callers \X Agents
         /\ spent.of.faults \in Nat /\ spent.of.lost \in Nat
         /\ reg \in RegType(Ids(Creations), saved)
         /\ reg.of \in [Agents -> LifeType(Ids(Creations), saved)]
<1>1. spent \in SpentType /\ saved \in Revisions /\ Kept(reg, held, spent.created, Creations, saved)
  BY DEF ListedInv, OthersInv, Creations
<1>2. spent.of \in Settings /\ spent.created \in [Agents -> Lifetimes]  BY <1>1 DEF SpentType
<1>3. /\ Creations \in Nat /\ spent.of.asks \subseteq Callers \X Agents
      /\ spent.of.faults \in Nat /\ spent.of.lost \in Nat
  BY <1>2, RegistryAssumption DEF Creations
<1>4. Lifetimes = Ids(Creations)  BY DEF Lifetimes, Ids, Creations
<1>5. Ids(Creations) \subseteq Nat  BY <1>3, SomeRevision DEF Ids
<1>6. saved \in Nat  BY <1>1, SomeRevision DEF Revisions
<1>7. /\ reg \in RegType(Ids(Creations), saved)
      /\ reg.of \in [Agents -> LifeType(Ids(Creations), saved)]
  BY <1>1 DEF Kept, RegType
<1> QED BY <1>1, <1>2, <1>3, <1>4, <1>5, <1>6, <1>7

\* A fault is counted, and nothing else.
LEMMA FaultFacts ==
  ASSUME ListedInv, Fault \/ UNCHANGED spent
  PROVE  /\ spent' \in [of : Settings, created : [Agents -> Lifetimes], lost : Nat, faults : Nat]
         /\ spent'.of = spent.of /\ spent'.created = spent.created
         /\ spent'.lost <= spent'.of.lost /\ spent'.faults <= spent'.of.faults
<1>1. /\ spent \in [of : Settings, created : [Agents -> Lifetimes], lost : Nat, faults : Nat]
      /\ spent.lost <= spent.of.lost /\ spent.faults <= spent.of.faults
  BY DEF ListedInv, OthersInv, SpentType
<1>2. spent.of.faults \in Nat  BY ListedFacts
<1>3. CASE UNCHANGED spent  BY <1>1, <1>3
<1>4. CASE Fault
  <2>1. spent.faults + 1 \in Nat /\ spent.faults + 1 <= spent.of.faults  BY <1>1, <1>2, <1>4 DEF Fault
  <2>2. spent' = [spent EXCEPT !.faults = spent.faults + 1]  BY <1>1, <1>4 DEF Fault
  <2> QED BY <1>1, <2>1, <2>2
<1> QED BY <1>3, <1>4

\* A step of the Registry or of an owner that saves no Settings and draws no lifetime.
LEMMA ListedStep ==
  ASSUME ListedInv, Fault \/ UNCHANGED spent, UNCHANGED <<saved, notices>>,
         held' \subseteq Agents \X Lifetimes \X Resources,
         loops' \in [Agents -> [instance : Nat, creation : Lifetimes]],
         asked' \subseteq Agents \X Lifetimes \X {"close", "lost"},
         Kept(reg', held', spent.created, Creations, saved)
  PROVE  ListedInv'
<1>1. /\ spent' \in [of : Settings, created : [Agents -> Lifetimes], lost : Nat, faults : Nat]
      /\ spent'.of = spent.of /\ spent'.created = spent.created
      /\ spent'.lost <= spent'.of.lost /\ spent'.faults <= spent'.of.faults
  BY FaultFacts
<1>2. Lifetimes' = Lifetimes  BY <1>1 DEF Lifetimes
<1>3. OthersInv'  BY <1>1, <1>2 DEF ListedInv, OthersInv, SpentType
<1>4. Kept(reg, held, spent.created, spent.of.creations, saved)'  BY <1>1 DEF Creations
<1> QED BY <1>3, <1>4 DEF ListedInv

\* A step of the Registry alone.
LEMMA RegistryStep ==
  ASSUME ListedInv, UNCHANGED <<Outside, spent, asked>>,
         Kept(reg', held, spent.created, Creations, saved)
  PROVE  ListedInv'
<1>1. /\ saved' = saved /\ notices' = notices /\ held' = held /\ loops' = loops
      /\ spent' = spent /\ asked' = asked
  BY DEF Outside
<1>2. /\ held' \subseteq Agents \X Lifetimes \X Resources
      /\ loops' \in [Agents -> [instance : Nat, creation : Lifetimes]]
      /\ asked' \subseteq Agents \X Lifetimes \X {"close", "lost"}
  BY <1>1 DEF ListedInv, OthersInv
<1> QED BY <1>1, <1>2, ListedStep

\* A caller repeats a lifetime or takes the next; the bound of a replacement in
\* progress is above what callers may draw.
LEMMA DrawnKeeps ==
  ASSUME ListedInv, NEW a \in Agents, NEW id \in Identities(a), Drawn(a, id)
  PROVE  /\ Kept(reg, held, spent'.created, Creations, saved)
         /\ id \in Ids(Creations) /\ id # 0 /\ id <= spent'.created[a]
         /\ spent' \in [of : Settings, created : [Agents -> Lifetimes], lost : Nat, faults : Nat]
         /\ spent' = [spent EXCEPT !.created = spent'.created]
         /\ spent'.created \in [Agents -> Nat]
<1> DEFINE drawn == spent.created n == Creations
           next == IF id > drawn[a] THEN id ELSE drawn[a]
           created == [drawn EXCEPT ![a] = next]
<1>1. /\ n \in Nat /\ drawn \in [Agents -> Nat] /\ Lifetimes = Ids(n) /\ Ids(n) \subseteq Nat
      /\ Kept(reg, held, drawn, n, saved)
  BY ListedFacts, SomeRevision DEF Ids
<1>2. /\ spent \in [of : Settings, created : [Agents -> Lifetimes], lost : Nat, faults : Nat]
  BY DEF ListedInv, OthersInv, SpentType
<1>3. spent' = [spent EXCEPT !.created = created]  BY <1>2 DEF Drawn
<1>4. reg.of[a].id \in Ids(n) /\ Within(reg.of[a], reg.restarts[a].stage, reg.seen, drawn[a], n)
  <2>1. reg.of[a] \in LifeType(Ids(n), saved)  BY ListedFacts
  <2>2. reg.of[a].id \in Ids(n)  BY <2>1 DEF LifeType
  <2> QED BY <2>2, <1>1 DEF Kept
<1>5. id # 0 /\ id \in Ids(n) /\ (id <= drawn[a] \/ (id = drawn[a] + 1 /\ id <= n))
  <2>1. CASE id = reg.of[a].id /\ id # 0  BY <2>1, <1>4 DEF Within
  <2>2. CASE drawn[a] < n /\ id = drawn[a] + 1
    BY <2>2, <1>1, SomeRevision DEF Ids
  <2> QED BY <2>1, <2>2 DEF Identities, Creations
<1>6. next \in Ids(n) /\ next \in Nat  BY <1>1, <1>2, <1>5
<1>7. created \in [Agents -> Lifetimes] /\ created \in [Agents -> Nat]  BY <1>1, <1>2, <1>6
<1>8. created[a] = next /\ \A b \in Agents \ {a} : created[b] = drawn[b]  BY <1>1
<1>9. spent'.created = created  BY <1>2, <1>3
<1> HIDE DEF created
<1>10. spent' \in [of : Settings, created : [Agents -> Lifetimes], lost : Nat, faults : Nat]
  BY <1>2, <1>3, <1>7
<1>11. Within(reg.of[a], reg.restarts[a].stage, reg.seen, next, n)
  <2>1. CASE next = drawn[a]  BY <2>1, <1>4
  <2>2. CASE next # drawn[a]
    <3>1. next = id /\ next <= n /\ drawn[a] <= n  BY <2>2, <1>1, <1>5
    <3>2. /\ reg.seen \in Nat /\ reg.of[a].opening.revision \in Nat /\ reg.of[a].id \in Nat
      <4>1. reg.of[a] \in LifeType(Ids(n), saved) /\ reg \in RegType(Ids(n), saved)  BY ListedFacts
      <4> QED BY <1>1, <4>1 DEF LifeType, OpeningType, RegType
    <3> QED BY <1>1, <1>4, <1>5, <1>6, <3>1, <3>2 DEF Within
  <2> QED BY <2>1, <2>2
<1>12. Kept(reg, held, created, n, saved)
  BY <1>1, <1>8, <1>11 DEF Kept
<1>13. id <= created[a]  BY <1>1, <1>5, <1>6, <1>8
<1> QED BY <1>3, <1>5, <1>7, <1>9, <1>10, <1>12, <1>13

\* A step that draws a lifetime and changes the directory.
LEMMA DrawnStep ==
  ASSUME ListedInv, NEW a \in Agents, NEW id \in Identities(a), Drawn(a, id),
         UNCHANGED <<Outside, asked>>, Kept(reg', held, spent'.created, Creations, saved)
  PROVE  ListedInv'
<1>1. /\ spent' \in [of : Settings, created : [Agents -> Lifetimes], lost : Nat, faults : Nat]
      /\ spent' = [spent EXCEPT !.created = spent'.created]
  BY DrawnKeeps
<1>2. spent \in [of : Settings, created : [Agents -> Lifetimes], lost : Nat, faults : Nat]
  BY DEF ListedInv, OthersInv, SpentType
<1>3. spent'.of = spent.of /\ spent'.lost = spent.lost /\ spent'.faults = spent.faults
  BY <1>1, <1>2
<1>4. Lifetimes' = Lifetimes  BY <1>3 DEF Lifetimes
<1>5. OthersInv'  BY <1>1, <1>3, <1>4 DEF ListedInv, OthersInv, SpentType, Outside
<1>6. Kept(reg, held, spent.created, spent.of.creations, saved)'
  BY <1>3 DEF Creations, Outside
<1> QED BY <1>5, <1>6 DEF ListedInv

\* A caller creates a root Agent.
LEMMA CreateStep ==
  ASSUME ListedInv, NEW c \in Callers, NEW a \in Agents, NEW id \in Identities(a), Create(c, a, id)
  PROVE  ListedInv'
<1>1. Drawn(a, id) /\ UNCHANGED <<Outside, asked>> /\ reg' = CreateAgent(reg, c, a, id, 0)
  BY DEF Create
<1>2. /\ Kept(reg, held, spent'.created, Creations, saved)
      /\ id \in Ids(Creations) /\ id # 0 /\ id <= spent'.created[a]
      /\ spent'.created \in [Agents -> Nat]
  BY <1>1, DrawnKeeps
<1>3. Creations \in Nat /\ saved \in Nat /\ 0 \in Ids(Creations)  BY ListedFacts, ZeroIsId
<1>4. Kept(reg', held, spent'.created, Creations, saved)
  BY <1>1, <1>2, <1>3, CreateAgentKeeps
<1> QED BY <1>1, <1>4, DrawnStep

\* A caller creates a child under a parent it names.
LEMMA CreateChildStep ==
  ASSUME ListedInv, NEW c \in Callers, NEW a \in Agents, NEW id \in Identities(a),
         NEW parent \in 1 .. spent.of.creations, CreateChild(c, a, id, parent)
  PROVE  ListedInv'
<1>1. Drawn(a, id) /\ UNCHANGED <<Outside, asked>> /\ reg' = CreateChildAgent(reg, c, a, id, parent)
  BY DEF CreateChild
<1>2. /\ Kept(reg, held, spent'.created, Creations, saved)
      /\ id \in Ids(Creations) /\ id # 0 /\ id <= spent'.created[a]
      /\ spent'.created \in [Agents -> Nat]
  BY <1>1, DrawnKeeps
<1>3. Creations \in Nat /\ saved \in Nat  BY ListedFacts
<1>4. parent \in Ids(Creations)  BY <1>3, SomeRevision DEF Ids, Creations
<1>5. Kept(reg', held, spent'.created, Creations, saved)
  BY <1>1, <1>2, <1>3, <1>4, CreateChildAgentKeeps
<1> QED BY <1>1, <1>5, DrawnStep

\* A caller looks an Agent up, waiting for it or not.
LEMMA FindStep ==
  ASSUME ListedInv, NEW c \in Callers, NEW a \in Agents, NEW wait \in BOOLEAN, Find(c, a, wait)
  PROVE  ListedInv'
<1>1. /\ Creations \in Nat /\ saved \in Nat
      /\ Kept(reg, held, spent.created, Creations, saved)
  BY ListedFacts
<1>2. Kept(Resolve(reg, c, a), held, spent.created, Creations, saved)  BY <1>1, ResolveKeeps
<1>3. Kept(Verify(reg, c, a), held, spent.created, Creations, saved)  BY <1>1, VerifyKeeps
<1>4. UNCHANGED <<Outside, spent, asked>> /\ reg' \in {Resolve(reg, c, a), Verify(reg, c, a)}
  BY DEF Find
<1> QED BY <1>2, <1>3, <1>4, RegistryStep

\* A caller closes a lifetime, which cancels its replacement.
LEMMA CloseStep ==
  ASSUME ListedInv, NEW c \in Callers, NEW a \in Agents, NEW id \in 1 .. spent.created[a],
         Close(c, a, id)
  PROVE  ListedInv'
<1>1. /\ Creations \in Nat /\ saved \in Nat /\ Lifetimes = Ids(Creations)
      /\ Kept(reg, held, spent.created, Creations, saved)
  BY ListedFacts
<1>2. id \in Ids(Creations)
  <2>1. spent.created[a] \in Lifetimes  BY DEF ListedInv, OthersInv, SpentType
  <2> QED BY <1>1, <2>1, SomeRevision DEF Ids
<1> DEFINE u == CancelNamed(reg, a, id)
<1>3. Kept(u, held, spent.created, Creations, saved)
  <2>1. Kept(CancelRestarts(reg, a), held, spent.created, Creations, saved)
    BY <1>1, CancelRestartsKeeps
  <2> QED BY <1>1, <2>1 DEF CancelNamed
<1>4. reg' = CloseAgent(u, c, a, id)  BY DEF Close
<1> HIDE DEF u
<1>5. Kept(reg', held, spent.created, Creations, saved)  BY <1>1, <1>2, <1>3, <1>4, CloseAgentKeeps
<1>6. /\ held' \subseteq Agents \X Lifetimes \X Resources
      /\ loops' \in [Agents -> [instance : Nat, creation : Lifetimes]]
      /\ asked' \subseteq Agents \X Lifetimes \X {"close", "lost"}
      /\ UNCHANGED <<saved, notices, spent>> /\ held' = held
  BY <1>1, <1>2 DEF Close, Outside, ListedInv, OthersInv
<1> QED BY <1>5, <1>6, ListedStep

\* The server stops admission, which cancels every replacement.
LEMMA StopAdmissionStep == ASSUME ListedInv, StopAdmission PROVE ListedInv'
<1> DEFINE u == Answer(reg, {c \in Callers : reg.calls[c].on = "restart"}, "refused")
           rs == [a \in Agents |-> NoRestart]
           v == [u EXCEPT !.stopped = TRUE, !.restarts = rs]
<1>1. /\ Creations \in Nat /\ saved \in Nat /\ 0 \in Ids(Creations)
      /\ Kept(reg, held, spent.created, Creations, saved)
  BY ListedFacts, ZeroIsId
<1>2. Kept(u, held, spent.created, Creations, saved)
  <2>1. "refused" \in Replies  BY DEF Replies
  <2> QED BY <1>1, <2>1, AnswerKeeps
<1>3. reg' = v /\ UNCHANGED <<Outside, spent, asked>>  BY DEF StopAdmission
<1> HIDE DEF u
<1>4. rs \in [Agents -> RestartType(Ids(Creations))]
      /\ \A a \in Agents : rs[a].stage \in RestartStages \ Replacing
  BY <1>1 DEF NoRestart, RestartType, RestartStages, Replacing
<1> HIDE DEF rs
<1>5. /\ v \in RegType(Ids(Creations), saved) /\ v.of = u.of /\ v.seen = u.seen
      /\ v.restarts = rs
  BY <1>2, <1>4 DEF Kept, RegType
<1> HIDE DEF v
<1>6. Kept(v, held, spent.created, Creations, saved)
  BY <1>1, <1>2, <1>4, <1>5, KeptWithLives
<1> QED BY <1>3, <1>6, RegistryStep

\* An AgentLoop tells whether it executes the lifetime it is asked for.
LEMMA VerifyAnswersStep ==
  ASSUME ListedInv, NEW c \in Callers, VerifyAnswers(c)
  PROVE  ListedInv'
<1> DEFINE W == {"verified", "stale", "undelivered"}
<1>1. PICK on \in W : reg' = [reg EXCEPT !.calls[c].on = on]
  BY DEF VerifyAnswers
<1>2. /\ reg.calls[c].on = "verify" /\ (Fault \/ UNCHANGED spent) /\ UNCHANGED <<Outside, asked>>
  BY DEF VerifyAnswers
<1>3. /\ Creations \in Nat /\ saved \in Nat
      /\ Kept(reg, held, spent.created, Creations, saved)
      /\ reg \in RegType(Ids(Creations), saved)
  BY ListedFacts
<1> DEFINE calls == [reg.calls EXCEPT ![c].on = on]
<1>4. calls \in [Callers -> CallType(Ids(Creations))]
  <2>1. reg.calls \in [Callers -> CallType(Ids(Creations))]  BY <1>3 DEF RegType
  <2>2. [reg.calls[c] EXCEPT !.on = on] \in CallType(Ids(Creations))
    BY <1>1, <1>2, <2>1 DEF CallType, Requested
  <2> QED BY <2>1, <2>2
<1>5. reg' = [reg EXCEPT !.calls = calls]  BY <1>1, <1>3 DEF RegType
<1> HIDE DEF calls
<1>6. /\ reg' \in RegType(Ids(Creations), saved) /\ reg'.of = reg.of /\ reg'.seen = reg.seen
      /\ reg'.restarts = reg.restarts
  BY <1>3, <1>4, <1>5 DEF RegType
<1>7. Kept(reg', held, spent.created, Creations, saved)
  <2>1. \A a \in Agents : reg'.restarts[a].stage \in {reg.restarts[a].stage}  BY <1>6
  <2> QED BY <1>3, <1>6, <2>1, KeptWithLives
<1>8. /\ held' \subseteq Agents \X Lifetimes \X Resources
      /\ loops' \in [Agents -> [instance : Nat, creation : Lifetimes]]
      /\ asked' \subseteq Agents \X Lifetimes \X {"close", "lost"}
      /\ UNCHANGED <<saved, notices>> /\ held' = held
  BY <1>2 DEF Outside, ListedInv, OthersInv
<1> QED BY <1>2, <1>7, <1>8, ListedStep

\* A confirmed mismatch revokes admission and releases nothing.
LEMMA VerifiedStep ==
  ASSUME ListedInv, NEW c \in Callers, Verified(c)
  PROVE  ListedInv'
<1> DEFINE a == reg.calls[c].agent id == reg.calls[c].id
           stale == Current(reg, a, id) /\ reg.calls[c].on = "stale"
           next == IF stale THEN BeginClose(reg, a) ELSE reg
<1>1. /\ Creations \in Nat /\ saved \in Nat /\ Lifetimes = Ids(Creations)
      /\ Kept(reg, held, spent.created, Creations, saved)
      /\ reg \in RegType(Ids(Creations), saved)
  BY ListedFacts
<1>2. a \in Agents
  BY <1>1 DEF Verified, RegType, CallType
<1>3. reg.of[a].id \in Lifetimes  BY <1>1, <1>2 DEF RegType, LifeType
<1>4. Kept(next, held, spent.created, Creations, saved)
  <2>1. CASE stale
    <3>1. reg.of[a].life \notin {"absent", "closed"}
      BY <1>1, <1>2, <2>1, CurrentIsRegistered
    <3> QED BY <1>1, <1>2, <2>1, <3>1, BeginCloseKeeps
  <2>2. CASE ~stale  BY <1>1, <2>2
  <2> QED BY <2>1, <2>2
<1>5. PICK got \in {"ready", "refused"} : reg' = Answer(next, {c}, got)
  BY DEF Verified
<1>6. got \in Replies  BY DEF Replies
<1>7. /\ asked' = IF stale THEN asked \cup {<<a, reg.of[a].id, "lost">>} ELSE asked
      /\ UNCHANGED <<Outside, spent>>
  BY DEF Verified
<1>8. /\ held' \subseteq Agents \X Lifetimes \X Resources
      /\ loops' \in [Agents -> [instance : Nat, creation : Lifetimes]]
      /\ asked' \subseteq Agents \X Lifetimes \X {"close", "lost"}
      /\ UNCHANGED <<saved, notices>> /\ held' = held
  BY <1>2, <1>3, <1>7 DEF Outside, ListedInv, OthersInv
<1> HIDE DEF next
<1>9. Kept(reg', held, spent.created, Creations, saved)
  BY <1>1, <1>4, <1>5, <1>6, AnswerKeeps
<1> QED BY <1>7, <1>8, <1>9, ListedStep

\* A newer revision is saved.
LEMMA SavedKeeps ==
  ASSUME NEW h, NEW drawn, NEW n \in Nat, NEW s \in Nat, NEW w, Kept(w, h, drawn, n, s)
  PROVE  Kept(w, h, drawn, n, s + 1)
<1>1. w \in RegType(Ids(n), s)  BY DEF Kept
<1>2. w.of \in [Agents -> LifeType(Ids(n), s)] /\ w.seen \in 0 .. s  BY <1>1 DEF RegType
<1>3. \A o \in OpeningType(s) : o \in OpeningType(s + 1)  BY DEF OpeningType
<1>4. \A e \in LifeType(Ids(n), s) : e \in LifeType(Ids(n), s + 1)
  <2> SUFFICES ASSUME NEW e \in LifeType(Ids(n), s) PROVE e \in LifeType(Ids(n), s + 1)
    OBVIOUS
  <2>1. e.opening \in OpeningType(s + 1)  BY <1>3 DEF LifeType
  <2> QED BY <2>1 DEF LifeType
<1>5. w.of \in [Agents -> LifeType(Ids(n), s + 1)] /\ w.seen \in 0 .. s + 1  BY <1>2, <1>4
<1>6. w \in RegType(Ids(n), s + 1)  BY <1>1, <1>5 DEF RegType
<1> QED BY <1>6 DEF Kept

\* Seeing a newer revision only widens the bounds.
LEMMA SeenKeeps ==
  ASSUME NEW h, NEW drawn \in [Agents -> Nat], NEW n \in Nat, NEW s \in Nat, NEW w,
         Kept(w, h, drawn, n, s), NEW m \in 0 .. s, w.seen <= m
  PROVE  Kept([w EXCEPT !.seen = m], h, drawn, n, s)
<1> DEFINE v == [w EXCEPT !.seen = m]
<1>1. w \in RegType(Ids(n), s)  BY DEF Kept
<1>2. /\ v \in RegType(Ids(n), s) /\ v.of = w.of /\ v.restarts = w.restarts /\ v.seen = m
      /\ w.seen \in Nat
  BY <1>1 DEF RegType
<1> HIDE DEF v
<1>3. \A a \in Agents : Within(w.of[a], w.restarts[a].stage, m, drawn[a], n)
  <2> SUFFICES ASSUME NEW a \in Agents
               PROVE  Within(w.of[a], w.restarts[a].stage, m, drawn[a], n)
    OBVIOUS
  <2>1. Within(w.of[a], w.restarts[a].stage, w.seen, drawn[a], n)  BY DEF Kept
  <2>2. w.of[a].opening.revision \in Nat /\ drawn[a] \in Nat
    <3>1. w.of[a] \in LifeType(Ids(n), s)  BY LifeFacts
    <3> QED BY <3>1 DEF LifeType, OpeningType
  <2> QED BY <1>2, <2>1, <2>2 DEF Within
<1>4. Kept(v, h, drawn, n, s)  BY <1>2, <1>3 DEF Kept
<1> QED BY <1>4 DEF v

\* The Settings owner saves a revision and tells its observer.
LEMMA SaveStep == ASSUME ListedInv, Save PROVE ListedInv'
<1>1. /\ Creations \in Nat /\ saved \in Nat /\ saved \in Revisions
      /\ Kept(reg, held, spent.created, Creations, saved)
  BY ListedFacts
<1>2. /\ saved' = saved + 1 /\ saved < Len(Configured)
      /\ notices' \in {Append(notices, saved + 1), notices}
      /\ UNCHANGED <<reg, held, loops, spent, asked>>
  BY DEF Save
<1>3. saved' \in Revisions  BY <1>1, <1>2, SomeRevision DEF Revisions
<1>4. notices' \in Seq(1 .. saved')
  <2>1. notices \in Seq(1 .. saved)  BY DEF ListedInv, OthersInv
  <2>2. notices \in Seq(1 .. saved + 1)
    <3>1. 1 .. saved \subseteq 1 .. saved + 1  BY <1>1
    <3> QED BY <2>1, <3>1, SeqMonotonic
  <2>3. saved + 1 \in 1 .. saved + 1  BY <1>1
  <2> QED BY <1>2, <2>2, <2>3
<1>5. Kept(reg, held, spent.created, Creations, saved + 1)  BY <1>1, SavedKeeps
<1>6. OthersInv'
  BY <1>2, <1>3, <1>4 DEF ListedInv, OthersInv, SpentType, Lifetimes
<1>7. Kept(reg, held, spent.created, spent.of.creations, saved)'  BY <1>2, <1>5 DEF Creations
<1> QED BY <1>6, <1>7 DEF ListedInv

\* A notice of newer Settings begins the replacements they ask for.
LEMMA ChangeNoticeStep == ASSUME ListedInv, ChangeNotice PROVE ListedInv'
<1>1. /\ Creations \in Nat /\ saved \in Nat /\ spent.created \in [Agents -> Nat]
      /\ Kept(reg, held, spent.created, Creations, saved)
      /\ reg \in RegType(Ids(Creations), saved)
  BY ListedFacts
<1>2. notices \in Seq(1 .. saved) /\ notices # <<>>  BY DEF ListedInv, OthersInv, ChangeNotice
<1>3. Head(notices) \in 1 .. saved /\ Tail(notices) \in Seq(1 .. saved)
  BY <1>2, HeadTailProperties
<1> DEFINE m == Head(notices) u == [reg EXCEPT !.seen = m]
<1>4. /\ reg' \in {reg, RestartChanged(u)} /\ (reg' # reg => ~(m <= reg.seen))
      /\ notices' = Tail(notices) /\ UNCHANGED <<saved, held, loops, spent, asked>>
  BY DEF ChangeNotice
<1>5. Kept(reg', held, spent.created, Creations, saved)
  <2>1. CASE reg' = reg  BY <1>1, <2>1
  <2>2. CASE reg' # reg
    <3>1. reg.seen \in Nat /\ reg.seen <= m /\ m \in 0 .. saved  BY <1>1, <1>3, <1>4, <2>2 DEF RegType
    <3> HIDE DEF m
    <3>2. Kept(u, held, spent.created, Creations, saved)  BY <1>1, <3>1, SeenKeeps
    <3> HIDE DEF u
    <3>3. Kept(RestartChanged(u), held, spent.created, Creations, saved)
      BY <1>1, <3>2, RestartChangedKeeps
    <3> QED BY <1>4, <2>2, <3>3
  <2> QED BY <2>1, <2>2
<1>6. OthersInv'  BY <1>3, <1>4 DEF ListedInv, OthersInv, SpentType, Lifetimes
<1>7. Kept(reg, held, spent.created, spent.of.creations, saved)'  BY <1>4, <1>5 DEF Creations
<1> QED BY <1>6, <1>7 DEF ListedInv

\* What a start waits for says about its Agent.
LEMMA AwaitingFacts ==
  ASSUME ListedInv, NEW a \in Agents, Opening(a).wait # "none"
  PROVE  /\ reg.of[a].id # 0 /\ reg.of[a].life \in {"initializing", "closing"}
         /\ reg.of[a].closing.stage = "none"
         /\ Admitted(reg, a) => reg.of[a].life = "initializing"
         /\ Opening(a).wait = "settings" => reg.of[a].ready = {} /\ \A x \in held : x[1] # a
<1>1. Sound(reg.of[a]) /\ Holding(reg.of[a], held, a)  BY DEF ListedInv, Kept
<1>2. Admitted(reg, a) => reg.of[a].life \in {"initializing", "available"}
  BY DEF Admitted, Open
<1> QED BY <1>1, <1>2 DEF Sound, Holding, Opening

\* The answer of the Settings owner only reaches the start that waits for it.
LEMMA ReadSettingsAnswers ==
  ASSUME ListedInv, NEW a \in Agents, ReadSettings(a)
  PROVE  \E answer \in {"ok", "failed"}, read \in 0 .. saved :
           reg' = WithLife(reg, a, [reg.of[a] EXCEPT !.opening.answer = answer, !.opening.read = read])
<1> DEFINE e == reg.of[a]
<1>1. /\ saved \in Nat /\ reg \in RegType(Ids(Creations), saved)
      /\ reg.of \in [Agents -> LifeType(Ids(Creations), saved)]
      /\ e \in LifeType(Ids(Creations), saved)
  BY ListedFacts
<1>2. CASE reg' = [reg EXCEPT !.of[a].opening.answer = "ok", !.of[a].opening.read = saved]
  <2>1. reg' = WithLife(reg, a, [e EXCEPT !.opening.answer = "ok", !.opening.read = saved])
    BY <1>1, <1>2 DEF WithLife, RegType, LifeType, OpeningType
  <2>2. saved \in 0 .. saved  BY <1>1
  <2> QED BY <2>1, <2>2
<1>3. CASE reg' = [reg EXCEPT !.of[a].opening.answer = "failed"]
  <2>1. reg' = WithLife(reg, a, [e EXCEPT !.opening.answer = "failed", !.opening.read = e.opening.read])
    BY <1>1, <1>3 DEF WithLife, RegType, LifeType, OpeningType
  <2>2. e.opening.read \in 0 .. saved  BY <1>1 DEF LifeType, OpeningType
  <2> QED BY <2>1, <2>2
<1> QED BY <1>2, <1>3 DEF ReadSettings

\* The Settings owner answers with the revision it has, or fails.
LEMMA ReadSettingsStep ==
  ASSUME ListedInv, NEW a \in Agents, ReadSettings(a)
  PROVE  ListedInv'
<1> DEFINE e == reg.of[a]
<1>1. /\ Creations \in Nat /\ saved \in Nat /\ spent.created \in [Agents -> Nat]
      /\ Kept(reg, held, spent.created, Creations, saved)
      /\ reg \in RegType(Ids(Creations), saved)
      /\ reg.of \in [Agents -> LifeType(Ids(Creations), saved)]
  BY ListedFacts
<1>2. Opening(a).wait = "settings"  BY DEF ReadSettings, Awaits
<1>3. /\ e \in LifeType(Ids(Creations), saved) /\ Sound(e) /\ Holding(e, held, a)
      /\ Within(e, reg.restarts[a].stage, reg.seen, spent.created[a], Creations)
  BY <1>1, LifeFacts
<1>4. PICK answer \in {"ok", "failed"}, read \in 0 .. saved :
        reg' = WithLife(reg, a, [e EXCEPT !.opening.answer = answer, !.opening.read = read])
  BY ReadSettingsAnswers
<1> DEFINE f == [e EXCEPT !.opening.answer = answer, !.opening.read = read]
<1>5. f \in LifeType(Ids(Creations), saved)  BY <1>3 DEF LifeType, OpeningType, Answers
<1>6. /\ f.life = e.life /\ f.id = e.id /\ f.owned = e.owned /\ f.ready = e.ready
      /\ f.closing = e.closing /\ f.opening.wait = e.opening.wait
      /\ f.opening.revision = e.opening.revision /\ e.opening.wait = "settings"
  BY <1>2, <1>3 DEF LifeType, OpeningType, Opening
<1> HIDE DEF f, e
<1>7. Sound(f)  BY <1>3, <1>6 DEF Sound
<1>8. Holding(f, held, a)  BY <1>3, <1>6 DEF Holding
<1>9. Within(f, reg.restarts[a].stage, reg.seen, spent.created[a], Creations)
  BY <1>3, <1>6 DEF Within
<1>10. Kept(WithLife(reg, a, f), held, spent.created, Creations, saved)
  BY <1>1, <1>5, <1>7, <1>8, <1>9, OneLife
<1>11. (Fault \/ UNCHANGED spent) /\ UNCHANGED <<Outside, asked>>  BY DEF ReadSettings
<1>12. /\ held' \subseteq Agents \X Lifetimes \X Resources
       /\ loops' \in [Agents -> [instance : Nat, creation : Lifetimes]]
       /\ asked' \subseteq Agents \X Lifetimes \X {"close", "lost"}
       /\ UNCHANGED <<saved, notices>> /\ held' = held
  BY <1>11 DEF Outside, ListedInv, OthersInv
<1>13. Kept(reg', held', spent.created, Creations, saved)  BY <1>4, <1>10, <1>12 DEF f, e
<1> QED BY <1>11, <1>12, <1>13, ListedStep

\* The revision an Agent is started with is the newest the Registry saw.
Installed(w, a, m) ==
  WithLife([w EXCEPT !.seen = m], a, [w.of[a] EXCEPT !.opening.revision = m])

\* Installing a snapshot leaves everything else of the lifetime alone.
LEMMA InstalledKeeps ==
  ASSUME NEW h, NEW drawn \in [Agents -> Nat], NEW n \in Nat, NEW s \in Nat, NEW w,
         Kept(w, h, drawn, n, s), NEW a \in Agents, NEW m \in 0 .. s, w.seen <= m,
         w.of[a].life \notin {"absent", "closed"}
  PROVE  /\ Kept(Installed(w, a, m), h, drawn, n, s)
         /\ Installed(w, a, m).of[a].id = w.of[a].id
         /\ Installed(w, a, m).of[a].life = w.of[a].life
         /\ Installed(w, a, m).of[a].opening.wait = w.of[a].opening.wait
<1> DEFINE e == w.of[a] f == [e EXCEPT !.opening.revision = m] u == [w EXCEPT !.seen = m]
           v == WithLife(u, a, f)
<1>1. /\ e \in LifeType(Ids(n), s) /\ Sound(e) /\ Holding(e, h, a)
      /\ w \in RegType(Ids(n), s)
  BY LifeFacts DEF Kept
<1>2. Kept(u, h, drawn, n, s)  BY SeenKeeps
<1>3. u \in RegType(Ids(n), s) /\ u.of = w.of /\ u.restarts = w.restarts /\ u.seen = m
  BY <1>1 DEF RegType
<1> HIDE DEF u
<1>4. f \in LifeType(Ids(n), s)  BY <1>1 DEF LifeType, OpeningType
<1>5. /\ f.life = e.life /\ f.id = e.id /\ f.owned = e.owned /\ f.ready = e.ready
      /\ f.closing = e.closing /\ f.opening.wait = e.opening.wait
      /\ f.opening.component = e.opening.component /\ f.opening.answer = e.opening.answer
      /\ f.opening.revision = m
  BY <1>1 DEF LifeType, OpeningType
<1>6. e.life \notin {"absent", "closed"} /\ drawn[a] \in Nat  OBVIOUS
<1>7. Within(e, u.restarts[a].stage, m, drawn[a], n)
  <2>1. Within(u.of[a], u.restarts[a].stage, u.seen, drawn[a], n)  BY <1>2 DEF Kept
  <2> QED BY <1>3, <2>1
<1> HIDE DEF f, e
<1>8. Sound(f)  BY <1>1, <1>5 DEF Sound
<1>9. Holding(f, h, a)  BY <1>1, <1>5 DEF Holding
<1>10. Within(f, u.restarts[a].stage, u.seen, drawn[a], n)
  BY <1>3, <1>5, <1>6, <1>7 DEF Within
<1>11. Kept(v, h, drawn, n, s)
  <2> HIDE DEF v
  <2>1. n \in Nat /\ s \in Nat  OBVIOUS
  <2> QED BY <1>2, <1>4, <1>8, <1>9, <1>10, <2>1, OneLife DEF v
<1>12. v.of[a] = f
  <2> HIDE DEF v
  <2> QED BY <1>3, <1>4, WithLifeFacts DEF v
<1>13. Installed(w, a, m) = v  BY <1>3 DEF Installed, u, f, e
<1> HIDE DEF v
<1> QED BY <1>5, <1>11, <1>12, <1>13 DEF e

\* A snapshot is refused, read again when older than one seen, or installed.
LEMMA ConfigurationPreparedRuns ==
  ASSUME ListedInv, NEW a \in Agents, ConfigurationPrepared(a)
  PROVE  /\ Opening(a).wait = "settings" /\ UNCHANGED <<Outside, spent, asked>>
         /\ \/ reg' = FinishCreation(Settled(reg, a), a, TRUE)
            \/ Admitted(reg, a) /\ reg' = PrepareCreation(Settled(reg, a), a)
            \/ /\ Admitted(reg, a) /\ reg.seen <= Opening(a).read /\ Opening(a).read \in 0 .. saved
               /\ reg' = RunCreation(Installed(Settled(reg, a), a, Opening(a).read), a)
<1> DEFINE n == Creations read == Opening(a).read settled == Settled(reg, a)
           installed == [settled EXCEPT !.seen = read, !.of[a].opening.revision = read]
<1>1. /\ Opening(a).wait = "settings" /\ UNCHANGED <<Outside, spent, asked>>
      /\ reg' = IF Opening(a).answer = "failed" \/ ~Admitted(reg, a)
                THEN FinishCreation(settled, a, TRUE)
                ELSE IF reg.seen > read THEN PrepareCreation(settled, a)
                ELSE RunCreation(installed, a)
  BY DEF ConfigurationPrepared, Awaits, Settled
<1>2. read \in 0 .. saved /\ reg.seen \in 0 .. saved
  <2>1. reg.of[a] \in LifeType(Ids(n), saved) /\ reg \in RegType(Ids(n), saved)  BY ListedFacts
  <2> QED BY <2>1 DEF Opening, LifeType, OpeningType, RegType
<1>3. settled \in RegType(Ids(n), saved)
  <2>1. Kept(settled, held, spent.created, n, saved)
    <3>1. /\ n \in Nat /\ saved \in Nat /\ Kept(reg, held, spent.created, n, saved)
      BY ListedFacts
    <3> HIDE DEF n
    <3> QED BY <3>1, SettledKeeps
  <2> QED BY <2>1 DEF Kept
<1> HIDE DEF settled
<1>4. installed = Installed(settled, a, read)
  <2>1. settled.of \in [Agents -> LifeType(Ids(n), saved)]  BY <1>3 DEF RegType
  <2> QED BY <1>3, <2>1 DEF Installed, WithLife, RegType
<1> HIDE DEF installed, read
<1>5. reg.seen > read \/ reg.seen <= read  BY <1>2
<1> QED BY <1>1, <1>2, <1>4, <1>5 DEF settled, read

\* The snapshot reaches the Registry.
LEMMA ConfigurationPreparedStep ==
  ASSUME ListedInv, NEW a \in Agents, ConfigurationPrepared(a)
  PROVE  ListedInv'
<1> DEFINE n == Creations drawn == spent.created read == Opening(a).read
           settled == Settled(reg, a)
<1>1. /\ n \in Nat /\ saved \in Nat /\ drawn \in [Agents -> Nat]
      /\ Kept(reg, held, drawn, n, saved)
  BY ListedFacts
<1>2. /\ Opening(a).wait = "settings" /\ UNCHANGED <<Outside, spent, asked>>
      /\ \/ reg' = FinishCreation(settled, a, TRUE)
         \/ Admitted(reg, a) /\ reg' = PrepareCreation(settled, a)
         \/ /\ Admitted(reg, a) /\ reg.seen <= read /\ read \in 0 .. saved
            /\ reg' = RunCreation(Installed(settled, a, read), a)
  BY ConfigurationPreparedRuns
<1>3. /\ reg.of[a].id # 0 /\ reg.of[a].life \in {"initializing", "closing"}
      /\ Admitted(reg, a) => reg.of[a].life = "initializing"
      /\ reg.of[a].ready = {} /\ \A x \in held : x[1] # a
  BY <1>2, AwaitingFacts
<1>4. /\ Kept(settled, held, drawn, n, saved)
      /\ settled.of[a].opening.wait = "none"
      /\ settled.of[a].life = reg.of[a].life /\ settled.of[a].id = reg.of[a].id
      /\ settled.of[a].ready = reg.of[a].ready /\ settled.seen = reg.seen
  <2> HIDE DEF n, drawn, read
  <2> QED BY <1>1, SettledKeeps
<1> HIDE DEF settled, read
<1>5. CASE reg' = FinishCreation(settled, a, TRUE)
  <2>1. Kept(FinishCreation(settled, a, TRUE), held, drawn, n, saved)
    BY <1>1, <1>3, <1>4, FinishCreationKeeps
  <2> QED BY <1>2, <1>5, <2>1, RegistryStep
<1>6. CASE Admitted(reg, a) /\ reg' = PrepareCreation(settled, a)
  <2>1. Kept(PrepareCreation(settled, a), held, drawn, n, saved)
    BY <1>1, <1>3, <1>4, <1>6, PrepareCreationKeeps
  <2> QED BY <1>2, <1>6, <2>1, RegistryStep
<1>7. CASE /\ Admitted(reg, a) /\ reg.seen <= read /\ read \in 0 .. saved
           /\ reg' = RunCreation(Installed(settled, a, read), a)
  <2> DEFINE v == Installed(settled, a, read)
  <2>1. /\ Kept(v, held, drawn, n, saved) /\ v.of[a].id = settled.of[a].id
        /\ v.of[a].opening.wait = settled.of[a].opening.wait
    <3> HIDE DEF n, drawn
    <3>1. n \in Nat /\ saved \in Nat /\ drawn \in [Agents -> Nat]  BY <1>1
    <3>2. Kept(settled, held, drawn, n, saved)  BY <1>4
    <3>3. read \in 0 .. saved /\ settled.seen <= read  BY <1>4, <1>7
    <3>4. settled.of[a].life \notin {"absent", "closed"}  BY <1>3, <1>4
    <3> QED BY <3>1, <3>2, <3>3, <3>4, InstalledKeeps
  <2>2. <<a, v.of[a].id, <<"conversation", 0>>>> \notin held  BY <1>3
  <2> HIDE DEF v
  <2>3. v.of[a].id # 0 /\ v.of[a].opening.wait = "none"  BY <1>3, <1>4, <2>1
  <2>4. n \in Nat /\ saved \in Nat /\ drawn \in [Agents -> Nat]  BY <1>1
  <2>5. Kept(RunCreation(v, a), held, drawn, n, saved)
    <3> HIDE DEF n, drawn
    <3>1. Kept(v, held, drawn, n, saved)  BY <2>1
    <3>2. SessionOf \notin v.of[a].ready => <<a, v.of[a].id, <<"conversation", 0>>>> \notin held
      BY <2>2
    <3> QED BY <2>3, <2>4, <3>1, <3>2, RunCreationKeeps
  <2> QED BY <1>2, <1>7, <2>5, RegistryStep DEF v
<1> QED BY <1>2, <1>5, <1>6, <1>7

\* One lifetime changes, and what is held for it.
LEMMA OneHeld ==
  ASSUME NEW h, NEW drawn, NEW n \in Nat, NEW s \in Nat, NEW w, Kept(w, h, drawn, n, s),
         NEW a \in Agents, NEW f \in LifeType(Ids(n), s), Sound(f), NEW h2,
         \A x : x[1] # a => (x \in h2 <=> x \in h), Holding(f, h2, a),
         Within(f, w.restarts[a].stage, w.seen, drawn[a], n)
  PROVE  Kept(WithLife(w, a, f), h2, drawn, n, s)
<1> DEFINE v == WithLife(w, a, f)
<1>1. w \in RegType(Ids(n), s) /\ w.of \in [Agents -> LifeType(Ids(n), s)]  BY DEF Kept, RegType
<1>2. /\ v \in RegType(Ids(n), s) /\ v.restarts = w.restarts /\ v.seen = w.seen
      /\ \A b \in Agents : v.of[b] = IF b = a THEN f ELSE w.of[b]
  BY <1>1, WithLifeFacts
<1> HIDE DEF v
<1>3. \A b \in Agents : Sound(v.of[b]) /\ Within(v.of[b], v.restarts[b].stage, v.seen, drawn[b], n)
  BY <1>2 DEF Kept
<1>4. \A b \in Agents : Holding(v.of[b], h2, b)
  <2> SUFFICES ASSUME NEW b \in Agents, b # a PROVE Holding(w.of[b], h2, b)
    BY <1>2
  <2> DEFINE e == w.of[b]
  <2>1. Holding(e, h, b)  BY DEF Kept
  <2>2. \A x : x[1] = b => (x \in h2 <=> x \in h)  OBVIOUS
  <2>3. \A r : <<b, e.id, r>> \in h2 <=> <<b, e.id, r>> \in h  BY <2>2
  <2> HIDE DEF e
  <2> QED BY <2>1, <2>2, <2>3 DEF Holding, e
<1>5. Kept(v, h2, drawn, n, s)  BY <1>2, <1>3, <1>4 DEF Kept
<1> QED BY <1>5 DEF v

\* The answer of a component's owner reaches the lifetime that waits for it; a
\* claim adds the responsibilities of an AgentLoop.
Answering(e, answer, own, instance) ==
  [e EXCEPT !.opening.answer = answer, !.owned = own, !.instance = instance]

\* The fields of a lifetime that was answered.
LEMMA AnsweringFacts ==
  ASSUME NEW L, NEW s, NEW e \in LifeType(L, s), NEW answer \in Answers,
         NEW own \in SUBSET Resources, NEW instance \in Nat
  PROVE  LET f == Answering(e, answer, own, instance) IN
         /\ f \in LifeType(L, s)
         /\ f.life = e.life /\ f.id = e.id /\ f.ready = e.ready /\ f.closing = e.closing
         /\ f.owned = own /\ f.failed = e.failed /\ f.parent = e.parent /\ f.instance = instance
         /\ f.opening.wait = e.opening.wait /\ f.opening.component = e.opening.component
         /\ f.opening.answer = answer /\ f.opening.revision = e.opening.revision
BY DEF Answering, LifeType, OpeningType

\* An answer while a component is awaited: what it makes the owner hold is owned.
LEMMA AnsweredKeeps ==
  ASSUME ListedInv, NEW a \in Agents, Opening(a).wait = "component",
         NEW answer \in Answers, NEW own \in SUBSET Resources, NEW instance \in Nat,
         reg.of[a].owned \subseteq own,
         answer = "claimed" /\ Asking(a) = "agent" => Claimed \subseteq own,
         answer = "unowned" => Opening(a).component = SessionOf,
         NEW got \in SUBSET own,
         answer = "ok" => Owns(Opening(a).component) \ Claimed \subseteq got,
         answer \in {"asked", "unowned"} => got = {} /\ Opening(a).answer = "asked"
  PROVE  Kept(WithLife(reg, a, Answering(reg.of[a], answer, own, instance)), Holds(a, got),
              spent.created, Creations, saved)
<1> DEFINE n == Creations drawn == spent.created e == reg.of[a] c == e.opening.component
           f == Answering(e, answer, own, instance) h == Holds(a, got)
<1>1. /\ n \in Nat /\ saved \in Nat /\ Kept(reg, held, drawn, n, saved)
  BY ListedFacts
<1>2. /\ e \in LifeType(Ids(n), saved) /\ Sound(e) /\ Holding(e, held, a)
      /\ Within(e, reg.restarts[a].stage, reg.seen, drawn[a], n)
  BY <1>1, LifeFacts
<1>3. /\ f \in LifeType(Ids(n), saved)
      /\ f.life = e.life /\ f.id = e.id /\ f.ready = e.ready /\ f.closing = e.closing
      /\ f.owned = own
      /\ f.opening.wait = e.opening.wait /\ f.opening.component = c
      /\ f.opening.answer = answer /\ f.opening.revision = e.opening.revision
  BY <1>2, AnsweringFacts
<1>4. /\ e.opening.wait = "component" /\ e.closing.stage = "none" /\ e.id # 0
      /\ e.life \in {"initializing", "closing"}
  BY <1>2 DEF Opening, Sound
<1>5. h = held \cup {<<a, e.id, r>> : r \in got}  BY DEF Holds, Lifetime
<1>6. \A x : x[1] # a => (x \in h <=> x \in held)  BY <1>5
<1> HIDE DEF f, h
<1>7. Sound(f)
  BY <1>2, <1>3, <1>4 DEF Sound, Opening, Asking
<1>8. Holding(f, h, a)
  <2>1. \A x \in h : x[1] = a => x[2] = e.id /\ x[3] \in own
    BY <1>2, <1>5 DEF Holding
  <2>2. \A r : <<a, e.id, r>> \in held => <<a, e.id, r>> \in h  BY <1>5
  <2>3. answer = "ok" => \A r \in Owns(c) \ Claimed : <<a, e.id, r>> \in h
    BY <1>5 DEF Opening
  <2>4. answer \in {"asked", "unowned"} /\ c = SessionOf => <<a, e.id, <<"conversation", 0>>>> \notin h
    <3> SUFFICES ASSUME answer \in {"asked", "unowned"}, c = SessionOf
                 PROVE  <<a, e.id, <<"conversation", 0>>>> \notin h
      OBVIOUS
    <3>1. h = held /\ e.opening.answer = "asked"  BY <1>5 DEF Opening
    <3> QED BY <3>1, <1>2, <1>4 DEF Holding
  <2> HIDE DEF e, c
  <2> QED BY <1>2, <1>3, <1>4, <2>1, <2>2, <2>3, <2>4 DEF Holding
<1>9. Within(f, reg.restarts[a].stage, reg.seen, drawn[a], n)
  BY <1>2, <1>3 DEF Within
<1>10. Kept(WithLife(reg, a, f), h, drawn, n, saved)
  <2> HIDE DEF n, drawn, e, c
  <2> QED BY <1>1, <1>3, <1>6, <1>7, <1>8, <1>9, OneHeld
<1> QED BY <1>10 DEF f, h

\* The authority that a runtime asks for is granted or not: an AgentLoop that
\* executes nothing is claimed with all it will hold.
LEMMA ClaimAnswers ==
  ASSUME ListedInv, NEW a \in Agents, Claim(a)
  PROVE  /\ Opening(a).wait = "component" /\ UNCHANGED <<Outside, spent, asked>>
         /\ \/ \E answer \in {"failed", "claimed"} :
                 /\ answer = "claimed" => Asking(a) # "agent"
                 /\ reg' = WithLife(reg, a, Answering(reg.of[a], answer, reg.of[a].owned, reg.of[a].instance))
            \/ /\ loops[a].creation = 0
               /\ reg' = WithLife(reg, a, Answering(reg.of[a], "claimed", reg.of[a].owned \cup Claimed,
                                                   loops[a].instance))
<1> DEFINE e == reg.of[a] loop == loops[a].instance
<1>1. /\ reg \in RegType(Ids(Creations), saved)
      /\ reg.of \in [Agents -> LifeType(Ids(Creations), saved)]
      /\ e \in LifeType(Ids(Creations), saved)
  BY ListedFacts
<1>2. Opening(a).wait = "component" /\ UNCHANGED <<Outside, spent, asked>>
  BY DEF Claim, Awaits
<1>3. CASE reg' = [reg EXCEPT !.of[a].opening.answer = "failed"]
  <2>1. reg' = WithLife(reg, a, Answering(e, "failed", e.owned, e.instance))
    BY <1>1, <1>3 DEF WithLife, Answering, RegType, LifeType, OpeningType
  <2> QED BY <1>2, <2>1
<1>4. CASE Asking(a) = "tools" /\ reg' = [reg EXCEPT !.of[a].opening.answer = "claimed"]
  <2>1. reg' = WithLife(reg, a, Answering(e, "claimed", e.owned, e.instance))
    BY <1>1, <1>4 DEF WithLife, Answering, RegType, LifeType, OpeningType
  <2> QED BY <1>2, <1>4, <2>1
<1>5. CASE /\ loops[a].creation = 0
           /\ reg' = [[reg EXCEPT !.of[a].opening.answer = "claimed"]
                        EXCEPT !.of[a].owned = e.owned \cup Claimed, !.of[a].instance = loop]
  <2>1. reg' = WithLife(reg, a, Answering(e, "claimed", e.owned \cup Claimed, loop))
    BY <1>1, <1>5, ZenonT(40) DEF WithLife, Answering, RegType, LifeType, OpeningType
  <2> QED BY <1>2, <1>5, <2>1
<1>6. \/ reg' = [reg EXCEPT !.of[a].opening.answer = "failed"]
      \/ Asking(a) = "tools" /\ reg' = [reg EXCEPT !.of[a].opening.answer = "claimed"]
      \/ /\ loops[a].creation = 0
         /\ reg' = [[reg EXCEPT !.of[a].opening.answer = "claimed"]
                      EXCEPT !.of[a].owned = e.owned \cup Claimed, !.of[a].instance = loop]
  BY <1>1 DEF Claim, Claiming, RegType, LifeType, OpeningType
<1> QED BY <1>3, <1>4, <1>5, <1>6

\* The claim keeps what is listed.
LEMMA ClaimStep ==
  ASSUME ListedInv, NEW a \in Agents, Claim(a)
  PROVE  ListedInv'
<1> DEFINE n == Creations drawn == spent.created e == reg.of[a] loop == loops[a].instance
<1>1. e \in LifeType(Ids(n), saved)
  BY ListedFacts
<1>2. /\ e.owned \in SUBSET Resources /\ e.instance \in Nat /\ loop \in Nat
      /\ e.owned \cup Claimed \in SUBSET Resources
  BY <1>1, ResourceKinds DEF LifeType, ListedInv, OthersInv
<1>3. /\ Opening(a).wait = "component" /\ UNCHANGED <<Outside, spent, asked>>
      /\ \E answer \in {"failed", "claimed"}, own \in {e.owned, e.owned \cup Claimed},
            instance \in {e.instance, loop} :
           /\ answer = "claimed" /\ Asking(a) = "agent" => Claimed \subseteq own
           /\ reg' = WithLife(reg, a, Answering(e, answer, own, instance))
  BY ClaimAnswers
<1>4. PICK answer \in {"failed", "claimed"}, own \in {e.owned, e.owned \cup Claimed},
           instance \in {e.instance, loop} :
        /\ answer = "claimed" /\ Asking(a) = "agent" => Claimed \subseteq own
        /\ reg' = WithLife(reg, a, Answering(e, answer, own, instance))
  BY <1>3
<1>5. answer \in Answers /\ own \in SUBSET Resources /\ instance \in Nat /\ e.owned \subseteq own
      /\ answer \notin {"ok", "asked", "unowned"}
  BY <1>2 DEF Answers
<1>6. {} \in SUBSET own  OBVIOUS
<1>7. Kept(WithLife(reg, a, Answering(e, answer, own, instance)), Holds(a, {}), drawn, n, saved)
  BY <1>3, <1>4, <1>5, <1>6, AnsweredKeeps
<1>8. Holds(a, {}) = held  BY DEF Holds
<1> QED BY <1>3, <1>4, <1>7, <1>8, RegistryStep

\* A component's owner answers; what it may hold by then is owned.
LEMMA ComponentAnswersRuns ==
  ASSUME ListedInv, NEW a \in Agents, ComponentAnswers(a)
  PROVE  /\ Opening(a).wait = "component" /\ UNCHANGED <<saved, notices, asked>>
         /\ Fault \/ UNCHANGED spent
         /\ Acquired(a) \subseteq reg.of[a].owned /\ Owns(Opening(a).component) \ Claimed \subseteq Acquired(a)
         /\ Asking(a) = "agent" => Opening(a).answer = "claimed" /\ Claimed \subseteq reg.of[a].owned
         /\ \E answer \in {"ok", "failed", "unowned"} :
              /\ answer = "unowned" => Opening(a).component = SessionOf /\ Opening(a).answer = "asked"
              /\ reg' = WithLife(reg, a, Answering(reg.of[a], answer, reg.of[a].owned, reg.of[a].instance))
              /\ \/ Acquire(a) /\ answer # "unowned"
                 \/ answer # "ok" /\ UNCHANGED <<held, loops>>
<1> DEFINE n == Creations e == reg.of[a] c == Opening(a).component
<1>1. /\ n \in Nat /\ saved \in Nat /\ Kept(reg, held, spent.created, n, saved)
      /\ reg \in RegType(Ids(n), saved) /\ reg.of \in [Agents -> LifeType(Ids(n), saved)]
      /\ e \in LifeType(Ids(n), saved)
  BY ListedFacts
<1>2. /\ Opening(a).wait = "component" /\ UNCHANGED <<saved, notices, asked>>
      /\ Opening(a).answer = IF Asking(a) \in Claiming THEN "claimed" ELSE "asked"
      /\ Fault \/ UNCHANGED spent
  BY DEF ComponentAnswers, Awaits
<1>3. PICK answer \in {"ok", "failed", "unowned"} :
        /\ answer = "unowned" => Asking(a) = "session"
        /\ reg' = [reg EXCEPT !.of[a].opening.answer = answer]
        /\ \/ Acquire(a) /\ answer # "unowned"
           \/ answer # "ok" /\ UNCHANGED <<held, loops>>
  BY DEF ComponentAnswers
<1>4. reg' = WithLife(reg, a, Answering(e, answer, e.owned, e.instance))
  BY <1>1, <1>3 DEF WithLife, Answering, RegType, LifeType, OpeningType
<1>5. c \in Components  BY <1>1 DEF LifeType, OpeningType, Opening
<1>6. Sound(e)  BY <1>1, LifeFacts
<1>7. Owns(c) \subseteq e.owned  BY <1>2, <1>6 DEF Sound, Opening
<1>8. Asking(a) = "agent" => Claimed \subseteq e.owned /\ Opening(a).answer = "claimed"
  BY <1>2, <1>6 DEF Sound, Opening, Asking, Claiming
<1>9. Asking(a) = "agent" => Owns(c) \subseteq Claimed  BY <1>5, OwnsFacts DEF Asking
<1>10. answer = "unowned" => c = SessionOf /\ Opening(a).answer = "asked"
  BY <1>2, <1>3, <1>5, OwnsFacts DEF Asking, Claiming
<1>11. Acquired(a) \subseteq e.owned /\ Owns(c) \ Claimed \subseteq Acquired(a)
  BY <1>7, <1>8, <1>9 DEF Acquired
<1> QED BY <1>2, <1>3, <1>4, <1>8, <1>10, <1>11

\* Whatever the owner holds by then is listed.
LEMMA ComponentAnswersStep ==
  ASSUME ListedInv, NEW a \in Agents, ComponentAnswers(a)
  PROVE  ListedInv'
<1> DEFINE n == Creations drawn == spent.created e == reg.of[a] c == Opening(a).component
<1>1. /\ n \in Nat /\ Lifetimes = Ids(n) /\ e \in LifeType(Ids(n), saved)
  BY ListedFacts
<1>2. /\ Opening(a).wait = "component" /\ UNCHANGED <<saved, notices, asked>>
      /\ Fault \/ UNCHANGED spent
      /\ Acquired(a) \subseteq e.owned /\ Owns(c) \ Claimed \subseteq Acquired(a)
  BY ComponentAnswersRuns
<1>3. PICK answer \in {"ok", "failed", "unowned"} :
        /\ answer = "unowned" => c = SessionOf /\ Opening(a).answer = "asked"
        /\ reg' = WithLife(reg, a, Answering(e, answer, e.owned, e.instance))
        /\ \/ Acquire(a) /\ answer # "unowned"
           \/ answer # "ok" /\ UNCHANGED <<held, loops>>
  BY ComponentAnswersRuns
<1>4. /\ e.owned \in SUBSET Resources /\ e.instance \in Nat /\ answer \in Answers
      /\ e.id \in Lifetimes
  BY <1>1 DEF LifeType, Answers
<1>5. PICK got \in SUBSET e.owned :
        /\ held' = Holds(a, got)
        /\ loops' \in {loops, [loops EXCEPT ![a].creation = Lifetime(a)]}
        /\ answer = "ok" => Owns(c) \ Claimed \subseteq got
        /\ answer = "unowned" => got = {}
  <2>1. CASE Acquire(a) /\ answer # "unowned"
    <3>1. Acquired(a) \in SUBSET e.owned  BY <1>2
    <3> QED BY <1>2, <2>1, <3>1 DEF Acquire
  <2>2. CASE answer # "ok" /\ UNCHANGED <<held, loops>>
    <3>1. held' = Holds(a, {})  BY <2>2 DEF Holds
    <3>2. {} \in SUBSET e.owned  OBVIOUS
    <3> QED BY <2>2, <3>1, <3>2
  <2> QED BY <1>3, <2>1, <2>2
<1>6. Kept(WithLife(reg, a, Answering(e, answer, e.owned, e.instance)), Holds(a, got),
           drawn, n, saved)
  <2>1. answer \notin {"claimed", "asked"}  OBVIOUS
  <2>2. answer \in {"asked", "unowned"} => got = {} /\ Opening(a).answer = "asked"
    BY <1>3, <1>5
  <2>3. answer = "claimed" /\ Asking(a) = "agent" => Claimed \subseteq e.owned  BY <2>1
  <2>4. answer = "unowned" => Opening(a).component = SessionOf  BY <1>3
  <2> QED BY <1>2, <1>4, <1>5, <2>2, <2>3, <2>4, AnsweredKeeps
<1>7. Kept(reg', held', drawn, n, saved)  BY <1>3, <1>5, <1>6
<1>8. /\ held' \subseteq Agents \X Lifetimes \X Resources
      /\ loops' \in [Agents -> [instance : Nat, creation : Lifetimes]]
      /\ asked' \subseteq Agents \X Lifetimes \X {"close", "lost"}
  <2>1. /\ held \subseteq Agents \X Lifetimes \X Resources
        /\ loops \in [Agents -> [instance : Nat, creation : Lifetimes]]
        /\ asked \subseteq Agents \X Lifetimes \X {"close", "lost"}
    BY DEF ListedInv, OthersInv
  <2>2. got \subseteq Resources  BY <1>4, <1>5
  <2>3. held' \subseteq Agents \X Lifetimes \X Resources
    BY <1>4, <1>5, <2>1, <2>2 DEF Holds, Lifetime
  <2>4. loops' \in [Agents -> [instance : Nat, creation : Lifetimes]]
    BY <1>4, <1>5, <2>1 DEF Lifetime
  <2> QED BY <1>2, <2>1, <2>3, <2>4
<1> QED BY <1>2, <1>7, <1>8, ListedStep

\* An answered start: nothing is awaited, own is what the lifetime still owes.
Answered(e, own, ready) ==
  [e EXCEPT !.opening.wait = "none", !.opening.answer = "none", !.owned = own, !.ready = ready]

\* The fields of a lifetime whose start was answered.
LEMMA AnsweredFacts ==
  ASSUME NEW L, NEW s, NEW e \in LifeType(L, s), NEW own \in SUBSET Resources,
         NEW ready \in SUBSET Components
  PROVE  LET f == Answered(e, own, ready) IN
         /\ f \in LifeType(L, s)
         /\ f.life = e.life /\ f.id = e.id /\ f.ready = ready /\ f.closing = e.closing
         /\ f.owned = own /\ f.failed = e.failed /\ f.parent = e.parent /\ f.instance = e.instance
         /\ f.opening.wait = "none" /\ f.opening.revision = e.opening.revision
BY DEF Answered, LifeType, OpeningType, Waits, Answers

\* A start that is refused keeps what it owns, unless nobody acquired it; one
\* that is confirmed has its component ready.
Refused(e) ==
  Answered(e, IF e.opening.answer = "unowned" THEN e.owned \ Owns(e.opening.component) ELSE e.owned,
           e.ready)
Readied(e) == Answered(e, e.owned, e.ready \cup {e.opening.component})

\* The Registry takes the answer: the start fails, or goes on.
LEMMA StartupResultRuns ==
  ASSUME ListedInv, NEW a \in Agents, StartupResult(a)
  PROVE  /\ Opening(a).wait = "component" /\ Opening(a).answer \in {"ok", "failed", "unowned"}
         /\ UNCHANGED <<Outside, spent, asked>>
         /\ \/ reg' = FinishCreation(WithLife(reg, a, Refused(reg.of[a])), a, TRUE)
            \/ /\ Opening(a).answer = "ok" /\ Admitted(reg, a)
               /\ reg' = RunCreation(WithLife(reg, a, Readied(reg.of[a])), a)
<1> DEFINE n == Creations e == reg.of[a] c == Opening(a).component answer == Opening(a).answer
           own == IF answer = "unowned" THEN e.owned \ Owns(c) ELSE e.owned
           f == Answered(e, own, e.ready)
           g == Answered(e, e.owned, e.ready \cup {c})
           settled == [reg EXCEPT !.of[a].opening.wait = "none", !.of[a].opening.answer = "none",
                         !.of[a].owned = own]
<1>1. /\ reg \in RegType(Ids(n), saved) /\ reg.of \in [Agents -> LifeType(Ids(n), saved)]
      /\ e \in LifeType(Ids(n), saved)
  BY ListedFacts
<1>2. f = Refused(e) /\ g = Readied(e)  BY DEF Refused, Readied, Opening
<1>3. settled = WithLife(reg, a, f)
  <2> DEFINE f1 == [e EXCEPT !.opening.wait = "none", !.opening.answer = "none", !.owned = own]
  <2> HIDE DEF own
  <2>1. f = f1  BY <1>1 DEF Answered, LifeType, OpeningType
  <2>2. settled = [reg EXCEPT !.of = [reg.of EXCEPT ![a] = f1]]
    BY <1>1, ZenonT(40) DEF RegType, LifeType, OpeningType
  <2> QED BY <2>1, <2>2 DEF WithLife
<1>4. answer = "ok" => [settled EXCEPT !.of[a].ready = settled.of[a].ready \cup {c}] = WithLife(reg, a, g)
  <2> SUFFICES ASSUME answer = "ok"
               PROVE  [settled EXCEPT !.of[a].ready = settled.of[a].ready \cup {c}] = WithLife(reg, a, g)
    OBVIOUS
  <2>1. own = e.owned  OBVIOUS
  <2> DEFINE u == WithLife(reg, a, f) ready == u.of[a].ready \cup {c}
  <2>2. f \in LifeType(Ids(n), saved) /\ f.ready = e.ready
    <3>1. e.owned \in SUBSET Resources /\ e.ready \in SUBSET Components  BY <1>1 DEF LifeType
    <3> HIDE DEF own
    <3> QED BY <1>1, <2>1, <3>1, AnsweredFacts
  <2>3. [f EXCEPT !.ready = e.ready \cup {c}] = g
    <3> HIDE DEF own
    <3> QED BY <1>1, <2>1 DEF Answered, LifeType, OpeningType
  <2> HIDE DEF f, g, settled, own
  <2>4. u.of = [reg.of EXCEPT ![a] = f] /\ u.of[a] = f  BY <1>1 DEF WithLife, RegType
  <2>5. [u EXCEPT !.of[a].ready = ready] = [reg EXCEPT !.of = [reg.of EXCEPT ![a] = [f EXCEPT !.ready = ready]]]
    <3> HIDE DEF ready
    <3> QED BY <1>1, <2>2 DEF WithLife, RegType, LifeType
  <2> QED BY <1>3, <2>2, <2>3, <2>4, <2>5 DEF WithLife
<1>5. settled = [reg EXCEPT !.of[a].opening.wait = "none", !.of[a].opening.answer = "none",
                   !.of[a].owned = IF answer = "unowned" THEN @ \ Owns(c) ELSE @]
  BY <1>1 DEF RegType, LifeType, OpeningType
<1>6. [settled EXCEPT !.of[a].ready = settled.of[a].ready \cup {c}] = [settled EXCEPT !.of[a].ready = @ \cup {c}]
  BY <1>1 DEF RegType, LifeType, OpeningType
<1>7. /\ Opening(a).wait = "component" /\ answer \in {"ok", "failed", "unowned"}
      /\ UNCHANGED <<Outside, spent, asked>>
  BY DEF StartupResult, Awaits
<1>8. reg' = IF answer = "ok" /\ Admitted(reg, a)
             THEN RunCreation([settled EXCEPT !.of[a].ready = @ \cup {c}], a)
             ELSE FinishCreation(settled, a, TRUE)
  <2> HIDE DEF own
  <2> QED BY <1>5, Zenon DEF StartupResult, own
<1> HIDE DEF settled, f, g, c, answer
<1> QED BY <1>2, <1>3, <1>4, <1>6, <1>7, <1>8 DEF answer, e

\* A start that waits for a component has asked for one that was not ready.
LEMMA AnsweredStarts ==
  ASSUME ListedInv, NEW a \in Agents, Opening(a).wait = "component"
  PROVE  /\ reg.of[a].id # 0 /\ reg.of[a].life \in {"initializing", "closing"}
         /\ reg.of[a].closing.stage = "none"
         /\ Opening(a).component \in Components \ reg.of[a].ready
         /\ Opening(a).component = SessionOf \/ SessionOf \in reg.of[a].ready
         /\ Opening(a).answer = "unowned" => Opening(a).component = SessionOf
         /\ Admitted(reg, a) => reg.of[a].life = "initializing"
<1>1. reg.of[a] \in LifeType(Ids(Creations), saved) /\ Sound(reg.of[a])
  BY ListedFacts, LifeFacts
<1> QED BY <1>1, AwaitingFacts DEF Opening, Sound, LifeType, OpeningType

\* What an owner refused to acquire is nobody's.
LEMMA RefusedKeeps ==
  ASSUME ListedInv, NEW a \in Agents, Opening(a).wait = "component"
  PROVE  Kept(WithLife(reg, a, Refused(reg.of[a])), held, spent.created, Creations, saved)
<1> DEFINE n == Creations drawn == spent.created e == reg.of[a] c == Opening(a).component
           answer == Opening(a).answer
           own == IF answer = "unowned" THEN e.owned \ Owns(c) ELSE e.owned
           f == Answered(e, own, e.ready)
<1>1. /\ n \in Nat /\ saved \in Nat /\ drawn \in [Agents -> Nat]
      /\ Kept(reg, held, drawn, n, saved)
  BY ListedFacts
<1>2. /\ e \in LifeType(Ids(n), saved) /\ Sound(e) /\ Holding(e, held, a)
      /\ Within(e, reg.restarts[a].stage, reg.seen, drawn[a], n)
  BY <1>1, LifeFacts
<1>3. /\ e.id # 0 /\ e.life \in {"initializing", "closing"} /\ e.closing.stage = "none"
      /\ answer = "unowned" => c = SessionOf
  BY AnsweredStarts
<1>4. /\ c \in Components /\ own \in SUBSET Resources /\ e.ready \in SUBSET Components
  BY <1>2 DEF LifeType, OpeningType, Opening
<1>5. /\ f \in LifeType(Ids(n), saved)
      /\ f.life = e.life /\ f.id = e.id /\ f.ready = e.ready /\ f.closing = e.closing
      /\ f.owned = own /\ f.opening.wait = "none" /\ f.opening.revision = e.opening.revision
  BY <1>2, <1>4, AnsweredFacts
<1>6. \A x \in held : x[1] = a => x[3] \in own
  <2> SUFFICES ASSUME NEW x \in held, x[1] = a, answer = "unowned" PROVE x[3] \notin Owns(c)
    BY <1>2 DEF Holding
  <2>1. <<a, e.id, <<"conversation", 0>>>> \notin held  BY <1>2, <1>3 DEF Holding, Opening
  <2>2. x = <<a, e.id, x[3]>>  BY <1>2 DEF Holding, ListedInv, OthersInv
  <2> QED BY <1>3, <1>4, <2>1, <2>2, OwnsFacts
<1>7. Refused(e) = f  BY DEF Refused, Opening
<1> HIDE DEF f, own
<1>8. Sound(f)  BY <1>2, <1>3, <1>5 DEF Sound
<1>9. Holding(f, held, a)  BY <1>2, <1>3, <1>5, <1>6 DEF Holding
<1>10. Within(f, reg.restarts[a].stage, reg.seen, drawn[a], n)  BY <1>2, <1>5 DEF Within
<1> HIDE DEF n, drawn, e
<1>11. Kept(WithLife(reg, a, f), held, drawn, n, saved)
  BY <1>1, <1>5, <1>8, <1>9, <1>10, OneLife
<1> QED BY <1>7, <1>11 DEF e, n, drawn

\* What an owner started is held.
LEMMA ReadiedKeeps ==
  ASSUME ListedInv, NEW a \in Agents, Opening(a).wait = "component", Opening(a).answer = "ok",
         Admitted(reg, a)
  PROVE  Kept(WithLife(reg, a, Readied(reg.of[a])), held, spent.created, Creations, saved)
<1> DEFINE n == Creations drawn == spent.created e == reg.of[a] c == Opening(a).component
           g == Answered(e, e.owned, e.ready \cup {c})
<1>1. /\ n \in Nat /\ saved \in Nat /\ drawn \in [Agents -> Nat]
      /\ Kept(reg, held, drawn, n, saved)
  BY ListedFacts
<1>2. /\ e \in LifeType(Ids(n), saved) /\ Sound(e) /\ Holding(e, held, a)
      /\ Within(e, reg.restarts[a].stage, reg.seen, drawn[a], n)
  BY <1>1, LifeFacts
<1>3. e.id # 0 /\ e.life = "initializing" /\ e.closing.stage = "none"
  BY AnsweredStarts
<1>4. e.owned \in SUBSET Resources /\ e.ready \cup {c} \in SUBSET Components
  BY <1>2, AnsweredStarts DEF LifeType
<1>5. /\ g \in LifeType(Ids(n), saved)
      /\ g.life = e.life /\ g.id = e.id /\ g.ready = e.ready \cup {c} /\ g.closing = e.closing
      /\ g.owned = e.owned /\ g.opening.wait = "none" /\ g.opening.revision = e.opening.revision
  BY <1>2, <1>4, AnsweredFacts
<1>6. \A r \in Owns(c) \ Claimed : <<a, e.id, r>> \in held
  BY <1>2 DEF Holding, Opening
<1>7. Readied(e) = g  BY DEF Readied, Opening
<1> HIDE DEF g, c
<1>8. Sound(g)  BY <1>2, <1>3, <1>5 DEF Sound
<1>9. Holding(g, held, a)  BY <1>2, <1>3, <1>5, <1>6 DEF Holding
<1>10. Within(g, reg.restarts[a].stage, reg.seen, drawn[a], n)  BY <1>2, <1>5 DEF Within
<1> HIDE DEF n, drawn, e
<1>11. Kept(WithLife(reg, a, g), held, drawn, n, saved)
  BY <1>1, <1>5, <1>8, <1>9, <1>10, OneLife
<1> QED BY <1>7, <1>11 DEF e, n, drawn

\* Nobody's resources are listed, and what is ready is held.
LEMMA StartupResultStep ==
  ASSUME ListedInv, NEW a \in Agents, StartupResult(a)
  PROVE  ListedInv'
<1> DEFINE n == Creations drawn == spent.created e == reg.of[a]
           u == WithLife(reg, a, Refused(e)) v == WithLife(reg, a, Readied(e))
<1>1. /\ n \in Nat /\ saved \in Nat /\ drawn \in [Agents -> Nat]
      /\ reg \in RegType(Ids(n), saved) /\ e \in LifeType(Ids(n), saved)
  BY ListedFacts
<1>2. /\ Opening(a).wait = "component" /\ UNCHANGED <<Outside, spent, asked>>
      /\ \/ reg' = FinishCreation(u, a, TRUE)
         \/ /\ Opening(a).answer = "ok" /\ Admitted(reg, a)
            /\ reg' = RunCreation(v, a)
  BY StartupResultRuns
<1>3. /\ e.id # 0 /\ Opening(a).component \in Components
      /\ Opening(a).component = SessionOf \/ SessionOf \in e.ready
  BY <1>2, AnsweredStarts
<1>4. e.owned \in SUBSET Resources /\ e.ready \in SUBSET Components  BY <1>1 DEF LifeType
<1>5. CASE reg' = FinishCreation(u, a, TRUE)
  <2>1. Kept(u, held, drawn, n, saved)  BY <1>2, RefusedKeeps
  <2>2. Refused(e) \in LifeType(Ids(n), saved) /\ Refused(e).id = e.id
    <3> DEFINE own == IF e.opening.answer = "unowned" THEN e.owned \ Owns(e.opening.component)
                      ELSE e.owned
    <3>1. own \in SUBSET Resources  BY <1>4
    <3>2. Refused(e) = Answered(e, own, e.ready)  BY DEF Refused
    <3> HIDE DEF own, e
    <3> QED BY <1>1, <1>4, <3>1, <3>2, AnsweredFacts
  <2>3. u.of[a].id # 0
    <3> HIDE DEF e
    <3> QED BY <1>1, <1>3, <2>2, WithLifeFacts
  <2> HIDE DEF u
  <2>4. Kept(FinishCreation(u, a, TRUE), held, drawn, n, saved)
    BY <1>1, <2>1, <2>3, FinishCreationKeeps
  <2> QED BY <1>2, <1>5, <2>4, RegistryStep
<1>6. CASE /\ Opening(a).answer = "ok" /\ Admitted(reg, a)
           /\ reg' = RunCreation(v, a)
  <2>1. Kept(v, held, drawn, n, saved)  BY <1>2, <1>6, ReadiedKeeps
  <2> DEFINE ready == e.ready \cup {Opening(a).component}
  <2>2. ready \in SUBSET Components /\ SessionOf \in ready  BY <1>3, <1>4
  <2>3. Readied(e) = Answered(e, e.owned, ready)  BY DEF Readied, Opening
  <2> HIDE DEF ready, e
  <2>4. /\ Readied(e) \in LifeType(Ids(n), saved) /\ Readied(e).id = e.id
        /\ Readied(e).ready = ready /\ Readied(e).opening.wait = "none"
    BY <1>1, <1>4, <2>2, <2>3, AnsweredFacts
  <2>5. v.of[a] = Readied(e)  BY <1>1, <2>4, WithLifeFacts
  <2>6. SessionOf \in v.of[a].ready /\ v.of[a].id # 0 /\ v.of[a].opening.wait = "none"
    BY <1>3, <2>2, <2>4, <2>5
  <2> HIDE DEF v
  <2>7. Kept(RunCreation(v, a), held, drawn, n, saved)  BY <1>1, <2>1, <2>6, RunCreationKeeps
  <2> QED BY <1>2, <1>6, <2>7, RegistryStep
<1> QED BY <1>2, <1>5, <1>6

-----------------------------------------------------------------------------
(* Closing: the steps.                                                     *)

\* A release at another stage, and what the lifetime still owes.
ReleaseAt(e, stage, own) == [e EXCEPT !.closing.stage = stage, !.owned = own]

\* The fields of a lifetime whose release moved on.
LEMMA ReleaseAtFacts ==
  ASSUME NEW L, NEW s, NEW e \in LifeType(L, s), NEW stage \in CloseStages,
         NEW own \in SUBSET Resources
  PROVE  LET f == ReleaseAt(e, stage, own) IN
         /\ f \in LifeType(L, s)
         /\ f.life = e.life /\ f.id = e.id /\ f.ready = e.ready /\ f.opening = e.opening
         /\ f.owned = own /\ f.closing.stage = stage /\ f.closing.resource = e.closing.resource
         /\ f.failed = e.failed /\ f.parent = e.parent /\ f.instance = e.instance
BY DEF ReleaseAt, LifeType, ClosingType

\* A release that moves on drops something or nothing; what is confirmed, and
\* what is struck off the list, is not held.
Dropping(w, a, h, h2, stage, own) ==
  /\ w.of[a].closing.stage # "none" /\ stage \in CloseStages
  /\ own \subseteq w.of[a].owned
  /\ h2 \subseteq h /\ \A x \in h : x[1] # a => x \in h2
  /\ stage = "ok" => <<a, w.of[a].id, w.of[a].closing.resource>> \notin h2
  /\ \A x \in h2 : x[1] = a => x[3] \in own

\* Such a release keeps the lifetimes beside what is held.
LEMMA ReleaseKeeps ==
  ASSUME NEW h, NEW drawn, NEW n \in Nat, NEW s \in Nat, NEW w, Kept(w, h, drawn, n, s),
         NEW a \in Agents, NEW h2, NEW stage, NEW own, Dropping(w, a, h, h2, stage, own)
  PROVE  /\ Kept(WithLife(w, a, ReleaseAt(w.of[a], stage, own)), h2, drawn, n, s)
         /\ \A b \in Agents :
              WithLife(w, a, ReleaseAt(w.of[a], stage, own)).of[b].life = w.of[b].life
         /\ w.of[a].life = "closing"
<1> DEFINE e == w.of[a] f == ReleaseAt(e, stage, own)
<1>1. /\ e \in LifeType(Ids(n), s) /\ Sound(e) /\ Holding(e, h, a)
      /\ Within(e, w.restarts[a].stage, w.seen, drawn[a], n) /\ e.owned \subseteq Resources
      /\ w \in RegType(Ids(n), s)
  BY LifeFacts DEF Kept
<1>2. own \in SUBSET Resources /\ stage \in CloseStages  BY <1>1 DEF Dropping
<1>3. /\ f \in LifeType(Ids(n), s)
      /\ f.life = e.life /\ f.id = e.id /\ f.ready = e.ready /\ f.opening = e.opening
      /\ f.owned = own /\ f.closing.stage = stage /\ f.closing.resource = e.closing.resource
  BY <1>1, <1>2, ReleaseAtFacts
<1>4. e.life = "closing" /\ e.opening.wait = "none"  BY <1>1 DEF Sound, Dropping
<1> HIDE DEF f
<1>5. Sound(f)  BY <1>1, <1>3, <1>4 DEF Sound
<1>6. Holding(f, h2, a)  BY <1>1, <1>3, <1>4 DEF Holding, Dropping
<1>7. Within(f, w.restarts[a].stage, w.seen, drawn[a], n)  BY <1>1, <1>3 DEF Within
<1>8. \A x : x[1] # a => (x \in h2 <=> x \in h)  BY DEF Dropping
<1>9. Kept(WithLife(w, a, f), h2, drawn, n, s)
  BY <1>3, <1>5, <1>6, <1>7, <1>8, OneHeld
<1>10. \A b \in Agents : WithLife(w, a, f).of[b] = IF b = a THEN f ELSE w.of[b]
  BY <1>1, <1>3, WithLifeFacts
<1> QED BY <1>3, <1>4, <1>9, <1>10 DEF f

\* Only an AgentLoop answers for a resource of kind loop.
LEMMA LoopIsClaimed ==
  ASSUME NEW r \in Duties, r[1] = "loop"
  PROVE  r \in Claimed
<1>1. r \in Resources  BY DEF Duties
<1>2. CASE \E c \in Components : r \in Owns(c)
  <2>1. PICK c \in Components : r \in Owns(c)  BY <1>2
  <2>2. c \in Named  BY ComponentsNamed
  <2>3. c[1] \in Names  BY <2>2 DEF Named
  <2>4. r = <<"loop", 0>>  BY <2>1, <2>3 DEF Owns, Names
  <2> QED BY <2>4 DEF Claimed
<1> QED BY <1>1, <1>2 DEF Resources

\* The next activation of an AgentLoop knows no lifetime.
LEMMA FreshFacts ==
  ASSUME NEW a \in Agents, loops \in [Agents -> [instance : Nat, creation : Lifetimes]],
         NEW n \in Nat, Lifetimes = Ids(n)
  PROVE  Fresh(a) \in [Agents -> [instance : Nat, creation : Lifetimes]]
<1> DEFINE next == [instance |-> loops[a].instance + 1, creation |-> 0]
<1>1. 0 \in Lifetimes  BY ZeroIsId
<1>2. next \in [instance : Nat, creation : Lifetimes]  BY <1>1
<1>3. Fresh(a) = [loops EXCEPT ![a] = next]  BY DEF Fresh
<1> QED BY <1>2, <1>3

\* The answer of an owner that was asked for a release.
LEMMA ReleasedIs ==
  ASSUME ListedInv, NEW a \in Agents, NEW stage \in {"ok", "failed"}
  PROVE  Released(a, stage = "ok") = WithLife(reg, a, ReleaseAt(reg.of[a], stage, reg.of[a].owned))
<1> DEFINE n == Creations e == reg.of[a] g == [e EXCEPT !.closing.stage = stage]
<1>1. /\ reg \in RegType(Ids(n), saved) /\ reg.of \in [Agents -> LifeType(Ids(n), saved)]
      /\ e \in LifeType(Ids(n), saved)
  BY ListedFacts
<1>2. ReleaseAt(e, stage, e.owned) = g  BY <1>1 DEF ReleaseAt, LifeType, ClosingType
<1>3. Released(a, stage = "ok") = [reg EXCEPT !.of = [reg.of EXCEPT ![a] = g]]
  BY <1>1 DEF Released, RegType, LifeType, ClosingType
<1> QED BY <1>2, <1>3 DEF WithLife

\* An outside owner was asked for a release.
LEMMA ReleasedStep ==
  ASSUME ListedInv, NEW a \in Agents, Closing(a).stage = "asked", NEW stage \in {"ok", "failed"},
         reg' = Released(a, stage = "ok"), NEW res, held' \in {held, Drops(a, res)},
         stage = "ok" => held' = Drops(a, res) /\ Closing(a).resource \in res,
         loops' \in {loops, Fresh(a)}, Fault \/ UNCHANGED spent,
         UNCHANGED <<saved, notices, asked>>
  PROVE  ListedInv'
<1> DEFINE n == Creations drawn == spent.created e == reg.of[a]
<1>1. /\ n \in Nat /\ saved \in Nat /\ Kept(reg, held, drawn, n, saved) /\ Lifetimes = Ids(n)
      /\ reg \in RegType(Ids(n), saved) /\ reg.of \in [Agents -> LifeType(Ids(n), saved)]
      /\ e \in LifeType(Ids(n), saved)
  BY ListedFacts
<1>2. Holding(e, held, a) /\ e.owned \in SUBSET e.owned /\ stage \in CloseStages
      /\ e.closing.stage = "asked"
  BY <1>1, LifeFacts DEF CloseStages, Closing
<1>3. reg' = WithLife(reg, a, ReleaseAt(e, stage, e.owned))  BY ReleasedIs
<1>4. /\ held' \in SUBSET held /\ \A x \in held : x[1] # a => x \in held'
      /\ stage = "ok" => <<a, e.id, e.closing.resource>> \notin held'
  BY DEF Drops, Lifetime, Closing
<1>5. Kept(reg', held', drawn, n, saved)
  <2>1. \A x \in held' : x[1] = a => x[3] \in e.owned  BY <1>2, <1>4 DEF Holding
  <2>2. Dropping(reg, a, held, held', stage, e.owned)  BY <1>2, <1>4, <2>1 DEF Dropping
  <2> HIDE DEF n, drawn
  <2> QED BY <1>1, <1>3, <2>2, ReleaseKeeps
<1>6. /\ held' \subseteq Agents \X Lifetimes \X Resources
      /\ loops' \in [Agents -> [instance : Nat, creation : Lifetimes]]
      /\ asked' \subseteq Agents \X Lifetimes \X {"close", "lost"}
  <2>1. /\ held \subseteq Agents \X Lifetimes \X Resources
        /\ loops \in [Agents -> [instance : Nat, creation : Lifetimes]]
        /\ asked \subseteq Agents \X Lifetimes \X {"close", "lost"}
    BY DEF ListedInv, OthersInv
  <2>2. Fresh(a) \in [Agents -> [instance : Nat, creation : Lifetimes]]
    BY <1>1, <2>1, FreshFacts
  <2> QED BY <1>4, <2>1, <2>2
<1> QED BY <1>5, <1>6, ListedStep

\* The AgentLoop settles its work and gives up what it was claimed for.
LEMMA ReleaseExecutionStep ==
  ASSUME ListedInv, NEW a \in Agents, ReleaseExecution(a)
  PROVE  ListedInv'
<1>1. /\ Closing(a).stage = "asked" /\ UNCHANGED <<saved, notices, loops, asked>>
  BY DEF ReleaseExecution, Releases
<1> DEFINE res == {Closing(a).resource}
<1>2. PICK stage \in {"ok", "failed"} :
        /\ reg' = Released(a, stage = "ok") /\ held' \in {held, Drops(a, res)}
        /\ stage = "ok" => held' = Drops(a, res)
        /\ Fault \/ UNCHANGED spent
  BY DEF ReleaseExecution
<1>3. Closing(a).resource \in res /\ loops' \in {loops, Fresh(a)}  BY <1>1
<1> HIDE DEF res
<1> QED BY <1>1, <1>2, <1>3, ReleasedStep

\* Deactivation ends whatever the AgentLoop still holds.
LEMMA ReleaseLoopStep ==
  ASSUME ListedInv, NEW a \in Agents, ReleaseLoop(a)
  PROVE  ListedInv'
<1>1. /\ Closing(a).stage = "asked" /\ Closing(a).resource[1] = "loop"
      /\ reg' = Released(a, "ok" = "ok") /\ held' = Drops(a, Claimed) /\ loops' = Fresh(a)
      /\ UNCHANGED <<saved, notices, asked>> /\ UNCHANGED spent
  BY DEF ReleaseLoop, Releases
<1>2. Closing(a).resource \in Claimed
  <2>1. reg.of[a] \in LifeType(Ids(Creations), saved)  BY ListedFacts
  <2>2. Closing(a).resource \in Duties  BY <2>1 DEF Closing, LifeType, ClosingType
  <2> QED BY <1>1, <2>2, LoopIsClaimed
<1>3. held' \in {held, Drops(a, Claimed)} /\ loops' \in {loops, Fresh(a)}  BY <1>1
<1> QED BY <1>1, <1>2, <1>3, ReleasedStep

\* Another owner releases its resource, or fails having released it or not.
LEMMA ReleaseComponentStep ==
  ASSUME ListedInv, NEW a \in Agents, ReleaseComponent(a)
  PROVE  ListedInv'
<1>1. /\ Closing(a).stage = "asked" /\ UNCHANGED <<saved, notices, loops, asked>>
  BY DEF ReleaseComponent, Releases
<1> DEFINE res == {Closing(a).resource}
<1>2. PICK stage \in {"ok", "failed"} :
        /\ reg' = Released(a, stage = "ok") /\ held' \in {held, Drops(a, res)}
        /\ stage = "ok" => held' = Drops(a, res)
        /\ Fault \/ UNCHANGED spent
  BY DEF ReleaseComponent
<1>3. Closing(a).resource \in res /\ loops' \in {loops, Fresh(a)}  BY <1>1
<1> HIDE DEF res
<1> QED BY <1>1, <1>2, <1>3, ReleasedStep

\* A lifetime e whose release waits for the close of a child.
Joining(e) == ReleaseAt(e, "joined", e.owned)

\* The Registry asks itself to close a child, which nothing replaces any more.
LEMMA ReleaseChildRuns ==
  ASSUME ListedInv, NEW a \in Agents, ReleaseChild(a)
  PROVE  LET child == Closing(a).resource[2] IN
         /\ Closing(a).stage = "asked" /\ Closing(a).resource[1] = "child" /\ child \in Agents
         /\ Closing(a).resource \notin Resources /\ UNCHANGED <<Outside, spent, asked>>
         /\ reg' = IF Registered(reg, child)
                   THEN ScheduleClose(WithLife(CancelRestarts(reg, child), a, Joining(reg.of[a])), child)
                   ELSE Released(a, "ok" = "ok")
<1> DEFINE n == Creations e == reg.of[a] child == Closing(a).resource[2]
           u == CancelRestarts(reg, child) g == [e EXCEPT !.closing.stage = "joined"]
<1>1. /\ n \in Nat /\ saved \in Nat /\ Kept(reg, held, spent.created, n, saved)
      /\ reg.of \in [Agents -> LifeType(Ids(n), saved)] /\ e \in LifeType(Ids(n), saved)
  BY ListedFacts
<1>2. /\ Closing(a).stage = "asked" /\ Closing(a).resource[1] = "child"
      /\ UNCHANGED <<Outside, spent, asked>>
      /\ reg' = IF Registered(reg, child)
                THEN ScheduleClose([u EXCEPT !.of[a].closing.stage = "joined"], child)
                ELSE Released(a, "ok" = "ok")
  BY DEF ReleaseChild, Releases
<1>3. child \in Agents /\ Closing(a).resource \notin Resources
  <2>1. e.closing.resource \in Duties  BY <1>1 DEF LifeType, ClosingType
  <2>2. e.closing.resource \notin Resources  BY <1>2, ResourceKinds DEF Kinds, Closing
  <2> QED BY <2>1, <2>2 DEF Duties, Closing
<1>4. u \in RegType(Ids(n), saved) /\ u.of = reg.of
  <2>1. Kept(u, held, spent.created, n, saved) /\ u.of = reg.of
    <3> HIDE DEF child, n
    <3> QED BY <1>1, <1>3, CancelRestartsKeeps
  <2> QED BY <2>1 DEF Kept
<1> HIDE DEF u
<1>5. [u EXCEPT !.of[a].closing.stage = "joined"] = WithLife(u, a, Joining(e))
  <2>1. Joining(e) = g  BY <1>1 DEF Joining, ReleaseAt, LifeType, ClosingType
  <2>2. [u EXCEPT !.of[a].closing.stage = "joined"] = [u EXCEPT !.of = [u.of EXCEPT ![a] = g]]
    BY <1>1, <1>4 DEF RegType, LifeType, ClosingType
  <2> QED BY <2>1, <2>2 DEF WithLife
<1> QED BY <1>2, <1>3, <1>5 DEF u

\* Waiting for the close of a child leaves everything listed.
LEMMA JoiningKeeps ==
  ASSUME ListedInv, NEW a \in Agents, Closing(a).stage = "asked", NEW child \in Agents
  PROVE  LET v == WithLife(CancelRestarts(reg, child), a, Joining(reg.of[a])) IN
         /\ Kept(v, held, spent.created, Creations, saved)
         /\ \A b \in Agents : v.of[b].life = reg.of[b].life
<1> DEFINE n == Creations drawn == spent.created e == reg.of[a] u == CancelRestarts(reg, child)
           next == WithLife(u, a, ReleaseAt(u.of[a], "joined", e.owned))
<1>1. n \in Nat /\ saved \in Nat /\ Kept(reg, held, drawn, n, saved)
  BY ListedFacts
<1>2. /\ \A x \in held : x[1] = a => x[3] \in e.owned
      /\ e.closing.stage = "asked" /\ "joined" \in CloseStages /\ held \in SUBSET held
  <2>1. Holding(e, held, a)
    <3> HIDE DEF n, drawn
    <3> QED BY <1>1, LifeFacts
  <2> QED BY <2>1 DEF Holding, Closing, CloseStages
<1>3. Kept(u, held, drawn, n, saved) /\ u.of = reg.of
  <2> HIDE DEF n, drawn
  <2> QED BY <1>1, CancelRestartsKeeps
<1> HIDE DEF u
<1>4. Dropping(u, a, held, held, "joined", e.owned)
  BY <1>2, <1>3 DEF Dropping
<1>5. Kept(next, held, drawn, n, saved) /\ \A b \in Agents : next.of[b].life = u.of[b].life
  <2> HIDE DEF n, drawn, e
  <2>1. n \in Nat /\ saved \in Nat  BY <1>1
  <2>2. Kept(u, held, drawn, n, saved)  BY <1>3
  <2> QED BY <2>1, <2>2, <1>4, ReleaseKeeps
<1>6. next = WithLife(u, a, Joining(e))  BY <1>3 DEF Joining
<1> HIDE DEF next
<1> QED BY <1>3, <1>5, <1>6 DEF u

\* The close of the child begins, or its parent goes on.
LEMMA ReleaseChildStep ==
  ASSUME ListedInv, NEW a \in Agents, ReleaseChild(a)
  PROVE  ListedInv'
<1> DEFINE n == Creations drawn == spent.created child == Closing(a).resource[2]
           v == WithLife(CancelRestarts(reg, child), a, Joining(reg.of[a]))
<1>1. /\ Closing(a).stage = "asked" /\ child \in Agents /\ Closing(a).resource \notin Resources
      /\ UNCHANGED <<Outside, spent, asked>>
      /\ reg' = IF Registered(reg, child) THEN ScheduleClose(v, child) ELSE Released(a, "ok" = "ok")
  BY ReleaseChildRuns
<1>2. n \in Nat /\ saved \in Nat /\ Kept(reg, held, drawn, n, saved)  BY ListedFacts
<1>3. CASE Registered(reg, child)
  <2>1. Kept(v, held, drawn, n, saved) /\ \A b \in Agents : v.of[b].life = reg.of[b].life
    <3> HIDE DEF child
    <3> QED BY <1>1, JoiningKeeps
  <2> HIDE DEF v, child, n, drawn
  <2>2. v.of[child].life \notin {"absent", "closed"}  BY <1>1, <1>3, <2>1 DEF Registered
  <2>3. Kept(ScheduleClose(v, child), held, drawn, n, saved)
    BY <1>1, <1>2, <2>1, <2>2, ScheduleCloseKeeps
  <2> QED BY <1>1, <1>3, <2>3, RegistryStep DEF n, drawn
<1>4. CASE ~Registered(reg, child)
  <2> DEFINE res == {Closing(a).resource}
  <2>1. held' = Drops(a, res)
    <3>1. <<a, reg.of[a].id, Closing(a).resource>> \notin held  BY <1>1 DEF ListedInv, OthersInv
    <3> QED BY <1>1, <3>1 DEF Drops, Lifetime, Outside
  <2>2. /\ reg' = Released(a, "ok" = "ok") /\ Closing(a).resource \in res
        /\ UNCHANGED <<saved, notices, asked>> /\ loops' \in {loops, Fresh(a)}
        /\ held' \in {held, Drops(a, res)} /\ UNCHANGED spent
    BY <1>1, <1>4, <2>1 DEF Outside
  <2> HIDE DEF res
  <2> QED BY <1>1, <2>1, <2>2, ReleasedStep
<1> QED BY <1>3, <1>4

\* A lifetime e whose release was answered: only what was confirmed is struck off.
Confirmed(e) ==
  ReleaseAt(e, "none", IF e.closing.stage = "ok" THEN e.owned \ {e.closing.resource} ELSE e.owned)

\* A confirmed release lets the next one begin; a failed one ends the close for now.
LEMMA ShutdownResultRuns ==
  ASSUME ListedInv, NEW a \in Agents, ShutdownResult(a)
  PROVE  /\ Closing(a).stage \in {"ok", "failed"} /\ UNCHANGED <<Outside, spent, asked>>
         /\ reg' = IF Closing(a).stage = "ok" THEN RunClose(WithLife(reg, a, Confirmed(reg.of[a])), a)
                   ELSE AnswerClose(WithLife(reg, a, Confirmed(reg.of[a])), a, FALSE)
<1> DEFINE n == Creations e == reg.of[a] r == e.closing.resource own == e.owned \ {r}
           u == WithLife(reg, a, Confirmed(e))
           g == [e EXCEPT !.closing.stage = "none"]
           k == [e EXCEPT !.closing.stage = "none", !.owned = own]
           ended == [reg EXCEPT !.of[a].closing.stage = "none"]
           confirmed == [reg EXCEPT !.of[a].closing.stage = "none", !.of[a].owned = @ \ {r}]
<1>1. /\ reg \in RegType(Ids(n), saved) /\ reg.of \in [Agents -> LifeType(Ids(n), saved)]
      /\ e \in LifeType(Ids(n), saved)
  BY ListedFacts
<1>2. e.closing.stage = "failed" => ended = u
  <2> SUFFICES ASSUME e.closing.stage = "failed" PROVE ended = u
    OBVIOUS
  <2>1. Confirmed(e) = g
    <3>1. Confirmed(e) = ReleaseAt(e, "none", e.owned)  BY DEF Confirmed
    <3> QED BY <1>1, <3>1 DEF ReleaseAt, LifeType, ClosingType
  <2>2. ended = [reg EXCEPT !.of = [reg.of EXCEPT ![a] = g]]
    BY <1>1 DEF RegType, LifeType, ClosingType
  <2> QED BY <2>1, <2>2 DEF WithLife
<1>3. e.closing.stage = "ok" => confirmed = u
  <2> SUFFICES ASSUME e.closing.stage = "ok" PROVE confirmed = u
    OBVIOUS
  <2>1. Confirmed(e) = k  BY DEF Confirmed, ReleaseAt
  <2>2. confirmed = [reg EXCEPT !.of[a].closing.stage = "none", !.of[a].owned = own]
    BY <1>1 DEF RegType, LifeType, ClosingType
  <2> HIDE DEF own, confirmed
  <2>3. [reg EXCEPT !.of[a].closing.stage = "none", !.of[a].owned = own]
          = [reg EXCEPT !.of = [reg.of EXCEPT ![a] = k]]
    BY <1>1 DEF RegType, LifeType, ClosingType
  <2> QED BY <2>1, <2>2, <2>3 DEF WithLife
<1>4. Closing(a).stage \in {"ok", "failed"} /\ UNCHANGED <<Outside, spent, asked>>
  BY DEF ShutdownResult
<1>5. reg' = IF e.closing.stage = "ok" THEN RunClose(confirmed, a) ELSE AnswerClose(ended, a, FALSE)
  BY Zenon DEF ShutdownResult, Closing
<1> HIDE DEF u, confirmed, ended
<1> QED BY <1>2, <1>3, <1>4, <1>5 DEF u, Closing

\* What is struck off is not held.
LEMMA ConfirmedKeeps ==
  ASSUME ListedInv, NEW a \in Agents, Closing(a).stage \in {"ok", "failed"}
  PROVE  /\ Kept(WithLife(reg, a, Confirmed(reg.of[a])), held, spent.created, Creations, saved)
         /\ WithLife(reg, a, Confirmed(reg.of[a])).of[a].life = "closing"
<1> DEFINE n == Creations drawn == spent.created e == reg.of[a] r == e.closing.resource
           own == IF e.closing.stage = "ok" THEN e.owned \ {r} ELSE e.owned
           u == WithLife(reg, a, ReleaseAt(e, "none", own))
<1>1. n \in Nat /\ saved \in Nat /\ Kept(reg, held, drawn, n, saved)
  BY ListedFacts
<1>2. Holding(e, held, a)  BY <1>1, LifeFacts
<1>3. \A x \in held : x[1] = a => x[2] = e.id /\ x[3] \in e.owned /\ x = <<a, e.id, x[3]>>
  BY <1>2 DEF Holding, ListedInv, OthersInv
<1>4. \A x \in held : x[1] = a => x[3] \in own
  <2>1. e.closing.stage = "ok" => <<a, e.id, r>> \notin held  BY <1>2 DEF Holding
  <2> QED BY <1>3, <2>1
<1>5. Dropping(reg, a, held, held, "none", own)
  BY <1>4 DEF Dropping, CloseStages, Closing
<1>6. Confirmed(e) = ReleaseAt(e, "none", own)  BY DEF Confirmed
<1> HIDE DEF n, drawn, own
<1>7. Kept(u, held, drawn, n, saved) /\ e.life = "closing"
      /\ \A b \in Agents : u.of[b].life = reg.of[b].life
  BY <1>1, <1>5, ReleaseKeeps
<1> HIDE DEF u
<1> QED BY <1>6, <1>7 DEF u, n, drawn

\* The next release begins, or the close ends for now.
LEMMA ShutdownResultStep ==
  ASSUME ListedInv, NEW a \in Agents, ShutdownResult(a)
  PROVE  ListedInv'
<1> DEFINE n == Creations drawn == spent.created u == WithLife(reg, a, Confirmed(reg.of[a]))
<1>1. /\ Closing(a).stage \in {"ok", "failed"} /\ UNCHANGED <<Outside, spent, asked>>
      /\ reg' = IF Closing(a).stage = "ok" THEN RunClose(u, a) ELSE AnswerClose(u, a, FALSE)
  BY ShutdownResultRuns
<1>2. n \in Nat /\ saved \in Nat  BY ListedFacts
<1>3. Kept(u, held, drawn, n, saved) /\ u.of[a].life = "closing"  BY <1>1, ConfirmedKeeps
<1> HIDE DEF u, n, drawn
<1>4. Kept(RunClose(u, a), held, drawn, n, saved)  BY <1>2, <1>3, RunCloseKeeps
<1>5. Kept(AnswerClose(u, a, FALSE), held, drawn, n, saved)  BY <1>2, <1>3, AnswerCloseKeeps
<1> QED BY <1>1, <1>4, <1>5, RegistryStep DEF n, drawn

\* A start that waits for the AgentLoop that is lost fails.
LEMMA LoopLostRuns ==
  ASSUME ListedInv, NEW a \in Agents, LoopLost(a)
  PROVE  /\ loops' = Fresh(a) /\ held' = Drops(a, Claimed) /\ UNCHANGED <<saved, notices, asked>>
         /\ spent.lost < spent.of.lost /\ spent' = [spent EXCEPT !.lost = @ + 1]
         /\ loops[a].creation # 0 \/ Opening(a).wait = "component"
         /\ \E answer \in Answers :
              /\ answer \in {Opening(a).answer, "failed"}
              /\ Opening(a).wait = "component" /\ Asking(a) = "agent" => answer # "claimed"
              /\ reg' = WithLife(reg, a, Answering(reg.of[a], answer, reg.of[a].owned, reg.of[a].instance))
<1> DEFINE n == Creations e == reg.of[a]
           waits == Asking(a) = "agent" /\ Awaits(a, "component", {"claimed"})
           now == Answering(e, e.opening.answer, e.owned, e.instance)
<1>1. /\ reg \in RegType(Ids(n), saved) /\ reg.of \in [Agents -> LifeType(Ids(n), saved)]
      /\ e \in LifeType(Ids(n), saved)
  BY ListedFacts
<1>2. /\ loops' = Fresh(a) /\ held' = Drops(a, Claimed) /\ UNCHANGED <<saved, notices, asked>>
      /\ spent.lost < spent.of.lost /\ spent' = [spent EXCEPT !.lost = @ + 1]
      /\ loops[a].creation # 0 \/ Opening(a).wait = "component"
      /\ reg' = IF waits THEN [reg EXCEPT !.of[a].opening.answer = "failed"] ELSE reg
  BY DEF LoopLost, Awaits
<1>3. [reg EXCEPT !.of[a].opening.answer = "failed"] =
        WithLife(reg, a, Answering(e, "failed", e.owned, e.instance))
  BY <1>1 DEF WithLife, Answering, RegType, LifeType, OpeningType
<1>4. reg = WithLife(reg, a, now)
  <2>1. now = e  BY <1>1 DEF Answering, LifeType, OpeningType
  <2> HIDE DEF now, e
  <2> QED BY <1>1, <2>1 DEF WithLife, RegType, e
<1>5. "failed" \in Answers /\ Opening(a).answer \in Answers
  BY <1>1 DEF LifeType, OpeningType, Opening, Answers
<1>6. CASE waits
  <2>1. reg' = WithLife(reg, a, Answering(e, "failed", e.owned, e.instance))
    BY <1>2, <1>3, <1>6
  <2> QED BY <1>2, <1>5, <2>1
<1>7. CASE ~waits
  <2>1. reg' = WithLife(reg, a, Answering(e, Opening(a).answer, e.owned, e.instance))
    BY <1>2, <1>4, <1>7 DEF Opening
  <2>2. Opening(a).wait = "component" /\ Asking(a) = "agent" => Opening(a).answer # "claimed"
    BY <1>7 DEF Awaits
  <2> QED BY <1>2, <1>5, <2>1, <2>2
<1> QED BY <1>6, <1>7

\* What an AgentLoop was claimed for is lost with its activation.
LEMMA LoopLostStep ==
  ASSUME ListedInv, NEW a \in Agents, LoopLost(a)
  PROVE  ListedInv'
<1> DEFINE n == Creations drawn == spent.created e == reg.of[a]
<1>1. /\ n \in Nat /\ saved \in Nat /\ Kept(reg, held, drawn, n, saved) /\ Lifetimes = Ids(n)
      /\ reg \in RegType(Ids(n), saved) /\ reg.of \in [Agents -> LifeType(Ids(n), saved)]
      /\ e \in LifeType(Ids(n), saved) /\ spent.of.lost \in Nat
  BY ListedFacts
<1>2. /\ Sound(e) /\ Holding(e, held, a)
      /\ Within(e, reg.restarts[a].stage, reg.seen, drawn[a], n)
  BY <1>1, LifeFacts
<1>3. /\ spent.lost < spent.of.lost /\ spent' = [spent EXCEPT !.lost = @ + 1]
      /\ loops' = Fresh(a) /\ held' = Drops(a, Claimed) /\ UNCHANGED <<saved, notices, asked>>
  BY LoopLostRuns
<1>4. PICK answer \in Answers :
        /\ answer \in {Opening(a).answer, "failed"}
        /\ reg' = WithLife(reg, a, Answering(e, answer, e.owned, e.instance))
  BY LoopLostRuns
<1> DEFINE f == Answering(e, answer, e.owned, e.instance)
<1>5. /\ f \in LifeType(Ids(n), saved)
      /\ f.life = e.life /\ f.id = e.id /\ f.ready = e.ready /\ f.closing = e.closing
      /\ f.owned = e.owned
      /\ f.opening.wait = e.opening.wait /\ f.opening.component = e.opening.component
      /\ f.opening.answer = e.opening.answer \/ f.opening.answer = "failed"
      /\ f.opening.revision = e.opening.revision
  <2>1. e.owned \in SUBSET Resources /\ e.instance \in Nat  BY <1>1 DEF LifeType
  <2>2. answer = e.opening.answer \/ answer = "failed"  BY <1>4 DEF Opening
  <2> HIDE DEF e
  <2> QED BY <1>1, <2>1, <2>2, AnsweringFacts
<1>6. /\ held' \subseteq held /\ \A x : x[1] # a => (x \in held' <=> x \in held)
      /\ \A r : r \notin Claimed => (<<a, e.id, r>> \in held' <=> <<a, e.id, r>> \in held)
  BY <1>3 DEF Drops, Lifetime
<1> HIDE DEF f
<1>7. Sound(f)  BY <1>2, <1>5 DEF Sound
<1>8. Holding(f, held', a)
  <2> HIDE DEF e
  <2> QED BY <1>2, <1>5, <1>6 DEF Holding
<1>9. Within(f, reg.restarts[a].stage, reg.seen, drawn[a], n)  BY <1>2, <1>5 DEF Within
<1>10. Kept(WithLife(reg, a, f), held', drawn, n, saved)
  <2> HIDE DEF n, drawn
  <2> QED BY <1>1, <1>5, <1>6, <1>7, <1>8, <1>9, OneHeld
<1>11. /\ spent' \in [of : Settings, created : [Agents -> Lifetimes], lost : Nat, faults : Nat]
       /\ spent'.of = spent.of /\ spent'.created = spent.created
       /\ spent'.lost <= spent'.of.lost /\ spent'.faults <= spent'.of.faults
  <2>1. /\ spent \in [of : Settings, created : [Agents -> Lifetimes], lost : Nat, faults : Nat]
        /\ spent.lost <= spent.of.lost /\ spent.faults <= spent.of.faults
    BY DEF ListedInv, OthersInv, SpentType
  <2>2. spent.lost + 1 \in Nat /\ spent.lost + 1 <= spent.of.lost  BY <1>1, <1>3, <2>1
  <2>3. spent' = [spent EXCEPT !.lost = spent.lost + 1]  BY <1>3, <2>1
  <2> QED BY <2>1, <2>2, <2>3
<1>12. Lifetimes' = Lifetimes  BY <1>11 DEF Lifetimes
<1>13. OthersInv'
  <2>1. /\ loops \in [Agents -> [instance : Nat, creation : Lifetimes]]
        /\ held \subseteq Agents \X Lifetimes \X Resources
        /\ saved \in Revisions /\ notices \in Seq(1 .. saved)
        /\ asked \subseteq Agents \X Lifetimes \X {"close", "lost"}
    BY DEF ListedInv, OthersInv
  <2>2. loops' \in [Agents -> [instance : Nat, creation : Lifetimes]]
    BY <1>1, <1>3, <2>1, FreshFacts
  <2> QED BY <1>3, <1>6, <1>11, <1>12, <2>1, <2>2 DEF OthersInv, SpentType
<1>14. Kept(reg, held, spent.created, spent.of.creations, saved)'
  BY <1>3, <1>4, <1>10, <1>11 DEF Creations, f
<1> QED BY <1>13, <1>14 DEF ListedInv

-----------------------------------------------------------------------------
(* Replacing a lifetime: the steps.                                        *)

\* The close that a replacement asked for joins or begins one, or finds it done.
LEMMA RestartCloseStep ==
  ASSUME ListedInv, NEW a \in Agents, NEW id, RestartClose(a, id)
  PROVE  ListedInv'
<1> DEFINE n == Creations drawn == spent.created
           closes == reg.selfCloses \ {<<a, id>>}
           sent == [reg EXCEPT !.selfCloses = closes]
           own == reg.restarts[a] = [stage |-> "close", of |-> id]
           Told(stage) == IF own THEN AtStage(sent, a, stage) ELSE sent
<1>1. /\ n \in Nat /\ saved \in Nat /\ Kept(reg, held, drawn, n, saved)
      /\ reg \in RegType(Ids(n), saved)
  BY ListedFacts
<1>2. /\ UNCHANGED <<Outside, spent, asked>>
      /\ \/ reg' \in {Told("closed"), Told("closeFailed")}
         \/ Current(reg, a, id) /\ reg' = ScheduleClose(Told("joined"), a)
  <2>1. sent = [reg EXCEPT !.selfCloses = @ \ {<<a, id>>}]  BY <1>1 DEF RegType
  <2> HIDE DEF closes
  <2> QED BY <2>1, Zenon DEF RestartClose
<1>3. /\ Kept(sent, held, drawn, n, saved) /\ sent.of = reg.of /\ sent.restarts = reg.restarts
  <2>1. closes \subseteq Agents \X Ids(n)  BY <1>1 DEF RegType
  <2> HIDE DEF closes
  <2>2. /\ sent \in RegType(Ids(n), saved) /\ sent.of = reg.of /\ sent.seen = reg.seen
        /\ sent.restarts = reg.restarts
    BY <1>1, <2>1 DEF RegType
  <2>3. \A b \in Agents : sent.restarts[b].stage \in {reg.restarts[b].stage}  BY <2>2
  <2> HIDE DEF sent, n, drawn
  <2> QED BY <1>1, <2>2, <2>3, KeptWithLives
<1> HIDE DEF sent
<1>4. \A stage \in {"closed", "closeFailed", "joined"} :
        Kept(Told(stage), held, drawn, n, saved) /\ Told(stage).of = reg.of
  <2> SUFFICES ASSUME NEW stage \in {"closed", "closeFailed", "joined"}, own
               PROVE  Kept(AtStage(sent, a, stage), held, drawn, n, saved) /\
                      AtStage(sent, a, stage).of = reg.of
    BY <1>3
  <2>1. stage \in RestartStages /\ sent.restarts[a].stage \in Replacing
    BY <1>3 DEF RestartStages, Replacing
  <2> HIDE DEF n, drawn
  <2> QED BY <1>1, <1>3, <2>1, RestartStage
<1> HIDE DEF own, Told, n, drawn
<1>5. CASE reg' \in {Told("closed"), Told("closeFailed")}
  <2>1. Kept(reg', held, drawn, n, saved)  BY <1>4, <1>5
  <2> QED BY <1>2, <2>1, RegistryStep DEF n, drawn
<1>6. CASE Current(reg, a, id) /\ reg' = ScheduleClose(Told("joined"), a)
  <2>1. Kept(Told("joined"), held, drawn, n, saved) /\ Told("joined").of = reg.of  BY <1>4
  <2>2. reg.of[a].life \notin {"absent", "closed"}  BY <1>1, <1>6, CurrentIsRegistered
  <2>3. Told("joined").of[a].life \notin {"absent", "closed"}  BY <2>1, <2>2
  <2>4. Kept(reg', held, drawn, n, saved)  BY <1>1, <1>6, <2>1, <2>3, ScheduleCloseKeeps
  <2> QED BY <1>2, <2>4, RegistryStep DEF n, drawn
<1> QED BY <1>2, <1>5, <1>6

\* A replacement that moves on without touching the lifetime.
LEMMA StageStep ==
  ASSUME ListedInv, NEW a \in Agents, NEW stage \in RestartStages,
         reg.restarts[a].stage \in Replacing,
         reg' = AtStage(reg, a, stage) \/ reg' = FailRestart(reg, a),
         Fault \/ UNCHANGED spent, UNCHANGED <<Outside, asked>>
  PROVE  ListedInv'
<1>1. /\ Creations \in Nat /\ saved \in Nat
      /\ Kept(reg, held, spent.created, Creations, saved)
  BY ListedFacts
<1>2. Kept(AtStage(reg, a, stage), held, spent.created, Creations, saved)  BY <1>1, RestartStage
<1>3. Kept(FailRestart(reg, a), held, spent.created, Creations, saved)  BY <1>1, FailRestartKeeps
<1>4. /\ held' \subseteq Agents \X Lifetimes \X Resources
      /\ loops' \in [Agents -> [instance : Nat, creation : Lifetimes]]
      /\ asked' \subseteq Agents \X Lifetimes \X {"close", "lost"}
      /\ UNCHANGED <<saved, notices>> /\ held' = held
  BY DEF Outside, ListedInv, OthersInv
<1>5. Kept(reg', held', spent.created, Creations, saved)  BY <1>2, <1>3, <1>4
<1> QED BY <1>4, <1>5, ListedStep

\* A replacement fails.
LEMMA FailedStep ==
  ASSUME ListedInv, NEW a \in Agents, reg' = FailRestart(reg, a),
         UNCHANGED <<Outside, spent, asked>>
  PROVE  ListedInv'
<1>1. /\ Creations \in Nat /\ saved \in Nat
      /\ Kept(reg, held, spent.created, Creations, saved)
  BY ListedFacts
<1>2. Kept(FailRestart(reg, a), held, spent.created, Creations, saved)  BY <1>1, FailRestartKeeps
<1> QED BY <1>2, RegistryStep

\* The lifetime is closed; its Session is loaded; the next one may be created.
LEMMA RestartMovesStep ==
  ASSUME ListedInv, NEW a \in Agents,
         RestartClosed(a) \/ LoadSession(a) \/ RestartPrepared(a)
  PROVE  ListedInv'
<1>1. CASE RestartClosed(a)
  <2>1. CASE Restarts(a, {"closed"})
    <3>1. reg' = AtStage(reg, a, "loading") /\ UNCHANGED <<Outside, spent, asked>>
      BY <1>1, <2>1 DEF RestartClosed
    <3>2. "loading" \in RestartStages /\ reg.restarts[a].stage \in Replacing
      BY <2>1 DEF RestartStages, Replacing, Restarts
    <3> QED BY <3>1, <3>2, StageStep
  <2>2. CASE ~Restarts(a, {"closed"})  BY <1>1, <2>2, FailedStep DEF RestartClosed
  <2> QED BY <2>1, <2>2
<1>2. CASE LoadSession(a)
  <2>1. /\ reg' = AtStage(reg, a, "loaded") \/ reg' = AtStage(reg, a, "loadFailed")
        /\ Fault \/ UNCHANGED spent
        /\ UNCHANGED <<Outside, asked>>
    BY <1>2 DEF LoadSession
  <2>2. {"loaded", "loadFailed"} \subseteq RestartStages /\ reg.restarts[a].stage \in Replacing
    BY <1>2 DEF RestartStages, Replacing, Restarts, LoadSession
  <2> QED BY <2>1, <2>2, StageStep
<1>3. CASE RestartPrepared(a)
  <2>1. CASE Restarts(a, {"loaded"})
    <3>1. reg' = AtStage(reg, a, "create") /\ UNCHANGED <<Outside, spent, asked>>
      BY <1>3, <2>1 DEF RestartPrepared
    <3>2. "create" \in RestartStages /\ reg.restarts[a].stage \in Replacing
      BY <2>1 DEF RestartStages, Replacing, Restarts
    <3> QED BY <3>1, <3>2, StageStep
  <2>2. CASE ~Restarts(a, {"loaded"})  BY <1>3, <2>2, FailedStep DEF RestartPrepared
  <2> QED BY <2>1, <2>2
<1> QED BY <1>1, <1>2, <1>3

\* The replacement draws the next lifetime, which its revision allows for.
LEMMA RestartCreateRuns ==
  ASSUME ListedInv, NEW a \in Agents, RestartCreate(a)
  PROVE  LET id == spent.created[a] + 1
             created == [spent.created EXCEPT ![a] = id]
             w == AtStage(reg, a, "creating")
         IN
         /\ reg.restarts[a].stage = "create" /\ UNCHANGED <<Outside, asked>>
         /\ \/ reg' = AtStage(reg, a, "createFailed") /\ UNCHANGED spent
            \/ /\ ~Registered(reg, a) /\ reg' = Start(w, a, id, reg.of[a].parent)
               /\ spent' = [spent EXCEPT !.created = created]
               /\ id \in Ids(Creations) /\ id \in Nat /\ id # 0 /\ reg.of[a].parent \in Ids(Creations)
               /\ created \in [Agents -> Nat] /\ created \in [Agents -> Lifetimes] /\ created[a] = id
               /\ \A b \in Agents \ {a} : created[b] = spent.created[b]
               /\ Kept(w, held, created, Creations, saved) /\ w.of = reg.of
<1> DEFINE n == Creations drawn == spent.created id == drawn[a] + 1
           created == [drawn EXCEPT ![a] = id] parent == reg.of[a].parent
           w == AtStage(reg, a, "creating")
<1>1. /\ n \in Nat /\ saved \in Nat /\ drawn \in [Agents -> Nat]
      /\ Kept(reg, held, drawn, n, saved) /\ Lifetimes = Ids(n) /\ saved \in Revisions
      /\ reg \in RegType(Ids(n), saved) /\ reg.of[a] \in LifeType(Ids(n), saved)
  BY ListedFacts
<1>2. /\ reg.restarts[a].stage = "create" /\ UNCHANGED <<Outside, asked>>
      /\ \/ reg' = AtStage(reg, a, "createFailed") /\ UNCHANGED spent
         \/ ~Registered(reg, a) /\ reg' = Start(w, a, id, parent) /\ Drawn(a, id)
  BY DEF RestartCreate, Restarts
<1>3. CASE reg' = AtStage(reg, a, "createFailed") /\ UNCHANGED spent
  BY <1>2, <1>3
<1>4. CASE ~Registered(reg, a) /\ reg' = Start(w, a, id, parent) /\ Drawn(a, id)
  <2>1. Within(reg.of[a], "create", reg.seen, drawn[a], n)  BY <1>1, <1>2 DEF Kept
  <2>2. reg.seen \in 0 .. saved /\ reg.of[a].id \in Nat /\ parent \in Ids(n)
    BY <1>1, SomeRevision DEF RegType, LifeType, Ids
  <2>3. id <= n + reg.seen - 1 /\ reg.seen \in Nat /\ id \in Nat /\ id # 0
    BY <1>1, <2>1, <2>2 DEF Within, Replacing
  <2>4. id \in Ids(n)
    BY <1>1, <2>2, <2>3, SomeRevision DEF Ids, Revisions
  <2>5. created \in [Agents -> Nat] /\ created \in [Agents -> Lifetimes] /\ created[a] = id
        /\ \A b \in Agents \ {a} : created[b] = drawn[b]
    BY <1>1, <2>3, <2>4 DEF ListedInv, OthersInv, SpentType
  <2>6. Kept(w, held, drawn, n, saved) /\ w.of = reg.of /\ w.seen = reg.seen
        /\ w.restarts[a].stage = "creating"
    <3>1. "creating" \in RestartStages /\ "creating" \notin Replacing
      BY DEF RestartStages, Replacing
    <3>2. n \in Nat /\ saved \in Nat /\ Kept(reg, held, drawn, n, saved)  BY <1>1
    <3> HIDE DEF n, drawn, id, parent, created
    <3> QED BY <3>1, <3>2, RestartStage
  <2>7. spent' = [spent EXCEPT !.created = created]
    <3> DEFINE next == IF id > drawn[a] THEN id ELSE drawn[a]
    <3>1. spent \in [of : Settings, created : [Agents -> Lifetimes], lost : Nat, faults : Nat]
      BY DEF ListedInv, OthersInv, SpentType
    <3>2. spent' = [spent EXCEPT !.created = [drawn EXCEPT ![a] = next]]
      BY <1>4, <3>1 DEF Drawn
    <3>3. next = id  BY <1>1, <2>3
    <3> HIDE DEF next
    <3> QED BY <3>1, <3>2, <3>3 DEF created
  <2> HIDE DEF w, created
  <2>8. Within(w.of[a], w.restarts[a].stage, w.seen, id, n)
    <3>1. reg.of[a].opening.revision = 0  BY <1>4, <2>1 DEF Within, Registered
    <3>2. reg.of[a].id <= id  BY <1>1, <2>1, <2>2 DEF Within
    <3> QED BY <2>3, <2>6, <3>1, <3>2 DEF Within, Replacing
  <2>9. Kept(w, held, created, n, saved)  BY <2>5, <2>6, <2>8 DEF Kept
  <2> HIDE DEF id, n, drawn, parent
  <2>10. /\ ~Registered(reg, a) /\ reg' = Start(w, a, id, parent)
         /\ spent' = [spent EXCEPT !.created = created]
         /\ id \in Ids(n) /\ id \in Nat /\ id # 0 /\ parent \in Ids(n)
         /\ created \in [Agents -> Nat] /\ created \in [Agents -> Lifetimes] /\ created[a] = id
         /\ \A b \in Agents \ {a} : created[b] = drawn[b]
         /\ Kept(w, held, created, n, saved) /\ w.of = reg.of
    BY <1>4, <2>2, <2>3, <2>4, <2>5, <2>6, <2>7, <2>9
  <2> QED BY <1>2, <2>10 DEF w, created, id, n, drawn, parent
<1> QED BY <1>2, <1>3, <1>4

\* So the next lifetime is listed like any other.
LEMMA RestartCreateStep ==
  ASSUME ListedInv, NEW a \in Agents, RestartCreate(a)
  PROVE  ListedInv'
<1> DEFINE n == Creations id == spent.created[a] + 1 parent == reg.of[a].parent
           created == [spent.created EXCEPT ![a] = id] w == AtStage(reg, a, "creating")
<1>1. /\ reg.restarts[a].stage = "create" /\ UNCHANGED <<Outside, asked>>
      /\ \/ reg' = AtStage(reg, a, "createFailed") /\ UNCHANGED spent
         \/ /\ ~Registered(reg, a) /\ reg' = Start(w, a, id, parent)
            /\ spent' = [spent EXCEPT !.created = created]
            /\ id \in Ids(n) /\ id \in Nat /\ id # 0 /\ parent \in Ids(n)
            /\ created \in [Agents -> Nat] /\ created \in [Agents -> Lifetimes] /\ created[a] = id
            /\ Kept(w, held, created, n, saved) /\ w.of = reg.of
  BY RestartCreateRuns
<1>2. CASE reg' = AtStage(reg, a, "createFailed") /\ UNCHANGED spent
  <2>1. "createFailed" \in RestartStages /\ reg.restarts[a].stage \in Replacing
    BY <1>1 DEF RestartStages, Replacing
  <2> QED BY <1>1, <1>2, <2>1, StageStep
<1>3. CASE /\ ~Registered(reg, a) /\ reg' = Start(w, a, id, parent)
           /\ spent' = [spent EXCEPT !.created = created]
           /\ id \in Ids(n) /\ id \in Nat /\ id # 0 /\ parent \in Ids(n)
           /\ created \in [Agents -> Nat] /\ created \in [Agents -> Lifetimes] /\ created[a] = id
           /\ Kept(w, held, created, n, saved) /\ w.of = reg.of
  <2>1. n \in Nat /\ saved \in Nat  BY ListedFacts
  <2>2. ~Registered(w, a) /\ id <= created[a]  BY <1>3 DEF Registered
  <2> HIDE DEF n, id, parent, created, w
  <2>3. Kept(reg', held, created, n, saved)
    BY <1>3, <2>1, <2>2, StartKeeps
  <2>4. /\ spent' \in [of : Settings, created : [Agents -> Lifetimes], lost : Nat, faults : Nat]
        /\ spent'.of = spent.of /\ spent'.lost = spent.lost /\ spent'.faults = spent.faults
        /\ spent'.created = created
    BY <1>3 DEF ListedInv, OthersInv, SpentType
  <2>5. Lifetimes' = Lifetimes  BY <2>4 DEF Lifetimes
  <2>6. OthersInv'
    BY <1>1, <2>4, <2>5 DEF ListedInv, OthersInv, SpentType, Outside
  <2>7. Kept(reg, held, spent.created, spent.of.creations, saved)'
    BY <1>1, <2>3, <2>4 DEF Creations, Outside, n
  <2> QED BY <2>6, <2>7 DEF ListedInv
<1> QED BY <1>1, <1>2, <1>3

\* The replacement ends, and what changed meanwhile begins another.
LEMMA RestartCreatedStep ==
  ASSUME ListedInv, NEW a \in Agents, RestartCreated(a)
  PROVE  ListedInv'
<1> DEFINE n == Creations drawn == spent.created
           rs == [reg.restarts EXCEPT ![a] = NoRestart]
           done == [reg EXCEPT !.restarts = rs]
           who == Waiting(reg, "restart", a)
<1>1. /\ n \in Nat /\ saved \in Nat /\ drawn \in [Agents -> Nat]
      /\ Kept(reg, held, drawn, n, saved) /\ reg \in RegType(Ids(n), saved)
  BY ListedFacts
<1>2. /\ UNCHANGED <<Outside, spent, asked>>
      /\ \/ reg' = FailRestart(reg, a)
         \/ reg' = RestartChanged(Answer(done, who, "ready"))
  BY Zenon DEF RestartCreated
<1>3. CASE reg' = FailRestart(reg, a)  BY <1>2, <1>3, FailedStep
<1>4. CASE reg' = RestartChanged(Answer(done, who, "ready"))
  <2>1. 0 \in Ids(n)  BY <1>1, ZeroIsId
  <2>2. rs \in [Agents -> RestartType(Ids(n))]
    BY <1>1, <2>1 DEF RegType, RestartType, NoRestart, RestartStages
  <2>3. \A b \in Agents : rs[b].stage \in {reg.restarts[b].stage} \cup (RestartStages \ Replacing)
    BY <1>1 DEF RegType, NoRestart, RestartStages, Replacing
  <2> HIDE DEF rs
  <2>4. /\ done \in RegType(Ids(n), saved) /\ done.of = reg.of /\ done.seen = reg.seen
        /\ done.restarts = rs
    BY <1>1, <2>2 DEF RegType
  <2> HIDE DEF done, who, n, drawn
  <2>5. Kept(done, held, drawn, n, saved)  BY <1>1, <2>3, <2>4, KeptWithLives
  <2>6. "ready" \in Replies  BY DEF Replies
  <2>7. Kept(Answer(done, who, "ready"), held, drawn, n, saved)  BY <1>1, <2>5, <2>6, AnswerKeeps
  <2>8. Kept(reg', held, drawn, n, saved)  BY <1>1, <1>4, <2>7, RestartChangedKeeps
  <2> QED BY <1>2, <2>8, RegistryStep DEF n, drawn
<1> QED BY <1>2, <1>3, <1>4

-----------------------------------------------------------------------------
(* The theorems.                                                           *)

\* The directory starts empty, and so do its owners.
LEMMA ListedInit == Init => ListedInv
<1> SUFFICES ASSUME Init PROVE ListedInv
  OBVIOUS
<1> DEFINE n == Creations drawn == spent.created
<1>1. /\ saved = 1 /\ notices = <<>> /\ held = {} /\ asked = {}
      /\ loops = [a \in Agents |-> [instance |-> 1, creation |-> 0]]
      /\ spent \in [of : Settings, created : {[a \in Agents |-> 0]}, lost : {0}, faults : {0}]
  BY DEF Init
<1>2. /\ spent.of \in Settings /\ drawn = [a \in Agents |-> 0] /\ spent.lost = 0 /\ spent.faults = 0
      /\ spent = [of |-> spent.of, created |-> drawn, lost |-> 0, faults |-> 0]
  BY <1>1
<1>3. n \in Nat /\ spent.of.lost \in Nat /\ spent.of.faults \in Nat
  BY <1>2, RegistryAssumption DEF Creations
<1>4. 0 \in Ids(n) /\ Lifetimes = Ids(n)  BY <1>3, ZeroIsId DEF Lifetimes, Ids, Creations
<1>5. OthersInv
  <2>1. spent \in SpentType  BY <1>2, <1>4 DEF SpentType
  <2>2. saved \in Revisions  BY <1>1, SomeRevision DEF Revisions
  <2>3. notices \in Seq(1 .. saved)  BY <1>1
  <2>4. loops \in [Agents -> [instance : Nat, creation : Lifetimes]]  BY <1>1, <1>4
  <2> QED BY <1>1, <1>2, <1>3, <2>1, <2>2, <2>3, <2>4 DEF OthersInv
<1> DEFINE e == NewLife(NoAgent, "absent", 0, 0)
<1>6. /\ e \in LifeType(Ids(n), saved)
      /\ e.life = "absent" /\ e.id = 0 /\ e.ready = {} /\ e.owned = {}
      /\ e.opening = NoOpening /\ e.closing = NoClosing
  <2>1. NoOpening \in OpeningType(saved)
    BY <1>1, ComponentsNamed DEF OpeningType, NoOpening, Answers, Waits, SessionOf
  <2>2. NoClosing \in ClosingType
    BY ResourceKinds DEF ClosingType, NoClosing, CloseStages, Duties, Claimed
  <2> QED BY <1>4, <2>1, <2>2 DEF NewLife, LifeType, Lives
<1>7. reg = [stopped |-> FALSE, seen |-> 0, observing |-> FALSE,
             of |-> [a \in Agents |-> e], restarts |-> [a \in Agents |-> NoRestart],
             selfCloses |-> {}, calls |-> [c \in Callers |-> NoAsk]]
  BY DEF Init, NewLife
<1> HIDE DEF e
<1>8. reg \in RegType(Ids(n), saved)
  <2>1. NoRestart \in RestartType(Ids(n))  BY <1>4 DEF RestartType, NoRestart, RestartStages
  <2>2. NoAsk \in CallType(Ids(n))  BY <1>4 DEF CallType, NoAsk, Requested, Replies
  <2>3. 0 \in 0 .. saved  BY <1>1
  <2> QED BY <1>6, <1>7, <2>1, <2>2, <2>3 DEF RegType
<1>9. Sound(e)  BY <1>6 DEF Sound, NoOpening, NoClosing
<1>10. \A a \in Agents : Holding(e, held, a)  BY <1>1, <1>6 DEF Holding, NoOpening, NoClosing
<1>11. \A a \in Agents : Within(e, "none", 0, drawn[a], n)
  BY <1>2, <1>3, <1>6 DEF Within, NoOpening, Replacing
<1>12. Kept(reg, held, drawn, n, saved)
  <2>1. \A a \in Agents : reg.of[a] = e /\ reg.restarts[a].stage = "none"  BY <1>7 DEF NoRestart
  <2>2. reg.seen = 0  BY <1>7
  <2> HIDE DEF n, drawn
  <2> QED BY <1>8, <1>9, <1>10, <1>11, <2>1, <2>2 DEF Kept
<1> QED BY <1>5, <1>12 DEF ListedInv, Creations

\* Every step keeps what is held and what is listed in agreement.
LEMMA ListedNext == ListedInv /\ [Next]_vars => ListedInv'
<1> SUFFICES ASSUME ListedInv, [Next]_vars PROVE ListedInv'
  OBVIOUS
<1>1. CASE UNCHANGED vars
  <2>1. UNCHANGED <<Outside, spent, asked>> /\ reg' = reg  BY <1>1 DEF vars, Outside
  <2>2. Kept(reg', held, spent.created, Creations, saved)  BY <2>1, ListedFacts
  <2> QED BY <2>1, <2>2, RegistryStep
<1>2. CASE Requests
  <2>1. PICK ask \in spent.of.asks : LET c == ask[1] a == ask[2] IN
          \/ \E id \in Identities(a) :
               \/ Create(c, a, id)
               \/ \E parent \in 1 .. spent.of.creations : CreateChild(c, a, id, parent)
          \/ \E wait \in BOOLEAN : Find(c, a, wait)
          \/ \E id \in 1 .. spent.created[a] : Close(c, a, id)
    BY <1>2 DEF Requests
  <2> DEFINE c == ask[1] a == ask[2]
  <2>2. c \in Callers /\ a \in Agents  BY ListedFacts
  <2>3. CASE \E id \in Identities(a) : Create(c, a, id)
    BY <2>2, <2>3, CreateStep
  <2>4. CASE \E id \in Identities(a), parent \in 1 .. spent.of.creations : CreateChild(c, a, id, parent)
    BY <2>2, <2>4, CreateChildStep
  <2>5. CASE \E wait \in BOOLEAN : Find(c, a, wait)
    BY <2>2, <2>5, FindStep
  <2>6. CASE \E id \in 1 .. spent.created[a] : Close(c, a, id)
    BY <2>2, <2>6, CloseStep
  <2> QED BY <2>1, <2>3, <2>4, <2>5, <2>6
<1>3. CASE StopAdmission  BY <1>3, StopAdmissionStep
<1>4. CASE Save  BY <1>4, SaveStep
<1>5. CASE ChangeNotice  BY <1>5, ChangeNoticeStep
<1>6. CASE Verifications  BY <1>6, VerifyAnswersStep, VerifiedStep DEF Verifications
<1>7. ASSUME NEW a \in Agents, Starts(a) PROVE ListedInv'
  BY <1>7, ReadSettingsStep, ConfigurationPreparedStep, ClaimStep, ComponentAnswersStep,
     StartupResultStep DEF Starts
<1>8. ASSUME NEW a \in Agents, Closes(a) PROVE ListedInv'
  BY <1>8, ReleaseExecutionStep, ReleaseLoopStep, ReleaseComponentStep, ReleaseChildStep,
     ShutdownResultStep DEF Closes
<1>9. ASSUME NEW a \in Agents, Replaces(a) PROVE ListedInv'
  BY <1>9, RestartCloseStep, RestartMovesStep, RestartCreateStep, RestartCreatedStep DEF Replaces
<1>10. ASSUME NEW a \in Agents, LoopLost(a) PROVE ListedInv'
  BY <1>10, LoopLostStep
<1> QED BY <1>1, <1>2, <1>3, <1>4, <1>5, <1>6, <1>7, <1>8, <1>9, <1>10 DEF Next

\* What the invariant says to a reader.
LEMMA ListedImplies == ListedInv => ResourcesAreListed
<1> SUFFICES ASSUME ListedInv PROVE ResourcesAreListed
  OBVIOUS
<1> DEFINE n == Creations
<1>1. /\ n \in Nat /\ saved \in Nat /\ saved \in Revisions /\ Lifetimes = Ids(n)
      /\ Kept(reg, held, spent.created, n, saved)
      /\ spent.of.faults \in Nat /\ spent.of.lost \in Nat
      /\ reg \in RegType(Ids(n), saved) /\ reg.of \in [Agents -> LifeType(Ids(n), saved)]
  BY ListedFacts
<1> HIDE DEF n
<1>2. OthersInv  BY DEF ListedInv
<1>3. TypeOK
  <2>1. reg.stopped \in BOOLEAN /\ reg.observing \in BOOLEAN /\ reg.seen \in 0 .. saved
        /\ reg.selfCloses \subseteq Agents \X Lifetimes
    BY <1>1 DEF RegType
  <2>2. \A a \in Agents : LET e == reg.of[a] IN
          /\ e.life \in {"absent", "initializing", "available", "closing", "closed"}
          /\ e.failed \in BOOLEAN /\ e.ready \subseteq Components /\ e.owned \subseteq Resources
          /\ {e.id, e.parent} \subseteq Lifetimes /\ e.instance \in Nat
    BY <1>1 DEF LifeType, Lives
  <2>3. \A a \in Agents : LET e == reg.of[a] IN
          /\ e.opening.on \in BOOLEAN /\ e.opening.wait \in {"none", "settings", "component"}
          /\ e.opening.answer \in Answers /\ e.opening.component \in Components
          /\ {e.opening.read, e.opening.revision} \subseteq 0 .. saved
    BY <1>1 DEF LifeType, OpeningType, Waits
  <2>4. \A a \in Agents : LET e == reg.of[a] IN
          /\ e.closing.on \in BOOLEAN /\ e.closing.resource \in Duties
          /\ e.closing.stage \in {"none", "asked", "joined", "ok", "failed"}
    BY <1>1 DEF LifeType, ClosingType, CloseStages
  <2>5. \A a \in Agents : reg.restarts[a].stage \in RestartStages /\ reg.restarts[a].of \in Lifetimes
    BY <1>1 DEF RegType, RestartType
  <2>6. \A c \in Callers :
          /\ reg.calls[c].on \in {"none", "start", "close", "restart", "verify", "verified",
                                  "stale", "undelivered"}
          /\ reg.calls[c].agent \in Agents \cup {NoAgent} /\ reg.calls[c].id \in Lifetimes
          /\ reg.calls[c].got \in {"none", "ready", "closed", "refused"}
    BY <1>1 DEF RegType, CallType, Requested, Replies
  <2>7. notices \in Seq(Revisions)
    <3>1. 1 .. saved \subseteq Revisions  BY <1>1, SomeRevision DEF Revisions
    <3> QED BY <1>2, <3>1, SeqMonotonic DEF OthersInv
  <2>8. /\ held \subseteq Agents \X Lifetimes \X Resources
        /\ \A a \in Agents : loops[a].instance \in Nat /\ loops[a].creation \in Lifetimes
        /\ spent.created \in [Agents -> Lifetimes]
        /\ spent.lost \in 0 .. spent.of.lost /\ spent.faults \in 0 .. spent.of.faults
        /\ asked \subseteq Agents \X Lifetimes \X {"close", "lost"}
    BY <1>1, <1>2 DEF OthersInv, SpentType
  <2> QED BY <1>1, <2>1, <2>2, <2>3, <2>4, <2>5, <2>6, <2>7, <2>8 DEF TypeOK
<1>4. NothingLeaks
  <2> SUFFICES ASSUME NEW h \in held
               PROVE  Current(reg, h[1], h[2]) /\ h[3] \in reg.of[h[1]].owned
    BY DEF NothingLeaks
  <2>1. h[1] \in Agents  BY <1>2 DEF OthersInv
  <2>2. Holding(reg.of[h[1]], held, h[1])  BY <1>1, <2>1 DEF Kept
  <2> QED BY <2>2 DEF Holding, Current
<1>5. AvailableIsComplete
  <2> SUFFICES ASSUME NEW a \in Agents, reg.of[a].life = "available"
               PROVE  (Resources \ Claimed) \subseteq HeldBy(a) /\ reg.of[a].ready = Components
    BY DEF AvailableIsComplete
  <2>1. Sound(reg.of[a]) /\ Holding(reg.of[a], held, a)  BY <1>1 DEF Kept
  <2>2. reg.of[a].ready = Components  BY <2>1 DEF Sound
  <2>3. \A c \in Components : \A r \in Owns(c) \ Claimed : <<a, reg.of[a].id, r>> \in held
    BY <2>1, <2>2 DEF Holding
  <2>4. \A r \in Resources \ Claimed : <<a, reg.of[a].id, r>> \in held  BY <2>3 DEF Resources
  <2>5. \A r \in Resources \ Claimed : r \in HeldBy(a)
    <3> SUFFICES ASSUME NEW r \in Resources \ Claimed PROVE r \in HeldBy(a)
      OBVIOUS
    <3> DEFINE h == <<a, reg.of[a].id, r>>
    <3>1. h \in held /\ h[1] = a /\ h[3] = r  BY <2>4
    <3> HIDE DEF h
    <3> QED BY <3>1 DEF HeldBy
  <2> QED BY <2>2, <2>5
<1> QED BY <1>3, <1>4, <1>5 DEF ResourcesAreListed

\* In every behaviour of the Registry the directory, its replacements and what
\* the component owners hold agree.
THEOREM ListedInvariance == Spec => []ListedInv
<1> QED BY ListedInit, ListedNext, PTL DEF Spec

\* Whichever owner fails or refuses, and however starts, closes, replacements and
\* lost AgentLoops interleave, no resource is held that the listed lifetime does
\* not answer for (TrackResource, ConfirmRelease), and a published Agent holds
\* every component it was declared with (CompleteInitialization).
THEOREM ResourcesStayListed == Spec => []ResourcesAreListed
<1> QED BY ListedInvariance, ListedImplies, PTL
=============================================================================
