------------------------- MODULE AgentRegistryNesting -------------------------
(***************************************************************************)
(* Theorems about AgentRegistry: the lifetimes of Agents nest, and nothing *)
(* closes without a reason.                                                *)
(*                                                                         *)
(* A lifetime asks for the components that use the Session, the tools and  *)
(* the prompt once it holds those, and releases them after their users; a  *)
(* child is admitted by a published parent, and stands in the way of what  *)
(* that parent shares with it.  A lifetime that closes keeps its reason    *)
(* until it is closed, and a replacement that goes on was never called     *)
(* off.  The lemmas follow the operators of which a handler is composed,   *)
(* as those of AgentRegistryProofs do.                                     *)
(***************************************************************************)
EXTENDS AgentRegistryProofs

\* What a lifetime shares with its children and its users, who starts after whom,
\* and the lives in which a lifetime holds nothing.
Shared == {<<"tools", 0>>, <<"prompt", 0>>, <<"conversation", 0>>}
SharedKinds == {"tools", "prompt", "conversation"}
Users == {"work", "capability", "commands", "execution"}
Early == {<<"session", 0>>, <<"tools", 0>>, <<"prompt", 0>>}
Late == {"agent", "commands", "capability"}
Gone == {"absent", "closed"}

\* What a lifetime e of a holds in h: users beside what they use.
Beside(e, h, a) ==
  /\ \A r \in Resources :
       r[1] \in Users /\ <<a, e.id, r>> \in h => \A u \in Shared : <<a, e.id, u>> \in h
  /\ \A r \in Resources :
       r[1] # "loop" /\ <<a, e.id, r>> \in h => <<a, e.id, <<"conversation", 0>>>> \in h

\* What it has made ready while it waits for a component; x is the AgentLoop at
\* its address.  Only roots have Settings.
Starting(e, h, x, a) ==
  /\ e.opening.wait = "component" =>
       /\ \A c \in e.ready : \A r \in Owns(c) \ Claimed : <<a, e.id, r>> \in h
       /\ e.opening.component[1] \in Late => Early \subseteq e.ready
       /\ e.opening.component[1] = "agent" /\ e.opening.answer = "claimed" =>
            e.instance = x.instance
  /\ a \notin Roots => e.opening.wait # "settings" /\ e.opening.revision = 0

\* What it releases: nothing it owns has to go first, and its own children.
Releasing(e, a) ==
  /\ e.closing.stage = "asked" => \A r \in e.owned : ~Before(r, e.closing.resource)
  /\ e.closing.stage = "joined" => e.closing.resource[1] = "child"
  /\ e.closing.stage # "none" /\ e.closing.resource[1] = "child" =>
       Parent[e.closing.resource[2]] = a

\* The AgentLoop executes for it until the loop is released.
Executing(e, x) ==
  x.creation # 0 =>
    /\ x.creation = e.id /\ e.life # "closed" /\ e.instance = x.instance
    /\ <<"loop", 0>> \in e.owned
    /\ e.closing.stage = "ok" => e.closing.resource[1] # "loop"

\* What a lifetime holds, starts, releases and executes is in order.
Ordered(e, h, x, a) ==
  Beside(e, h, a) /\ Starting(e, h, x, a) /\ Releasing(e, a) /\ Executing(e, x)

\* A registered child is inside the lifetime f of its parent p.
Inside(e, f, p, h) ==
  e.life \notin Gone =>
    /\ f.life \notin Gone /\ e.parent = f.id
    /\ \A u \in Shared : <<p, f.id, u>> \in h
    /\ f.closing.stage = "asked" => f.closing.resource[1] \notin SharedKinds

\* The replacement r of a lifetime was not called off; sent: the closes that
\* replacements sent; k: what somebody asked to close; d: the lifetimes drawn.
Meant(e, r, stopped, sent, k, d, a) ==
  /\ r.stage # "none" => a \in Roots
  /\ r.of \in 0 .. d
  /\ r.stage \in {"creating", "created"} /\ e.life \notin Gone => r.of # e.id
  /\ r.stage \notin {"none", "failed"} => <<a, r.of, "close">> \notin k /\ ~stopped
  /\ \A y \in k : y[1] = a => y[2] \in 0 .. d
  /\ \A y \in sent : y[1] = a =>
       /\ y[2] \in 0 .. d
       /\ \/ r.stage = "close" /\ r.of = y[2]
          \/ <<a, y[2], "close">> \in k \/ stopped
          \/ e.id # y[2] \/ e.life = "closed"

\* Why the lifetime is to close, over: the life of its parent.
Due(e, over, r, stopped, k, a) ==
  \/ e.failed \/ stopped \/ <<a, e.id, "close">> \in k \/ <<a, e.id, "lost">> \in k
  \/ r.stage # "none" /\ r.of = e.id
  \/ over = "closing"

Reason(e, over, r, stopped, k, a) == e.life = "closing" => Due(e, over, r, stopped, k, a)

\* The life of the parent.
Over(w, a) == IF a \in Roots THEN "none" ELSE w.of[Parent[a]].life

\* What the invariant says of one Agent in the directory w, beside what is held, h,
\* the AgentLoops, l, what was asked for, k, and the lifetimes drawn, d.
Fits(w, h, l, k, d, a) ==
  /\ Ordered(w.of[a], h, l[a], a)
  /\ a \notin Roots => Inside(w.of[a], w.of[Parent[a]], Parent[a], h)
  /\ Meant(w.of[a], w.restarts[a], w.stopped, w.selfCloses, k, d[a], a)
  /\ Reason(w.of[a], Over(w, a), w.restarts[a], w.stopped, k, a)

\* Between two handlers no start waits for nothing, and what was asked to close
\* closes; x is the Agent whose handler still runs.
Settles(e, k, a) ==
  /\ e.life = "initializing" => e.opening.wait # "none"
  /\ <<a, e.id, "close">> \in k => e.life \in {"closing", "closed"}

Tidy(w, x, h, l, k, d) ==
  \A a \in Agents : Fits(w, h, l, k, d, a) /\ (a # x => Settles(w.of[a], k, a))

\* The inductive invariant.
NestedInv == ListedInv /\ Tidy(reg, NoAgent, held, loops, asked, spent.created)
-----------------------------------------------------------------------------
(* The constants.                                                          *)

\* The release order, by kind: children before what they share, users before
\* what they use, and the loop last.
LEMMA PriorityIs ==
  /\ Priority("work") = 1 /\ Priority("capability") = 2 /\ Priority("child") = 3
  /\ Priority("commands") = 4 /\ Priority("execution") = 5 /\ Priority("tools") = 6
  /\ Priority("prompt") = 7 /\ Priority("conversation") = 8 /\ Priority("loop") = 9
<1>1. DOMAIN ReleaseOrder = 1 .. 9  BY DEF ReleaseOrder
<1>2. /\ ReleaseOrder[1] = "work" /\ ReleaseOrder[2] = "capability" /\ ReleaseOrder[3] = "child"
      /\ ReleaseOrder[4] = "commands" /\ ReleaseOrder[5] = "execution"
      /\ ReleaseOrder[6] = "tools" /\ ReleaseOrder[7] = "prompt"
      /\ ReleaseOrder[8] = "conversation" /\ ReleaseOrder[9] = "loop"
  BY DEF ReleaseOrder
<1>3. \A i, j \in 1 .. 9 : ReleaseOrder[i] = ReleaseOrder[j] => i = j  BY <1>2
<1>4. \A i \in 1 .. 9 : Priority(ReleaseOrder[i]) = i  BY <1>1, <1>3 DEF Priority
<1> QED BY <1>2, <1>4

\* Nothing that uses the resource r of a lifetime is left when r goes first.
LEMMA UsersGoFirst ==
  ASSUME NEW r \in Duties, NEW u \in Duties, ~Before(u, r)
  PROVE  /\ r[1] \in SharedKinds => u[1] \notin Users /\ u[1] # "child"
         /\ r[1] = "conversation" => u[1] \in {"conversation", "loop"}
<1>1. r[1] \in Kinds \cup {"child"} /\ u[1] \in Kinds \cup {"child"}
  BY ResourceKinds DEF Duties
<1>2. ~(Priority(u[1]) < Priority(r[1]))  BY DEF Before
<1> QED BY <1>1, <1>2, PriorityIs DEF SharedKinds, Users, Kinds

\* The Session, the tools and the prompt are required first, in this order.
LEMMA RequiredStarts ==
  /\ Required[1] = <<"session", 0>> /\ Required[2] = <<"tools", 0>>
  /\ Required[3] = <<"prompt", 0>>
<1> DEFINE first == <<<<"session", 0>>, <<"tools", 0>>, <<"prompt", 0>>, <<"model", 0>>, <<"agent", 0>>>>
           second == IF Commands THEN <<<<"commands", 0>>>> ELSE <<>>
           third == [i \in 1 .. Capabilities |-> <<"capability", i>>]
           S == Names \X (0 .. Capabilities)
<1>1. first \in Seq(S) /\ Len(first) = 5  BY RegistryAssumption DEF Names
<1>2. first[1] = <<"session", 0>> /\ first[2] = <<"tools", 0>> /\ first[3] = <<"prompt", 0>>
  OBVIOUS
<1>3. second \in Seq(S)
  <2>1. <<"commands", 0>> \in S  BY RegistryAssumption DEF Names
  <2>2. <<<<"commands", 0>>>> \in Seq(S) /\ <<>> \in Seq(S)  BY <2>1
  <2> QED BY <2>2
<1>4. third \in Seq(S)
  <2>1. third \in [1 .. Capabilities -> S]  BY RegistryAssumption DEF Names
  <2> QED BY <2>1, RegistryAssumption
<1>5. Required = (first \o second) \o third  BY DEF Required
<1> HIDE DEF first, second, third, S
<1>6. Len(second) \in Nat /\ Len(third) \in Nat  BY <1>3, <1>4, LenProperties
<1>7. first \o second \in Seq(S) /\ Len(first \o second) = 5 + Len(second)
  <2>1. first \o second \in Seq(S) /\ Len(first \o second) = Len(first) + Len(second)
    BY <1>1, <1>3, ConcatProperties
  <2> QED BY <2>1, <1>1
<1>8. \A i \in 1 .. 5 : (first \o second)[i] = first[i]
  <2>1. \A i \in 1 .. 5 : i \in 1 .. Len(first) + Len(second) /\ i <= Len(first)
    BY <1>1, <1>6
  <2> QED BY <2>1, <1>1, <1>3, ConcatProperties
<1>9. \A i \in 1 .. 5 : Required[i] = (first \o second)[i]
  <2>1. \A i \in 1 .. 5 : i \in 1 .. Len(first \o second) + Len(third) /\ i <= Len(first \o second)
    BY <1>6, <1>7
  <2> QED BY <2>1, <1>4, <1>5, <1>7, ConcatProperties
<1>10. \A i \in 1 .. 5 : Required[i] = first[i]  BY <1>8, <1>9
<1>11. Required[1] = first[1] /\ Required[2] = first[2] /\ Required[3] = first[3]
  <2>1. 1 \in 1 .. 5 /\ 2 \in 1 .. 5 /\ 3 \in 1 .. 5  OBVIOUS
  <2> HIDE DEF first
  <2> QED BY <1>10, <2>1
<1> QED BY <1>2, <1>11

\* Components that use the Session, the tools and the prompt come after them.
LEMMA EarlyFirst ==
  ASSUME NEW w, NEW a, Unready(w, a) # {}, NextComponent(w, a)[1] \in Late
  PROVE  Early \subseteq w.of[a].ready
<1> DEFINE T == Unready(w, a)
<1>1. DOMAIN Required = 1 .. Len(Required) /\ Len(Required) \in Nat /\ Len(Required) >= 5
  BY RequiredFacts, LenProperties
<1>2. T \in SUBSET Nat /\ 0 \notin T  BY <1>1 DEF Unready
<1>3. \E x \in T : \A y \in T : x <= y
  <2> HIDE DEF T
  <2> QED BY <1>2, SmallestExists DEF T
<1>4. Min(T) \in T /\ \A y \in T : Min(T) <= y
  <2> HIDE DEF T
  <2> QED BY <1>3 DEF Min
<1>5. /\ Required[1] = <<"session", 0>> /\ Required[2] = <<"tools", 0>>
      /\ Required[3] = <<"prompt", 0>>
  BY RequiredStarts
<1>6. NextComponent(w, a) = Required[Min(T)]  BY DEF NextComponent
<1>7. ~(Min(T) \in {1, 2, 3})
  <2> HIDE DEF T
  <2> QED BY <1>5, <1>6 DEF Late
<1>8. 1 \notin T /\ 2 \notin T /\ 3 \notin T
  <2>1. Min(T) \in Nat /\ Min(T) # 0  BY <1>2, <1>4
  <2> HIDE DEF T
  <2> QED BY <2>1, <1>4, <1>7
<1>9. \A i \in {1, 2, 3} : Required[i] \in w.of[a].ready
  <2>1. 1 \in DOMAIN Required /\ 2 \in DOMAIN Required /\ 3 \in DOMAIN Required  BY <1>1
  <2> QED BY <1>8, <2>1 DEF Unready
<1> QED BY <1>5, <1>9 DEF Early

\* A child has a parent, another Agent; the descendants of an Agent are children.
LEMMA ParentFacts ==
  /\ \A a \in Agents \ Roots : Parent[a] \in Agents /\ Parent[a] # a
  /\ \A a \in Agents : \A b \in Agents : Parent[b] = a => b \notin Roots
  /\ \A a, b \in Agents : a \in Ancestors[b] => b \notin Roots
<1>1. \A a \in Agents : Parent[a] = NoAgent => Ancestors[a] = {}  BY ForestAssumption
<1>2. \A a \in Agents : Parent[a] # NoAgent => Parent[a] \in Ancestors[a]
  BY ForestAssumption
<1>3. \A a \in Agents : Parent[a] \in Agents \cup {NoAgent}  BY RegistryAssumption
<1> QED BY <1>1, <1>2, <1>3, RegistryAssumption, ForestAssumption DEF Roots

-----------------------------------------------------------------------------
(* What changes when one lifetime, or only its replacement, goes on.       *)

\* A replacement stays, learns how its close or its start ended, or was none.
Onward(r, q) ==
  \/ q = r
  \/ q.of = r.of /\ r.stage = "joined" /\ q.stage \in {"closed", "closeFailed"}
  \/ q.of = r.of /\ r.stage = "creating" /\ q.stage \in {"created", "createFailed"}
  \/ r.stage = "none" /\ q = NoRestart

\* The reason to close a lifetime does not depend on how its replacement goes on.
LEMMA OnwardFacts ==
  ASSUME NEW e, NEW over, NEW r, NEW q, NEW stopped, NEW sent, NEW k, NEW d \in Nat, NEW a,
         Onward(r, q)
  PROVE  /\ Meant(e, r, stopped, sent, k, d, a) => Meant(e, q, stopped, sent, k, d, a)
         /\ Reason(e, over, r, stopped, k, a) => Reason(e, over, q, stopped, k, a)
<1>1. CASE q = r  BY <1>1
<1>2. CASE r.stage = "none" /\ q = NoRestart
  <2>1. q.stage = "none" /\ q.of = 0 /\ 0 \in 0 .. d  BY <1>2 DEF NoRestart
  <2> QED BY <1>2, <2>1 DEF Meant, Reason, Due
<1>3. CASE q.of = r.of /\ r.stage = "joined" /\ q.stage \in {"closed", "closeFailed"}
  BY <1>3 DEF Meant, Reason, Due
<1>4. CASE q.of = r.of /\ r.stage = "creating" /\ q.stage \in {"created", "createFailed"}
  BY <1>4 DEF Meant, Reason, Due
<1> QED BY <1>1, <1>2, <1>3, <1>4 DEF Onward

\* As long as the lifetimes stay, so does their order.
LEMMA Proceeds ==
  ASSUME NEW w, NEW v, NEW x, NEW h, NEW l, NEW k, NEW d \in [Agents -> Nat],
         Tidy(w, x, h, l, k, d), v.of = w.of, v.stopped = w.stopped,
         v.selfCloses = w.selfCloses, \A b \in Agents : Onward(w.restarts[b], v.restarts[b])
  PROVE  Tidy(v, x, h, l, k, d)
<1> SUFFICES ASSUME NEW b \in Agents PROVE Fits(v, h, l, k, d, b)
  BY DEF Tidy
<1>1. Fits(w, h, l, k, d, b)  BY DEF Tidy
<1>2. d[b] \in Nat /\ Onward(w.restarts[b], v.restarts[b])  OBVIOUS
<1>3. Meant(v.of[b], v.restarts[b], v.stopped, v.selfCloses, k, d[b], b)
  BY <1>1, <1>2, OnwardFacts DEF Fits
<1>4. Over(v, b) = Over(w, b)  BY DEF Over
<1>5. Reason(v.of[b], Over(v, b), v.restarts[b], v.stopped, k, b)
  BY <1>1, <1>2, <1>4, OnwardFacts DEF Fits
<1> QED BY <1>1, <1>3, <1>5 DEF Fits

\* What is held for other Agents, and their AgentLoops, stay.
Others(a, h, h2, l, l2) ==
  /\ \A z : z[1] # a => (z \in h2 <=> z \in h)
  /\ \A b \in Agents : b # a => l2[b] = l[b]

\* The lifetime of a, or its replacement, is all that differs in v.
Alone(w, v, a) ==
  /\ \A b \in Agents : b # a => v.of[b] = w.of[b] /\ v.restarts[b] = w.restarts[b]
  /\ v.stopped = w.stopped /\ v.selfCloses = w.selfCloses

\* The children of a fit into the lifetime it has in v.
Covers(v, a, h, k) ==
  \A b \in Agents : Parent[b] = a =>
    /\ Inside(v.of[b], v.of[a], a, h)
    /\ Reason(v.of[b], v.of[a].life, v.restarts[b], v.stopped, k, b)

\* All lifetimes fit if the one that changed does, and covers its children.
LEMMA OneFits ==
  ASSUME NEW w, NEW v, NEW a \in Agents, NEW x \in {a, NoAgent}, NEW y \in {a, NoAgent},
         NEW h, NEW h2, NEW l, NEW l2, NEW k, NEW d, NEW d2,
         Tidy(w, x, h, l, k, d), Alone(w, v, a), Others(a, h, h2, l, l2),
         \A b \in Agents : b # a => d2[b] = d[b],
         Fits(v, h2, l2, k, d2, a), y # a => Settles(v.of[a], k, a), Covers(v, a, h2, k)
  PROVE  Tidy(v, y, h2, l2, k, d2)
<1> SUFFICES ASSUME NEW b \in Agents, b # a
             PROVE  Fits(v, h2, l2, k, d2, b) /\ Settles(v.of[b], k, b)
  BY DEF Tidy
<1>1. Fits(w, h, l, k, d, b) /\ Settles(w.of[b], k, b)
  BY RegistryAssumption DEF Tidy
<1>2. /\ v.of[b] = w.of[b] /\ v.restarts[b] = w.restarts[b] /\ v.stopped = w.stopped
      /\ v.selfCloses = w.selfCloses /\ l2[b] = l[b] /\ d2[b] = d[b]
  BY DEF Alone, Others
<1>3. \A z : z[1] # a => (z \in h2 <=> z \in h)  BY DEF Others
<1>4. Ordered(v.of[b], h2, l2[b], b)
  <2> DEFINE e == v.of[b]
  <2>1. \A r : <<b, e.id, r>> \in h2 <=> <<b, e.id, r>> \in h  BY <1>3
  <2>2. Ordered(e, h, l2[b], b)  BY <1>1, <1>2 DEF Fits
  <2> HIDE DEF e
  <2>3. Beside(e, h2, b)  BY <2>1, <2>2 DEF Ordered, Beside
  <2>4. Starting(e, h2, l2[b], b)  BY <2>1, <2>2 DEF Ordered, Starting
  <2> QED BY <2>2, <2>3, <2>4 DEF Ordered, e
<1>5. Meant(v.of[b], v.restarts[b], v.stopped, v.selfCloses, k, d2[b], b)
  BY <1>1, <1>2 DEF Fits
<1>6. CASE b \in Roots
  <2>1. Reason(v.of[b], Over(v, b), v.restarts[b], v.stopped, k, b)
    BY <1>1, <1>2, <1>6 DEF Fits, Over
  <2> QED BY <1>1, <1>2, <1>4, <1>5, <1>6, <2>1 DEF Fits
<1>7. CASE b \notin Roots /\ Parent[b] = a
  <2>1. Inside(v.of[b], v.of[a], a, h2) /\ Reason(v.of[b], v.of[a].life, v.restarts[b], v.stopped, k, b)
    BY <1>7 DEF Covers
  <2>2. Over(v, b) = v.of[a].life  BY <1>7 DEF Over
  <2> QED BY <1>1, <1>2, <1>4, <1>5, <1>7, <2>1, <2>2 DEF Fits
<1>8. CASE b \notin Roots /\ Parent[b] # a
  <2> DEFINE p == Parent[b]
  <2>1. p \in Agents /\ v.of[p] = w.of[p]  BY <1>8, ParentFacts DEF Alone
  <2>2. Over(v, b) = Over(w, b)  BY <1>8, <2>1 DEF Over
  <2>3. Reason(v.of[b], Over(v, b), v.restarts[b], v.stopped, k, b)
    BY <1>1, <1>2, <2>2 DEF Fits
  <2>4. Inside(w.of[b], w.of[p], p, h)  BY <1>1, <1>8 DEF Fits
  <2>5. Inside(v.of[b], v.of[p], p, h2)
    <3>1. \A u : <<p, w.of[p].id, u>> \in h => <<p, w.of[p].id, u>> \in h2  BY <1>3, <1>8
    <3> HIDE DEF p
    <3> QED BY <1>2, <2>1, <2>4, <3>1 DEF Inside
  <2> QED BY <1>1, <1>2, <1>4, <1>5, <2>3, <2>5 DEF Fits
<1> QED BY <1>6, <1>7, <1>8

\* A lifetime e goes on as f; it closes for good.
Continues(e, f) ==
  /\ e.life \notin Gone /\ f.life \notin Gone /\ f.id = e.id /\ f.parent = e.parent
  /\ e.life = "closing" => f.life = "closing"

\* What a registered child needs of a stays when e goes on as f.
Shelters(w, a, e, f, h, h2) ==
  \/ Children(w, a) = {}
  \/ /\ \A u \in Shared : <<a, e.id, u>> \in h => <<a, e.id, u>> \in h2
     /\ \/ f.closing.stage # "asked" \/ f.closing.resource[1] \notin SharedKinds
        \/ f.closing.stage = e.closing.stage /\ f.closing.resource = e.closing.resource

\* The order is kept when one lifetime goes on within it.
LEMMA GoesOn ==
  ASSUME NEW w, NEW v, NEW a \in Agents, NEW x \in {a, NoAgent}, NEW y \in {a, NoAgent},
         NEW h, NEW h2, NEW l, NEW l2, NEW k, NEW d, NEW f,
         Tidy(w, x, h, l, k, d), Alone(w, v, a), v.of[a] = f, v.restarts[a] = w.restarts[a],
         Others(a, h, h2, l, l2), Continues(w.of[a], f), Shelters(w, a, w.of[a], f, h, h2),
         Ordered(f, h2, l2[a], a), Reason(f, Over(w, a), w.restarts[a], w.stopped, k, a),
         y # a => Settles(f, k, a)
  PROVE  Tidy(v, y, h2, l2, k, d)
<1> DEFINE e == w.of[a]
<1>1. Fits(w, h, l, k, d, a)  BY DEF Tidy
<1>2. v.stopped = w.stopped /\ v.selfCloses = w.selfCloses  BY DEF Alone
<1>3. Meant(v.of[a], v.restarts[a], v.stopped, v.selfCloses, k, d[a], a)
  <2>1. Meant(e, w.restarts[a], w.stopped, w.selfCloses, k, d[a], a)  BY <1>1 DEF Fits
  <2>2. f.id = e.id /\ e.life \notin Gone /\ f.life \notin Gone  BY DEF Continues
  <2> HIDE DEF e
  <2>3. Meant(f, w.restarts[a], w.stopped, w.selfCloses, k, d[a], a)
    BY <2>1, <2>2 DEF Meant, Gone
  <2> QED BY <1>2, <2>3
<1>4. a \notin Roots => Parent[a] \in Agents /\ v.of[Parent[a]] = w.of[Parent[a]]
  BY ParentFacts DEF Alone
<1>5. Reason(v.of[a], Over(v, a), v.restarts[a], v.stopped, k, a)
  BY <1>2, <1>4 DEF Over
<1>6. a \notin Roots => Inside(v.of[a], v.of[Parent[a]], Parent[a], h2)
  <2> SUFFICES ASSUME a \notin Roots PROVE Inside(v.of[a], v.of[Parent[a]], Parent[a], h2)
    OBVIOUS
  <2> DEFINE p == Parent[a] g == w.of[p]
  <2>1. Inside(e, g, p, h) /\ v.of[p] = g  BY <1>1, <1>4 DEF Fits
  <2>2. \A u : <<p, g.id, u>> \in h => <<p, g.id, u>> \in h2
    <3>1. p # a  BY ParentFacts
    <3> QED BY <3>1 DEF Others
  <2>3. e.life \notin Gone /\ f.parent = e.parent  BY DEF Continues
  <2> HIDE DEF e, g, p
  <2>4. Inside(f, g, p, h2)  BY <2>1, <2>2, <2>3 DEF Inside
  <2> QED BY <2>1, <2>4 DEF p
<1>7. Fits(v, h2, l2, k, d, a)  BY <1>3, <1>5, <1>6 DEF Fits
<1>8. Covers(v, a, h2, k)
  <2> SUFFICES ASSUME NEW b \in Agents, Parent[b] = a
               PROVE  Inside(v.of[b], f, a, h2) /\ Reason(v.of[b], f.life, v.restarts[b], v.stopped, k, b)
    BY DEF Covers
  <2>1. b # a /\ b \notin Roots  BY ParentFacts
  <2>2. v.of[b] = w.of[b] /\ v.restarts[b] = w.restarts[b]  BY <2>1 DEF Alone
  <2>3. Inside(w.of[b], e, a, h) /\ Reason(w.of[b], e.life, w.restarts[b], w.stopped, k, b)
    BY <2>1 DEF Tidy, Fits, Over
  <2>4. e.life \notin Gone /\ f.life \notin Gone /\ f.id = e.id /\ (e.life = "closing" => f.life = "closing")
    BY DEF Continues
  <2>5. w.of[b].life \notin Gone => Children(w, a) # {}  BY DEF Children, Registered, Gone
  <2>6. Shelters(w, a, e, f, h, h2)  OBVIOUS
  <2> DEFINE z == w.of[b]
  <2> HIDE DEF e, z
  <2>7. Inside(z, f, a, h2)
    BY <2>3, <2>4, <2>5, <2>6 DEF Inside, Shelters, z
  <2>8. Reason(z, f.life, w.restarts[b], w.stopped, k, b)
    BY <2>3, <2>4 DEF Reason, Due, z
  <2> QED BY <1>2, <2>2, <2>7, <2>8 DEF z
<1>9. y # a => Settles(v.of[a], k, a)  OBVIOUS
<1> QED BY <1>7, <1>8, <1>9, OneFits

\* Only a lifetime of a is written.
LEMMA WithLifeAlone ==
  ASSUME NEW L, NEW s, NEW w \in RegType(L, s), NEW a \in Agents, NEW f \in LifeType(L, s)
  PROVE  /\ Alone(w, WithLife(w, a, f), a) /\ WithLife(w, a, f).of[a] = f
         /\ WithLife(w, a, f).restarts = w.restarts
<1>1. /\ \A b \in Agents : WithLife(w, a, f).of[b] = IF b = a THEN f ELSE w.of[b]
      /\ WithLife(w, a, f).restarts = w.restarts /\ WithLife(w, a, f).stopped = w.stopped
  BY WithLifeFacts
<1>2. WithLife(w, a, f).selfCloses = w.selfCloses  BY DEF WithLife, RegType
<1> QED BY <1>1, <1>2 DEF Alone

\* The usual case: nothing is released, and no loop changes.
LEMMA LifeGoesOn ==
  ASSUME NEW n, NEW s, NEW w \in RegType(Ids(n), s), NEW a \in Agents,
         NEW f \in LifeType(Ids(n), s), NEW x \in {a, NoAgent}, NEW y \in {a, NoAgent},
         NEW h, NEW l, NEW k, NEW d, Tidy(w, x, h, l, k, d), Continues(w.of[a], f),
         \/ f.closing.stage # "asked" \/ Children(w, a) = {}
         \/ f.closing.resource[1] \notin SharedKinds
         \/ f.closing.stage = w.of[a].closing.stage /\ f.closing.resource = w.of[a].closing.resource,
         Ordered(f, h, l[a], a), Reason(f, Over(w, a), w.restarts[a], w.stopped, k, a),
         y # a => Settles(f, k, a)
  PROVE  Tidy(WithLife(w, a, f), y, h, l, k, d)
<1> DEFINE v == WithLife(w, a, f)
<1>1. Alone(w, v, a) /\ v.of[a] = f /\ v.restarts[a] = w.restarts[a]  BY WithLifeAlone
<1>2. Others(a, h, h, l, l)  BY DEF Others
<1>3. Shelters(w, a, w.of[a], f, h, h)  BY DEF Shelters
<1> HIDE DEF v
<1>4. Tidy(v, y, h, l, k, d)  BY <1>1, <1>2, <1>3, GoesOn
<1> QED BY <1>4 DEF v

\* Nothing is released, started or executed for f, and nothing is held.
Idle(f, h, x, a) ==
  /\ \A z \in h : z[1] # a
  /\ f.opening.wait = "none" /\ f.opening.revision = 0 /\ f.closing.stage = "none"
  /\ x.creation = 0

\* So nothing of it can be out of order.
LEMMA IdleOrdered ==
  ASSUME NEW f, NEW h, NEW x, NEW a, Idle(f, h, x, a)
  PROVE  Ordered(f, h, x, a)
<1>1. \A r : <<a, f.id, r>> \notin h  BY DEF Idle
<1> QED BY <1>1 DEF Idle, Ordered, Beside, Starting, Releasing, Executing

\* A lifetime without children, and for which nothing is held, may end.
LEMMA LifeEnds ==
  ASSUME NEW n, NEW s, NEW w \in RegType(Ids(n), s), NEW a \in Agents,
         NEW f \in LifeType(Ids(n), s), NEW x \in {a, NoAgent}, NEW h, NEW l, NEW k, NEW d,
         Tidy(w, x, h, l, k, d), Children(w, a) = {}, Idle(f, h, l[a], a),
         f.life = "closed", f.id = w.of[a].id
  PROVE  Tidy(WithLife(w, a, f), NoAgent, h, l, k, d)
<1> DEFINE v == WithLife(w, a, f) e == w.of[a]
<1>1. Alone(w, v, a) /\ v.of[a] = f /\ v.restarts[a] = w.restarts[a]  BY WithLifeAlone
<1> HIDE DEF v
<1>2. Others(a, h, h, l, l)  BY DEF Others
<1>3. v.stopped = w.stopped /\ v.selfCloses = w.selfCloses  BY <1>1 DEF Alone
<1>4. Meant(e, w.restarts[a], w.stopped, w.selfCloses, k, d[a], a)  BY DEF Tidy, Fits
<1>5. Meant(f, w.restarts[a], w.stopped, w.selfCloses, k, d[a], a)
  <2> HIDE DEF e
  <2> QED BY <1>4 DEF Meant, Gone, e
<1>6. Ordered(f, h, l[a], a)  BY IdleOrdered
<1>7. Reason(f, Over(v, a), v.restarts[a], v.stopped, k, a)  BY DEF Reason, Due
<1>8. Inside(f, v.of[Parent[a]], Parent[a], h)  BY DEF Inside, Gone
<1>9. Fits(v, h, l, k, d, a)  BY <1>1, <1>3, <1>5, <1>6, <1>7, <1>8 DEF Fits
<1>10. Covers(v, a, h, k)
  <2> SUFFICES ASSUME NEW b \in Agents, Parent[b] = a
               PROVE  Inside(v.of[b], f, a, h) /\ Reason(v.of[b], f.life, v.restarts[b], v.stopped, k, b)
    BY <1>1 DEF Covers
  <2>1. b # a /\ v.of[b] = w.of[b]  BY <1>1, ParentFacts DEF Alone, Roots
  <2>2. v.of[b].life \in Gone  BY <2>1 DEF Children, Registered, Gone
  <2> QED BY <2>2 DEF Inside, Reason, Due, Gone
<1>11. Settles(v.of[a], k, a)  BY <1>1 DEF Settles
<1>12. Tidy(v, NoAgent, h, l, k, d)
  BY <1>1, <1>2, <1>9, <1>10, <1>11, OneFits
<1> QED BY <1>12 DEF v

\* A lifetime that was never drawn may begin in place of one that is gone.
LEMMA LifeBegins ==
  ASSUME NEW n, NEW s, NEW w \in RegType(Ids(n), s), NEW a \in Agents,
         NEW f \in LifeType(Ids(n), s), NEW h, NEW l, NEW k,
         NEW d \in [Agents -> Nat], NEW d2 \in [Agents -> Nat],
         Tidy(w, NoAgent, h, l, k, d), w.of[a].life \in Gone, Idle(f, h, l[a], a),
         \A b \in Agents : b # a => d2[b] = d[b],
         f.life = "initializing", f.id \in Nat, d[a] < f.id, f.id <= d2[a],
         a \notin Roots => Inside(f, w.of[Parent[a]], Parent[a], h)
  PROVE  Tidy(WithLife(w, a, f), a, h, l, k, d2)
<1> DEFINE v == WithLife(w, a, f) e == w.of[a]
<1>1. Alone(w, v, a) /\ v.of[a] = f /\ v.restarts[a] = w.restarts[a]  BY WithLifeAlone
<1> HIDE DEF v
<1>2. Others(a, h, h, l, l)  BY DEF Others
<1>3. v.stopped = w.stopped /\ v.selfCloses = w.selfCloses  BY <1>1 DEF Alone
<1>4. Meant(e, w.restarts[a], w.stopped, w.selfCloses, k, d[a], a)  BY DEF Tidy, Fits
<1>5. Meant(f, w.restarts[a], w.stopped, w.selfCloses, k, d2[a], a)
  <2>1. d[a] \in Nat /\ d2[a] \in Nat  OBVIOUS
  <2>2. \A i \in 0 .. d[a] : i \in 0 .. d2[a] /\ i # f.id  BY <2>1
  <2> HIDE DEF e
  <2> QED BY <1>4, <2>2 DEF Meant
<1>6. Ordered(f, h, l[a], a)  BY IdleOrdered
<1>7. Reason(f, Over(v, a), v.restarts[a], v.stopped, k, a)  BY DEF Reason, Due
<1>8. a \notin Roots => Inside(f, v.of[Parent[a]], Parent[a], h)
  BY <1>1, ParentFacts DEF Alone
<1>9. Fits(v, h, l, k, d2, a)  BY <1>1, <1>3, <1>5, <1>6, <1>7, <1>8 DEF Fits
<1>10. Covers(v, a, h, k)
  <2> SUFFICES ASSUME NEW b \in Agents, Parent[b] = a
               PROVE  Inside(v.of[b], f, a, h) /\ Reason(v.of[b], f.life, v.restarts[b], v.stopped, k, b)
    BY <1>1 DEF Covers
  <2>1. b # a /\ v.of[b] = w.of[b] /\ b \notin Roots
    BY <1>1, ParentFacts DEF Alone
  <2>2. Inside(w.of[b], w.of[a], a, h)  BY <2>1 DEF Tidy, Fits
  <2>3. v.of[b].life \in Gone  BY <2>1, <2>2 DEF Inside
  <2> QED BY <2>3 DEF Inside, Reason, Due, Gone
<1>11. a \in {a, NoAgent} /\ NoAgent \in {a, NoAgent}  OBVIOUS
<1>12. Tidy(v, a, h, l, k, d2)
  BY <1>1, <1>2, <1>9, <1>10, <1>11, OneFits
<1> QED BY <1>12 DEF v

-----------------------------------------------------------------------------
(* Replies and replacements.                                               *)

\* Replies and parked requests leave everything else alone.
LEMMA AnswerTidy ==
  ASSUME NEW n \in Nat, NEW s, NEW w \in RegType(Ids(n), s), NEW x, NEW h, NEW l, NEW k,
         NEW d \in [Agents -> Nat], Tidy(w, x, h, l, k, d), NEW who, NEW got \in Replies
  PROVE  Tidy(Answer(w, who, got), x, h, l, k, d)
<1> DEFINE v == Answer(w, who, got)
<1>1. v = [w EXCEPT !.calls = v.calls]
  BY ZeroIsId, AnswerFacts
<1> HIDE DEF v
<1>2. v.of = w.of /\ v.stopped = w.stopped /\ v.selfCloses = w.selfCloses /\ v.restarts = w.restarts
  BY <1>1 DEF RegType
<1>3. Tidy(v, x, h, l, k, d)  BY <1>2, Proceeds DEF Onward
<1> QED BY <1>3 DEF v

\* A caller that waits changes no lifetime.
LEMMA ParkTidy ==
  ASSUME NEW n \in Nat, NEW s, NEW w \in RegType(Ids(n), s), NEW x, NEW h, NEW l, NEW k,
         NEW d \in [Agents -> Nat], Tidy(w, x, h, l, k, d), NEW c \in Callers,
         NEW on \in Requested, NEW a \in Agents, NEW id \in Ids(n)
  PROVE  Tidy(Park(w, c, on, a, id), x, h, l, k, d)
<1> DEFINE v == Park(w, c, on, a, id)
<1>1. v = [w EXCEPT !.calls = v.calls]  BY ParkFacts
<1> HIDE DEF v
<1>2. v.of = w.of /\ v.stopped = w.stopped /\ v.selfCloses = w.selfCloses /\ v.restarts = w.restarts
  BY <1>1 DEF RegType
<1>3. Tidy(v, x, h, l, k, d)  BY <1>2, Proceeds DEF Onward
<1> QED BY <1>3 DEF v

\* Only the stage of one replacement is written.
LEMMA AtStageFacts ==
  ASSUME NEW L, NEW s, NEW w \in RegType(L, s), NEW a \in Agents, NEW stage
  PROVE  /\ AtStage(w, a, stage).of = w.of /\ AtStage(w, a, stage).stopped = w.stopped
         /\ AtStage(w, a, stage).selfCloses = w.selfCloses
         /\ AtStage(w, a, stage).seen = w.seen
         /\ \A b \in Agents \ {a} : AtStage(w, a, stage).restarts[b] = w.restarts[b]
         /\ AtStage(w, a, stage).restarts[a].stage = stage
         /\ AtStage(w, a, stage).restarts[a].of = w.restarts[a].of
<1> DEFINE rs == [w.restarts EXCEPT ![a].stage = stage]
<1>1. w.restarts \in [Agents -> RestartType(L)]  BY DEF RegType
<1>2. AtStage(w, a, stage) = [w EXCEPT !.restarts = rs]  BY DEF AtStage, RegType
<1>3. /\ \A b \in Agents \ {a} : rs[b] = w.restarts[b]
      /\ rs[a].stage = stage /\ rs[a].of = w.restarts[a].of
  BY <1>1 DEF RestartType
<1> HIDE DEF rs
<1> QED BY <1>2, <1>3 DEF RegType

\* The answer of a start reaches the replacement that began it.
LEMMA AnswerStartTidy ==
  ASSUME NEW n \in Nat, NEW s, NEW w \in RegType(Ids(n), s), NEW x, NEW h, NEW l, NEW k,
         NEW d \in [Agents -> Nat], Tidy(w, x, h, l, k, d), NEW a \in Agents,
         NEW ready \in BOOLEAN
  PROVE  /\ Tidy(AnswerStart(w, a, ready), x, h, l, k, d)
         /\ AnswerStart(w, a, ready).of = w.of
<1> DEFINE got == IF ready THEN "ready" ELSE "refused"
           u == Answer(w, Waiting(w, "start", a), got)
           next == IF u.restarts[a].stage # "creating" THEN u.restarts[a].stage
                   ELSE IF ready THEN "created" ELSE "createFailed"
           v == AtStage(u, a, next)
<1>1. u \in RegType(Ids(n), s) /\ u = [w EXCEPT !.calls = u.calls]
  <2>1. got \in Replies /\ 0 \in Ids(n)  BY ZeroIsId DEF Replies
  <2> HIDE DEF got
  <2> QED BY <2>1, AnswerFacts
<1>2. AnswerStart(w, a, ready) = v  BY <1>1, Zenon DEF AnswerStart, AtStage
<1> HIDE DEF u
<1>3. /\ u.of = w.of /\ u.restarts = w.restarts /\ u.stopped = w.stopped
      /\ u.selfCloses = w.selfCloses
  BY <1>1 DEF RegType
<1>4. \/ next = w.restarts[a].stage
      \/ w.restarts[a].stage = "creating" /\ next \in {"created", "createFailed"}
  BY <1>3
<1> HIDE DEF next
<1>5. /\ v.of = u.of /\ v.stopped = u.stopped /\ v.selfCloses = u.selfCloses
      /\ \A b \in Agents \ {a} : v.restarts[b] = u.restarts[b]
      /\ v.restarts[a].stage = next /\ v.restarts[a].of = u.restarts[a].of
  BY <1>1, AtStageFacts
<1>6. v.restarts[a] \in RestartType(Ids(n)) /\ w.restarts[a] \in RestartType(Ids(n))
  <2>1. u.restarts \in [Agents -> RestartType(Ids(n))]  BY <1>1 DEF RegType
  <2>2. next \in RestartStages  BY <1>4, <2>1, <1>3 DEF RestartType, RestartStages
  <2>3. v.restarts[a] = [u.restarts[a] EXCEPT !.stage = next]
    BY <1>1, <2>1 DEF AtStage, RegType
  <2> QED BY <1>3, <2>1, <2>2, <2>3 DEF RestartType
<1> HIDE DEF v
<1>7. Onward(w.restarts[a], v.restarts[a])
  <2> DEFINE r == w.restarts[a] q == v.restarts[a]
  <2>1. q.of = r.of /\ q.stage = next /\ q \in RestartType(Ids(n)) /\ r \in RestartType(Ids(n))
    BY <1>3, <1>5, <1>6
  <2> HIDE DEF q, r
  <2>2. next = r.stage => q = r  BY <2>1 DEF RestartType
  <2> QED BY <1>4, <2>1, <2>2 DEF Onward, r, q
<1>8. \A b \in Agents : Onward(w.restarts[b], v.restarts[b])
  BY <1>3, <1>5, <1>7 DEF Onward
<1>9. Tidy(v, x, h, l, k, d)  BY <1>3, <1>5, <1>8, Proceeds
<1> QED BY <1>2, <1>3, <1>5, <1>9

\* A lifetime e goes on as f; a release may learn how the close of a child ended.
Learns(e, f) ==
  \/ f = e
  \/ /\ e.closing.stage = "joined"
     /\ \E stage \in {"ok", "failed"} : f = [e EXCEPT !.closing.stage = stage]

\* A release that learns how the close of a child ended is still the last one asked.
LEMMA JoinedTidy ==
  ASSUME NEW n, NEW s, NEW w \in RegType(Ids(n), s), NEW v, NEW x, NEW h, NEW l, NEW k, NEW d,
         Tidy(w, x, h, l, k, d), v.restarts = w.restarts, v.stopped = w.stopped,
         v.selfCloses = w.selfCloses,
         \A p \in Agents : Learns(w.of[p], v.of[p])
  PROVE  Tidy(v, x, h, l, k, d)
<1> DEFINE Same(f, e) ==
             /\ f.life = e.life /\ f.failed = e.failed /\ f.id = e.id /\ f.parent = e.parent
             /\ f.opening = e.opening /\ f.owned = e.owned /\ f.ready = e.ready
             /\ f.instance = e.instance /\ f.closing.resource = e.closing.resource
             /\ \/ f.closing.stage = e.closing.stage
                \/ e.closing.stage = "joined" /\ f.closing.stage \in {"ok", "failed"}
<1>1. \A p \in Agents : Same(v.of[p], w.of[p])
  <2> SUFFICES ASSUME NEW p \in Agents PROVE Same(v.of[p], w.of[p])
    OBVIOUS
  <2> DEFINE e == w.of[p] f == v.of[p]
  <2>1. e \in LifeType(Ids(n), s)  BY DEF RegType
  <2>2. f = e \/ (e.closing.stage = "joined" /\ \E stage \in {"ok", "failed"} :
                    f = [e EXCEPT !.closing.stage = stage])
    BY DEF Learns
  <2> HIDE DEF e, f
  <2>3. f = e => Same(f, e)  OBVIOUS
  <2>4. ASSUME NEW stage \in {"ok", "failed"}, e.closing.stage = "joined",
               f = [e EXCEPT !.closing.stage = stage]
        PROVE  Same(f, e)
    BY <2>1, <2>4 DEF LifeType, ClosingType
  <2>5. Same(f, e)  BY <2>2, <2>3, <2>4
  <2> QED BY <2>5 DEF e, f
<1>2. \A p \in Agents : /\ Fits(w, h, l, k, d, p) /\ (p # x => Settles(w.of[p], k, p))
  BY DEF Tidy
<1> SUFFICES ASSUME NEW p \in Agents
             PROVE  Fits(v, h, l, k, d, p) /\ (p # x => Settles(v.of[p], k, p))
  BY DEF Tidy
<1> DEFINE e == w.of[p] f == v.of[p]
<1>3. Same(f, e) /\ Ordered(e, h, l[p], p)
  BY <1>1, <1>2 DEF Fits
<1>4. Ordered(f, h, l[p], p)
  <2> HIDE DEF e, f
  <2>1. Beside(f, h, p)  BY <1>3 DEF Ordered, Beside
  <2>2. Starting(f, h, l[p], p)  BY <1>3 DEF Ordered, Starting
  <2>3. Releasing(f, p)  BY <1>3 DEF Ordered, Releasing
  <2>4. Executing(f, l[p])  BY <1>3 DEF Ordered, Executing, Releasing
  <2> QED BY <2>1, <2>2, <2>3, <2>4 DEF Ordered
<1>5. Meant(f, v.restarts[p], v.stopped, v.selfCloses, k, d[p], p)
  <2>1. Meant(e, w.restarts[p], w.stopped, w.selfCloses, k, d[p], p)  BY <1>2 DEF Fits
  <2> HIDE DEF e, f
  <2>2. Meant(f, w.restarts[p], w.stopped, w.selfCloses, k, d[p], p)
    BY <1>3, <2>1 DEF Meant
  <2> QED BY <2>2
<1>6. Over(v, p) = Over(w, p)  BY <1>1, ParentFacts DEF Over
<1>7. Reason(f, Over(v, p), v.restarts[p], v.stopped, k, p)
  <2>1. Reason(e, Over(w, p), w.restarts[p], w.stopped, k, p)  BY <1>2 DEF Fits
  <2> HIDE DEF e, f
  <2>2. Reason(f, Over(w, p), w.restarts[p], w.stopped, k, p)  BY <1>3, <2>1 DEF Reason, Due
  <2> QED BY <2>2, <1>6
<1>8. p \notin Roots => Inside(f, v.of[Parent[p]], Parent[p], h)
  <2> SUFFICES ASSUME p \notin Roots PROVE Inside(f, v.of[Parent[p]], Parent[p], h)
    OBVIOUS
  <2> DEFINE q == Parent[p] g == w.of[q] g2 == v.of[q]
  <2>1. Same(g2, g)  BY <1>1, ParentFacts
  <2>2. Inside(e, g, q, h)  BY <1>2 DEF Fits
  <2> HIDE DEF e, f, g, g2, q
  <2>3. Inside(f, g2, q, h)  BY <1>3, <2>1, <2>2 DEF Inside
  <2> QED BY <2>3 DEF g2, q
<1>9. Fits(v, h, l, k, d, p)  BY <1>4, <1>5, <1>7, <1>8 DEF Fits
<1>10. p # x => Settles(f, k, p)
  <2>1. p # x => Settles(e, k, p)  BY <1>2
  <2> HIDE DEF e, f
  <2> QED BY <1>3, <2>1 DEF Settles
<1> QED BY <1>9, <1>10

\* The answer of a close reaches callers, the closing parent and the replacement.
LEMMA AnswerCloseTidy ==
  ASSUME NEW n \in Nat, NEW s, NEW w \in RegType(Ids(n), s), NEW x, NEW h, NEW l, NEW k,
         NEW d \in [Agents -> Nat], Tidy(w, x, h, l, k, d), NEW a \in Agents,
         NEW done \in BOOLEAN
  PROVE  Tidy(AnswerClose(w, a, done), x, h, l, k, d)
<1> DEFINE got == IF done THEN "closed" ELSE "refused"
           stage == IF done THEN "ok" ELSE "failed"
           u == Answer(w, Waiting(w, "close", a), got)
           joined(p) == w.of[p].closing.stage = "joined" /\ w.of[p].closing.resource = <<"child", a>>
           lives == [p \in Agents |-> IF joined(p) THEN [u.of[p] EXCEPT !.closing.stage = stage]
                                      ELSE u.of[p]]
           next == IF u.restarts[a].stage # "joined" THEN u.restarts[a].stage
                   ELSE IF done THEN "closed" ELSE "closeFailed"
           rs == [u.restarts EXCEPT ![a].stage = next]
           m == [u EXCEPT !.of = lives]
           v == [u EXCEPT !.of = lives, !.restarts = rs]
<1>1. u \in RegType(Ids(n), s) /\ u = [w EXCEPT !.calls = u.calls]
  <2>1. got \in Replies /\ 0 \in Ids(n)  BY ZeroIsId DEF Replies
  <2> HIDE DEF got
  <2> QED BY <2>1, AnswerFacts
<1>2. AnswerClose(w, a, done) = v  BY <1>1, Zenon DEF AnswerClose
<1> HIDE DEF u
<1>3. /\ u.of = w.of /\ u.restarts = w.restarts /\ u.stopped = w.stopped
      /\ u.selfCloses = w.selfCloses
  BY <1>1 DEF RegType
<1>4. \A p \in Agents : lives[p] = IF joined(p) THEN [w.of[p] EXCEPT !.closing.stage = stage]
                                   ELSE w.of[p]
  BY <1>3
<1>5. stage \in {"ok", "failed"}  OBVIOUS
<1>6. \A b \in Agents : Onward(w.restarts[b], rs[b])
  <2>1. u.restarts \in [Agents -> RestartType(Ids(n))]  BY <1>1 DEF RegType
  <2>2. \A b \in Agents : b # a => rs[b] = w.restarts[b]  BY <1>3, <2>1
  <2> DEFINE r == u.restarts[a]
  <2>3. rs[a] = [r EXCEPT !.stage = next] /\ r \in RestartType(Ids(n))  BY <2>1
  <2>4. next = r.stage \/ (r.stage = "joined" /\ next \in {"closed", "closeFailed"})
    OBVIOUS
  <2> HIDE DEF r, next, rs
  <2>5. Onward(r, rs[a])  BY <2>3, <2>4 DEF Onward, RestartType
  <2> QED BY <1>3, <2>2, <2>5 DEF Onward, r
<1> HIDE DEF lives, rs, next, stage
<1>7. /\ m.of = lives /\ m.restarts = w.restarts /\ m.stopped = w.stopped
      /\ m.selfCloses = w.selfCloses
      /\ v.of = lives /\ v.restarts = rs /\ v.stopped = w.stopped /\ v.selfCloses = w.selfCloses
  BY <1>1, <1>3 DEF RegType
<1>8. \A p \in Agents : Learns(w.of[p], m.of[p])
  <2> HIDE DEF m
  <2> QED BY <1>4, <1>5, <1>7 DEF Learns
<1> HIDE DEF m, v, joined
<1>9. Tidy(m, x, h, l, k, d)  BY <1>7, <1>8, JoinedTidy
<1>10. Tidy(v, x, h, l, k, d)  BY <1>6, <1>7, <1>9, Proceeds
<1> QED BY <1>2, <1>10

\* Cancelling writes nothing but replacements and the calls that wait for them.
LEMMA CancelFacts ==
  ASSUME NEW n \in Nat, NEW s, NEW w \in RegType(Ids(n), s), NEW a \in Agents
  PROVE  /\ CancelRestarts(w, a).of = w.of /\ CancelRestarts(w, a).stopped = w.stopped
         /\ CancelRestarts(w, a).selfCloses = w.selfCloses
         /\ \A b \in Agents :
              IF b = a \/ (a \in Ancestors[b] /\ Registered(w, b))
              THEN CancelRestarts(w, a).restarts[b] = NoRestart
              ELSE CancelRestarts(w, a).restarts[b] = w.restarts[b]
<1> DEFINE under == {b \in Agents : b = a \/ (a \in Ancestors[b] /\ Registered(w, b))}
           who == UNION {Waiting(w, "restart", b) : b \in under}
           u == Answer(w, who, "refused")
           rs == [b \in Agents |-> IF b \in under THEN NoRestart ELSE u.restarts[b]]
           v == [u EXCEPT !.restarts = rs]
<1>1. u \in RegType(Ids(n), s) /\ u = [w EXCEPT !.calls = u.calls]
  <2>1. "refused" \in Replies /\ 0 \in Ids(n)  BY ZeroIsId DEF Replies
  <2> HIDE DEF who
  <2> QED BY <2>1, AnswerFacts
<1>2. CancelRestarts(w, a) = v  BY Zenon DEF CancelRestarts
<1> HIDE DEF u, who
<1>3. /\ u.of = w.of /\ u.restarts = w.restarts /\ u.stopped = w.stopped
      /\ u.selfCloses = w.selfCloses
  BY <1>1 DEF RegType
<1>4. \A b \in Agents : IF b = a \/ (a \in Ancestors[b] /\ Registered(w, b))
                         THEN rs[b] = NoRestart ELSE rs[b] = w.restarts[b]
  BY <1>3
<1> HIDE DEF rs, under
<1>5. v.of = u.of /\ v.stopped = u.stopped /\ v.selfCloses = u.selfCloses /\ v.restarts = rs
  BY <1>1 DEF RegType
<1> HIDE DEF v
<1> QED BY <1>2, <1>3, <1>4, <1>5

\* No child and no descendant of one is being replaced.
LEMMA CancelTidy ==
  ASSUME NEW n \in Nat, NEW s, NEW w \in RegType(Ids(n), s), NEW x, NEW h, NEW l, NEW k,
         NEW d \in [Agents -> Nat], Tidy(w, x, h, l, k, d), NEW a \in Agents \ Roots
  PROVE  Tidy(CancelRestarts(w, a), x, h, l, k, d) /\ CancelRestarts(w, a).of = w.of
<1> DEFINE v == CancelRestarts(w, a)
<1>1. /\ v.of = w.of /\ v.stopped = w.stopped /\ v.selfCloses = w.selfCloses
      /\ \A b \in Agents : IF b = a \/ (a \in Ancestors[b] /\ Registered(w, b))
                           THEN v.restarts[b] = NoRestart ELSE v.restarts[b] = w.restarts[b]
  BY CancelFacts
<1> HIDE DEF v
<1>2. \A b \in Agents : Onward(w.restarts[b], v.restarts[b])
  <2> SUFFICES ASSUME NEW b \in Agents PROVE Onward(w.restarts[b], v.restarts[b])
    OBVIOUS
  <2>1. b \notin Roots => w.restarts[b].stage = "none"  BY DEF Tidy, Fits, Meant
  <2>2. v.restarts[b] = w.restarts[b] \/ (b \notin Roots /\ v.restarts[b] = NoRestart)
    BY <1>1, ParentFacts
  <2> QED BY <2>1, <2>2 DEF Onward
<1>3. Tidy(v, x, h, l, k, d)  BY <1>1, <1>2, Proceeds
<1> QED BY <1>1, <1>3 DEF v

\* Whoever asks to close a lifetime also calls off its replacement.
LEMMA AskTidy ==
  ASSUME NEW n \in Nat, NEW s, NEW w \in RegType(Ids(n), s), NEW h, NEW l, NEW k, NEW k2,
         NEW d \in [Agents -> Nat], Tidy(w, NoAgent, h, l, k, d), NEW a \in Agents,
         w.of[a].life # "closed", w.of[a].id \in 0 .. d[a],
         k2 = k \cup {<<a, w.of[a].id, "close">>}
  PROVE  Tidy(CancelRestarts(w, a), a, h, l, k2, d) /\ CancelRestarts(w, a).of = w.of
<1> DEFINE v == CancelRestarts(w, a) e == w.of[a] y == <<a, e.id, "close">>
<1>1. /\ v.of = w.of /\ v.stopped = w.stopped /\ v.selfCloses = w.selfCloses
      /\ \A b \in Agents : IF b = a \/ (a \in Ancestors[b] /\ Registered(w, b))
                           THEN v.restarts[b] = NoRestart ELSE v.restarts[b] = w.restarts[b]
  BY CancelFacts
<1> HIDE DEF v
<1>2. \A b \in Agents : Fits(w, h, l, k, d, b) /\ Settles(w.of[b], k, b)
  BY RegistryAssumption DEF Tidy
<1>3. \A b \in Agents : b # a => Fits(v, h, l, k2, d, b) /\ Settles(v.of[b], k2, b)
  <2> SUFFICES ASSUME NEW b \in Agents, b # a
               PROVE  Fits(v, h, l, k2, d, b) /\ Settles(w.of[b], k2, b)
    BY <1>1
  <2>1. \A z : z[1] = b => (z \in k2 <=> z \in k)  OBVIOUS
  <2>2. Onward(w.restarts[b], v.restarts[b])
    <3>1. b \notin Roots => w.restarts[b].stage = "none"  BY <1>2 DEF Fits, Meant
    <3>2. v.restarts[b] = w.restarts[b] \/ (b \notin Roots /\ v.restarts[b] = NoRestart)
      BY <1>1, ParentFacts
    <3> QED BY <3>1, <3>2 DEF Onward
  <2> DEFINE g == w.of[b] o == Over(w, b)
  <2>3. /\ Meant(g, w.restarts[b], w.stopped, w.selfCloses, k, d[b], b)
        /\ Reason(g, o, w.restarts[b], w.stopped, k, b)
    BY <1>2 DEF Fits
  <2>4. /\ Meant(g, v.restarts[b], w.stopped, w.selfCloses, k, d[b], b)
        /\ Reason(g, o, v.restarts[b], w.stopped, k, b)
    <3>1. d[b] \in Nat  OBVIOUS
    <3> HIDE DEF g, o
    <3> QED BY <2>2, <2>3, <3>1, OnwardFacts
  <2>5. Over(v, b) = o  BY <1>1 DEF Over
  <2> HIDE DEF g, o
  <2>6. Meant(g, v.restarts[b], w.stopped, w.selfCloses, k2, d[b], b)
    BY <2>1, <2>4 DEF Meant
  <2>7. Reason(g, o, v.restarts[b], w.stopped, k2, b)  BY <2>1, <2>4 DEF Reason, Due
  <2>8. Fits(v, h, l, k2, d, b)  BY <1>1, <1>2, <2>5, <2>6, <2>7 DEF Fits, g
  <2>9. Settles(w.of[b], k2, b)  BY <1>2, <2>1 DEF Settles
  <2> QED BY <2>8, <2>9
<1>4. Fits(v, h, l, k2, d, a)
  <2>1. Fits(w, h, l, k, d, a)  BY <1>2
  <2>2. v.restarts[a].stage = "none" /\ v.restarts[a].of = 0  BY <1>1 DEF NoRestart
  <2>3. y \in k2 /\ \A z \in k2 : z \in k \/ z = y  OBVIOUS
  <2>4. Meant(e, w.restarts[a], w.stopped, w.selfCloses, k, d[a], a)  BY <2>1 DEF Fits
  <2>5. Meant(e, v.restarts[a], w.stopped, w.selfCloses, k2, d[a], a)
    <3>1. 0 \in 0 .. d[a] /\ e.id \in 0 .. d[a]
      <4>1. d[a] \in Nat  OBVIOUS
      <4> QED BY <4>1
    <3>2. \A z \in k2 : z[1] = a => z[2] \in 0 .. d[a]  BY <2>3, <2>4, <3>1 DEF Meant
    <3>3. \A i : <<a, i, "close">> \in k => <<a, i, "close">> \in k2  OBVIOUS
    <3>4. <<a, e.id, "close">> \in k2  BY <2>3
    <3> HIDE DEF e
    <3>5. ASSUME NEW z \in w.selfCloses, z[1] = a
          PROVE  /\ z[2] \in 0 .. d[a]
                 /\ <<a, z[2], "close">> \in k2 \/ w.stopped \/ e.id # z[2] \/ e.life = "closed"
      BY <2>4, <3>4, <3>5 DEF Meant
    <3> QED BY <2>2, <3>1, <3>2, <3>5 DEF Meant
  <2>6. Reason(e, Over(v, a), v.restarts[a], w.stopped, k2, a)  BY <2>3 DEF Reason, Due
  <2> QED BY <1>1, <2>1, <2>5, <2>6 DEF Fits
<1>5. Tidy(v, a, h, l, k2, d)  BY <1>3, <1>4 DEF Tidy
<1> QED BY <1>1, <1>5 DEF v

\* The close of a lifetime that is already closed calls off its replacement.
LEMMA CancelClosedTidy ==
  ASSUME NEW n \in Nat, NEW s, NEW w \in RegType(Ids(n), s), NEW x, NEW h, NEW l, NEW k,
         NEW d \in [Agents -> Nat], Tidy(w, x, h, l, k, d), NEW a \in Agents,
         w.of[a].life = "closed"
  PROVE  Tidy(CancelRestarts(w, a), x, h, l, k, d)
<1> DEFINE v == CancelRestarts(w, a)
<1>1. /\ v.of = w.of /\ v.stopped = w.stopped /\ v.selfCloses = w.selfCloses
      /\ \A b \in Agents : IF b = a \/ (a \in Ancestors[b] /\ Registered(w, b))
                           THEN v.restarts[b] = NoRestart ELSE v.restarts[b] = w.restarts[b]
  BY CancelFacts
<1> HIDE DEF v
<1> SUFFICES ASSUME NEW b \in Agents PROVE Fits(v, h, l, k, d, b)
  BY <1>1 DEF Tidy, v
<1> DEFINE e == w.of[b] o == Over(w, b)
<1>2. /\ Fits(w, h, l, k, d, b) /\ Reason(e, o, w.restarts[b], w.stopped, k, b)
      /\ Meant(e, w.restarts[b], w.stopped, w.selfCloses, k, d[b], b)
  BY DEF Tidy, Fits
<1>3. Over(v, b) = o /\ d[b] \in Nat  BY <1>1 DEF Over
<1>4. CASE b # a
  <2>1. Onward(w.restarts[b], v.restarts[b])
    <3>1. b \notin Roots => w.restarts[b].stage = "none"  BY <1>2 DEF Meant
    <3>2. v.restarts[b] = w.restarts[b] \/ (b \notin Roots /\ v.restarts[b] = NoRestart)
      BY <1>1, <1>4, ParentFacts
    <3> QED BY <3>1, <3>2 DEF Onward
  <2> HIDE DEF e, o
  <2>2. /\ Meant(e, v.restarts[b], w.stopped, w.selfCloses, k, d[b], b)
        /\ Reason(e, o, v.restarts[b], w.stopped, k, b)
    BY <1>2, <1>3, <2>1, OnwardFacts
  <2> QED BY <1>1, <1>2, <1>3, <2>2 DEF Fits, e
<1>5. CASE b = a
  <2>1. v.restarts[b].stage = "none" /\ v.restarts[b].of = 0 /\ 0 \in 0 .. d[b]
    BY <1>1, <1>3, <1>5 DEF NoRestart
  <2>2. e.life = "closed"  BY <1>5
  <2> HIDE DEF e, o
  <2>3. Meant(e, v.restarts[b], w.stopped, w.selfCloses, k, d[b], b)
    BY <1>2, <2>1, <2>2 DEF Meant
  <2>4. Reason(e, o, v.restarts[b], w.stopped, k, b)  BY <2>2 DEF Reason
  <2> QED BY <1>1, <1>2, <1>3, <2>3, <2>4 DEF Fits, e
<1> QED BY <1>4, <1>5

\* A replacement begins for a root that is open, at a newer revision.
LEMMA RestartChangedTidy ==
  ASSUME NEW n \in Nat, NEW s \in Nat, NEW w, NEW h, NEW l, NEW k, NEW d \in [Agents -> Nat],
         Kept(w, h, d, n, s), Tidy(w, NoAgent, h, l, k, d)
  PROVE  Tidy(RestartChanged(w), NoAgent, h, l, k, d)
<1> DEFINE which == {a \in Agents : Outdated(w, a) /\ Admitted(w, a)}
           start == {a \in which : w.restarts[a].stage = "none"}
           rs == [a \in Agents |-> IF a \in start
                    THEN [stage |-> "close", of |-> w.of[a].id] ELSE w.restarts[a]]
           closes == w.selfCloses \cup {<<a, w.of[a].id>> : a \in start}
           v == [w EXCEPT !.restarts = rs, !.selfCloses = closes]
<1>1. w \in RegType(Ids(n), s)  BY DEF Kept
<1>2. CASE w.seen = 0  BY <1>2 DEF RestartChanged
<1>3. CASE w.seen # 0
  <2>1. RestartChanged(w) = v  BY <1>3 DEF RestartChanged, RestartAgents
  <2>2. /\ \A b \in Agents : b \in start \/ rs[b] = w.restarts[b]
        /\ \A b \in start : rs[b].stage = "close" /\ rs[b].of = w.of[b].id
        /\ \A y \in closes : y \in w.selfCloses \/ \E b \in start : y = <<b, w.of[b].id>>
    OBVIOUS
  <2> HIDE DEF rs, closes
  <2>3. /\ v.of = w.of /\ v.restarts = rs /\ v.selfCloses = closes /\ v.stopped = w.stopped
    BY <1>1 DEF RegType
  <2> HIDE DEF v
  <2> SUFFICES ASSUME NEW b \in Agents PROVE Fits(v, h, l, k, d, b)
    BY <2>1, <2>3 DEF Tidy
  <2> DEFINE e == w.of[b] r == w.restarts[b] o == Over(w, b)
  <2>4. /\ Fits(w, h, l, k, d, b) /\ Settles(e, k, b)
        /\ Meant(e, r, w.stopped, w.selfCloses, k, d[b], b) /\ Reason(e, o, r, w.stopped, k, b)
    BY RegistryAssumption DEF Tidy, Fits
  <2>5. Over(v, b) = o  BY <2>3 DEF Over
  <2>6. CASE b \notin start
    <3>1. rs[b] = r  BY <2>2, <2>6
    <3>2. \A y \in closes : y[1] = b => y \in w.selfCloses  BY <2>2, <2>6
    <3>3. Meant(e, r, w.stopped, closes, k, d[b], b)
      <4> HIDE DEF e, r, start
      <4> QED BY <2>4, <3>2 DEF Meant
    <3> QED BY <2>3, <2>4, <2>5, <3>1, <3>3 DEF Fits
  <2>7. CASE b \in start
    <3>1. Outdated(w, b) /\ Admitted(w, b) /\ r.stage = "none"  BY <2>7
    <3>2. e.life \in {"initializing", "available"} /\ ~w.stopped
      BY <3>1 DEF Admitted, Open
    <3>3. e.opening.revision # 0 /\ b \in Roots
      BY <2>4, <3>1 DEF Outdated, Fits, Ordered, Starting
    <3>4. e.id \in 0 .. d[b]
      <4>1. Within(e, r.stage, w.seen, d[b], n) /\ e \in LifeType(Ids(n), s)
        BY LifeFacts
      <4>2. e.id \in Nat
        <5> HIDE DEF e
        <5> QED BY <4>1, SomeRevision DEF LifeType, Ids
      <4> HIDE DEF e, r
      <4> QED BY <4>1, <4>2 DEF Within
    <3>5. <<b, e.id, "close">> \notin k  BY <2>4, <3>2 DEF Settles
    <3>6. rs[b].stage = "close" /\ rs[b].of = e.id  BY <2>2, <2>7
    <3>7. \A y \in closes : y[1] = b => y \in w.selfCloses \/ y[2] = e.id  BY <2>2
    <3>8. Meant(e, rs[b], w.stopped, closes, k, d[b], b)
      <4> HIDE DEF e, r, start
      <4> QED BY <2>4, <3>1, <3>2, <3>3, <3>4, <3>5, <3>6, <3>7 DEF Meant
    <3>9. Reason(e, o, rs[b], w.stopped, k, b)
      <4> HIDE DEF o, r, e
      <4> QED BY <2>4, <3>2 DEF Reason, Due
    <3> QED BY <2>3, <2>4, <2>5, <3>8, <3>9 DEF Fits
  <2> QED BY <2>6, <2>7
<1> QED BY <1>2, <1>3

\* A replacement under way goes from one stage to the next.
LEMMA StageTidy ==
  ASSUME NEW n, NEW s, NEW w \in RegType(Ids(n), s), NEW x, NEW h, NEW l, NEW k, NEW d,
         Tidy(w, x, h, l, k, d), NEW a \in Agents, NEW stage,
         w.restarts[a].stage \notin {"none", "close", "failed"}, stage \notin {"none", "close"},
         stage \in {"creating", "created"} => w.of[a].life \in Gone
  PROVE  Tidy(AtStage(w, a, stage), x, h, l, k, d)
<1> DEFINE v == AtStage(w, a, stage)
<1>1. /\ v.of = w.of /\ v.stopped = w.stopped /\ v.selfCloses = w.selfCloses
      /\ \A b \in Agents \ {a} : v.restarts[b] = w.restarts[b]
      /\ v.restarts[a].stage = stage /\ v.restarts[a].of = w.restarts[a].of
  BY AtStageFacts
<1> HIDE DEF v
<1> SUFFICES ASSUME NEW b \in Agents PROVE Fits(v, h, l, k, d, b)
  BY <1>1 DEF Tidy, v
<1>2. Fits(w, h, l, k, d, b)  BY DEF Tidy
<1>3. Over(v, b) = Over(w, b)  BY <1>1 DEF Over
<1>4. CASE b # a
  BY <1>1, <1>2, <1>3, <1>4 DEF Fits
<1>5. CASE b = a
  <2> DEFINE e == w.of[a] r == w.restarts[a] q == v.restarts[a] o == Over(w, a)
  <2>1. /\ Meant(e, r, w.stopped, w.selfCloses, k, d[a], a) /\ Reason(e, o, r, w.stopped, k, a)
        /\ q.stage = stage /\ q.of = r.of
    BY <1>1, <1>2, <1>5 DEF Fits
  <2> HIDE DEF e, q, o, r
  <2>2. Meant(e, q, w.stopped, w.selfCloses, k, d[a], a)  BY <2>1 DEF Meant, e, r
  <2>3. Reason(e, o, q, w.stopped, k, a)  BY <2>1 DEF Reason, Due, r
  <2> QED BY <1>1, <1>2, <1>3, <1>5, <2>2, <2>3 DEF Fits, e, q, o
<1> QED BY <1>4, <1>5

\* A replacement that fails answers who waits for it.
LEMMA FailRestartTidy ==
  ASSUME NEW n \in Nat, NEW s \in Nat, NEW w, NEW x, NEW h, NEW l, NEW k,
         NEW d \in [Agents -> Nat], Kept(w, h, d, n, s), Tidy(w, x, h, l, k, d), NEW a \in Agents,
         w.restarts[a].stage \notin {"none", "close", "failed"}
  PROVE  Tidy(FailRestart(w, a), x, h, l, k, d)
<1>1. w \in RegType(Ids(n), s)  BY DEF Kept
<1>2. "failed" \in RestartStages \ Replacing /\ "refused" \in Replies
  BY DEF RestartStages, Replacing, Replies
<1>3. Tidy(AtStage(w, a, "failed"), x, h, l, k, d)  BY <1>1, StageTidy
<1>4. AtStage(w, a, "failed") \in RegType(Ids(n), s)
  <2>1. Kept(AtStage(w, a, "failed"), h, d, n, s)  BY <1>2, RestartStage
  <2> QED BY <2>1 DEF Kept
<1>5. FailRestart(w, a) = Answer(AtStage(w, a, "failed"), Waiting(w, "restart", a), "refused")
  BY DEF FailRestart, AtStage
<1> QED BY <1>2, <1>3, <1>4, <1>5, AnswerTidy

\* The close that a replacement sent is taken; the replacement follows it, unless
\* it was called off.
Taken(w, a, id) == [w EXCEPT !.selfCloses = @ \ {<<a, id>>}]

\* Nothing but that close is written.
LEMMA TakenFacts ==
  ASSUME NEW L, NEW s, NEW w \in RegType(L, s), NEW a, NEW id
  PROVE  /\ Taken(w, a, id).of = w.of /\ Taken(w, a, id).restarts = w.restarts
         /\ Taken(w, a, id).stopped = w.stopped /\ Taken(w, a, id).seen = w.seen
         /\ Taken(w, a, id).selfCloses = w.selfCloses \ {<<a, id>>}
         /\ Taken(w, a, id) \in RegType(L, s)
BY DEF Taken, RegType

\* A replacement that learns of its close needs it no longer, and nobody else does.
LEMMA TakenTidy ==
  ASSUME NEW n, NEW s, NEW w \in RegType(Ids(n), s), NEW x, NEW h, NEW l, NEW k, NEW d,
         Tidy(w, x, h, l, k, d), NEW a \in Agents, NEW id
  PROVE  /\ Tidy(Taken(w, a, id), x, h, l, k, d)
         /\ \A stage : w.restarts[a].stage = "close" /\ w.restarts[a].of = id
                         /\ stage \in {"joined", "closed", "closeFailed"} =>
              Tidy(AtStage(Taken(w, a, id), a, stage), x, h, l, k, d)
<1> DEFINE u == Taken(w, a, id)
<1>1. /\ u \in RegType(Ids(n), s)
      /\ u.of = w.of /\ u.restarts = w.restarts /\ u.stopped = w.stopped
      /\ u.selfCloses = w.selfCloses \ {<<a, id>>}
  BY TakenFacts
<1>2. \A b \in Agents : Over(u, b) = Over(w, b)  BY <1>1 DEF Over
<1> HIDE DEF u
<1>3. \A b \in Agents : Fits(u, h, l, k, d, b)
  <2> SUFFICES ASSUME NEW b \in Agents PROVE Fits(u, h, l, k, d, b)
    OBVIOUS
  <2> DEFINE e == w.of[b] r == w.restarts[b]
  <2>1. Fits(w, h, l, k, d, b) /\ Meant(e, r, w.stopped, w.selfCloses, k, d[b], b)
    BY DEF Tidy, Fits
  <2> HIDE DEF e, r
  <2>2. Meant(e, r, w.stopped, u.selfCloses, k, d[b], b)  BY <1>1, <2>1 DEF Meant
  <2> QED BY <1>1, <1>2, <2>1, <2>2 DEF Fits, e, r
<1>4. ASSUME NEW stage \in {"joined", "closed", "closeFailed"}, w.restarts[a].stage = "close",
             w.restarts[a].of = id
      PROVE  Tidy(AtStage(u, a, stage), x, h, l, k, d)
  <2> DEFINE v == AtStage(u, a, stage)
  <2>1. /\ v.of = w.of /\ v.stopped = w.stopped /\ v.selfCloses = u.selfCloses
        /\ \A b \in Agents \ {a} : v.restarts[b] = w.restarts[b]
        /\ v.restarts[a].stage = stage /\ v.restarts[a].of = w.restarts[a].of
    BY <1>1, AtStageFacts
  <2> HIDE DEF v
  <2>2. \A b \in Agents : Over(v, b) = Over(u, b)  BY <1>1, <2>1 DEF Over
  <2>3. \A b \in Agents : b # a => Fits(v, h, l, k, d, b)  BY <1>1, <1>3, <2>1, <2>2 DEF Fits
  <2> DEFINE e == w.of[a] r == w.restarts[a] q == v.restarts[a] o == Over(w, a)
  <2>4. /\ Meant(e, r, w.stopped, w.selfCloses, k, d[a], a) /\ Reason(e, o, r, w.stopped, k, a)
        /\ q.stage = stage /\ q.of = r.of /\ r.stage = "close" /\ r.of = id
    BY <2>1, <1>4 DEF Tidy, Fits
  <2>5. \A y \in u.selfCloses : y[1] = a => y \in w.selfCloses /\ y[2] # id
    <3>1. w.selfCloses \subseteq Agents \X Ids(n)  BY DEF RegType
    <3>2. \A y \in w.selfCloses : y = <<y[1], y[2]>>  BY <3>1
    <3> QED BY <1>1, <3>2
  <2> HIDE DEF e, q, o, r
  <2>6. Meant(e, q, w.stopped, u.selfCloses, k, d[a], a)
    BY <1>4, <2>4, <2>5 DEF Meant
  <2>7. Reason(e, o, q, w.stopped, k, a)  BY <1>4, <2>4 DEF Reason, Due
  <2>8. Fits(v, h, l, k, d, a)
    BY <1>1, <1>2, <1>3, <2>1, <2>2, <2>6, <2>7 DEF Fits, e, q, o
  <2>9. Tidy(v, x, h, l, k, d)  BY <2>1, <2>3, <2>8 DEF Tidy
  <2> QED BY <2>9 DEF v
<1>5. Tidy(u, x, h, l, k, d)  BY <1>1, <1>3 DEF Tidy
<1> QED BY <1>4, <1>5 DEF u

-----------------------------------------------------------------------------
(* Closing.                                                                *)

\* A lifetime begins to close, or goes on closing.
LEMMA ClosesTidy ==
  ASSUME NEW n, NEW s, NEW w \in RegType(Ids(n), s), NEW a \in Agents,
         NEW f \in LifeType(Ids(n), s), NEW x \in {a, NoAgent}, NEW h, NEW l, NEW k, NEW d,
         Tidy(w, x, h, l, k, d), w.of[a].life \notin Gone,
         Due(f, Over(w, a), w.restarts[a], w.stopped, k, a),
         f.life = "closing", f.id = w.of[a].id, f.parent = w.of[a].parent,
         f.owned = w.of[a].owned, f.ready = w.of[a].ready, f.opening = w.of[a].opening,
         f.closing.stage = w.of[a].closing.stage, f.closing.resource = w.of[a].closing.resource,
         f.instance = w.of[a].instance
  PROVE  Tidy(WithLife(w, a, f), NoAgent, h, l, k, d)
<1> DEFINE e == w.of[a]
<1>1. Continues(e, f)  BY DEF Continues, Gone
<1>2. Ordered(f, h, l[a], a)
  <2>1. Ordered(e, h, l[a], a)  BY DEF Tidy, Fits
  <2> HIDE DEF e
  <2>2. Beside(f, h, a)  BY <2>1 DEF Ordered, Beside, e
  <2>3. Starting(f, h, l[a], a)  BY <2>1 DEF Ordered, Starting, e
  <2>4. Releasing(f, a)  BY <2>1 DEF Ordered, Releasing, e
  <2>5. Executing(f, l[a])  BY <2>1 DEF Ordered, Executing, e
  <2> QED BY <2>2, <2>3, <2>4, <2>5 DEF Ordered
<1>3. Reason(f, Over(w, a), w.restarts[a], w.stopped, k, a)  BY DEF Reason
<1>4. Settles(f, k, a)  BY DEF Settles
<1> QED BY <1>1, <1>2, <1>3, <1>4, LifeGoesOn

\* A close that has nothing left to release ends outside every other lifetime.
LEMMA FinishCloseTidy ==
  ASSUME NEW n \in Nat, NEW s \in Nat, NEW w, NEW a \in Agents, NEW x \in {a, NoAgent}, NEW h,
         NEW l, NEW k, NEW d \in [Agents -> Nat], Kept(w, h, d, n, s), Tidy(w, x, h, l, k, d),
         w.of[a].life = "closing", Obligations(w, a) = {}
  PROVE  Tidy(FinishClose(w, a), NoAgent, h, l, k, d)
<1> DEFINE e == w.of[a]
           f == [e EXCEPT !.life = "closed", !.closing = NoClosing, !.opening = NoOpening]
           v == WithLife(w, a, f)
<1>1. e \in LifeType(Ids(n), s) /\ Holding(e, h, a)  BY LifeFacts
<1>2. NoOpening \in OpeningType(s) /\ NoClosing \in ClosingType
  BY ComponentsNamed, ResourceKinds
     DEF OpeningType, ClosingType, NoOpening, NoClosing, Answers, Waits, CloseStages, SessionOf,
         Duties, Claimed
<1>3. f \in LifeType(Ids(n), s)  BY <1>1, <1>2 DEF LifeType, Lives
<1>4. f.life = "closed" /\ f.id = e.id /\ f.opening = NoOpening /\ f.closing = NoClosing
  BY <1>1 DEF LifeType
<1>5. w.of \in [Agents -> LifeType(Ids(n), s)] /\ w \in RegType(Ids(n), s)  BY DEF Kept, RegType
<1>6. FinishClose(w, a) = AnswerClose(v, a, TRUE)
  <2>1. [w EXCEPT !.of[a].life = "closed", !.of[a].closing = NoClosing,
                  !.of[a].opening = NoOpening] = v
    BY <1>5 DEF RegType, LifeType, WithLife
  <2> QED BY <2>1, Zenon DEF FinishClose
<1> HIDE DEF f
<1>7. e.owned = {} /\ Children(w, a) = {}  BY DEF Obligations
<1>8. Idle(f, h, l[a], a)
  <2>1. Executing(e, l[a])  BY DEF Tidy, Fits, Ordered
  <2>2. l[a].creation = 0  BY <1>7, <2>1 DEF Executing
  <2>3. \A z \in h : z[1] # a  BY <1>1, <1>7 DEF Holding
  <2> QED BY <1>4, <2>2, <2>3 DEF Idle, NoOpening, NoClosing
<1>9. Tidy(v, NoAgent, h, l, k, d)
  <2> HIDE DEF v
  <2> QED BY <1>3, <1>4, <1>5, <1>7, <1>8, LifeEnds DEF v
<1>10. v \in RegType(Ids(n), s)  BY <1>3, <1>5, WithLifeFacts
<1> HIDE DEF v
<1>11. Tidy(AnswerClose(v, a, TRUE), NoAgent, h, l, k, d)  BY <1>9, <1>10, AnswerCloseTidy
<1> QED BY <1>6, <1>11

\* The next release goes before what still uses it.
LEMMA RunCloseTidy ==
  ASSUME NEW n \in Nat, NEW s \in Nat, NEW w, NEW a \in Agents, NEW x \in {a, NoAgent}, NEW h,
         NEW l, NEW k, NEW d \in [Agents -> Nat], Kept(w, h, d, n, s), Tidy(w, x, h, l, k, d),
         w.of[a].life = "closing"
  PROVE  Tidy(RunClose(w, a), NoAgent, h, l, k, d)
<1> DEFINE e == w.of[a] r == NextRelease(w, a)
           f == [e EXCEPT !.closing = [@ EXCEPT !.resource = r, !.stage = "asked"]]
           v == WithLife(w, a, f)
<1>1. w \in RegType(Ids(n), s)  BY DEF Kept
<1>2. /\ e \in LifeType(Ids(n), s) /\ w.of \in [Agents -> LifeType(Ids(n), s)]
      /\ e.owned \subseteq Resources /\ Holding(e, h, a)
  BY LifeFacts
<1>3. CASE e.opening.wait # "none"
  <2>1. RunClose(w, a) = w  BY <1>3 DEF RunClose
  <2>2. Settles(e, k, a)  BY DEF Settles
  <2> QED BY <2>1, <2>2, RegistryAssumption DEF Tidy
<1>4. CASE e.opening.wait = "none" /\ Obligations(w, a) = {}
  <2>1. RunClose(w, a) = FinishClose(w, a)  BY <1>4 DEF RunClose
  <2> QED BY <1>4, <2>1, FinishCloseTidy
<1>5. CASE e.opening.wait = "none" /\ Obligations(w, a) # {}
  <2>1. /\ r \in Obligations(w, a) /\ r \in Duties
        /\ \A o \in Obligations(w, a) : ~Before(o, r)
    BY <1>2, <1>5, NextReleaseFacts
  <2> HIDE DEF r
  <2>2. f \in LifeType(Ids(n), s)
    <3>1. "asked" \in CloseStages  BY DEF CloseStages
    <3> QED BY <1>2, <2>1, <3>1 DEF LifeType, ClosingType
  <2>3. /\ f.life = e.life /\ f.failed = e.failed /\ f.id = e.id /\ f.parent = e.parent
        /\ f.owned = e.owned /\ f.ready = e.ready /\ f.opening = e.opening
        /\ f.instance = e.instance /\ f.closing.stage = "asked" /\ f.closing.resource = r
    BY <1>2 DEF LifeType, ClosingType
  <2>4. RunClose(w, a) = v
    <3>1. [w EXCEPT !.of[a].closing = [@ EXCEPT !.resource = r, !.stage = "asked"]] = v
      BY <1>1, <1>2 DEF RegType, WithLife
    <3> QED BY <1>5, <3>1, Zenon DEF RunClose, r
  <2> HIDE DEF f
  <2>5. r[1] \in SharedKinds => Children(w, a) = {}
    <3> SUFFICES ASSUME r[1] \in SharedKinds, NEW b \in Children(w, a) PROVE FALSE
      OBVIOUS
    <3>1. <<"child", b>> \in Obligations(w, a) /\ <<"child", b>> \in Duties
      BY DEF Obligations, Duties, Children
    <3> QED BY <2>1, <3>1, UsersGoFirst
  <2>6. Ordered(e, h, l[a], a) /\ Reason(e, Over(w, a), w.restarts[a], w.stopped, k, a)
    BY DEF Tidy, Fits
  <2>7. Releasing(f, a)
    <3>1. \A o \in e.owned : ~Before(o, r)  BY <2>1 DEF Obligations
    <3>2. r[1] = "child" => Parent[r[2]] = a
      <4>1. CASE r \in e.owned  BY <1>2, <4>1, ResourceKinds DEF Kinds
      <4>2. CASE r \notin e.owned
        <5>1. PICK b \in Children(w, a) : r = <<"child", b>>  BY <2>1, <4>2 DEF Obligations
        <5> QED BY <5>1 DEF Children
      <4> QED BY <4>1, <4>2
    <3> HIDE DEF e
    <3> QED BY <2>3, <3>1, <3>2 DEF Releasing
  <2>8. Ordered(f, h, l[a], a)
    <3> HIDE DEF e
    <3>1. Beside(f, h, a)  BY <2>3, <2>6 DEF Ordered, Beside
    <3>2. Starting(f, h, l[a], a)  BY <2>3, <2>6 DEF Ordered, Starting
    <3>3. Executing(f, l[a])  BY <2>3, <2>6 DEF Ordered, Executing
    <3> QED BY <2>7, <3>1, <3>2, <3>3 DEF Ordered
  <2>9. Reason(f, Over(w, a), w.restarts[a], w.stopped, k, a)
    <3> HIDE DEF e
    <3> QED BY <2>3, <2>6 DEF Reason, Due
  <2>10. Continues(e, f)  BY <2>3 DEF Continues, Gone
  <2>11. Settles(f, k, a)  BY <2>3 DEF Settles
  <2>12. Tidy(v, NoAgent, h, l, k, d)
    <3> HIDE DEF v, e
    <3>1. NoAgent \in {a, NoAgent}  OBVIOUS
    <3> QED BY <1>1, <2>2, <2>3, <2>5, <2>8, <2>9, <2>10, <2>11, <3>1, LifeGoesOn DEF v, e
  <2> QED BY <2>4, <2>12
<1> QED BY <1>3, <1>4, <1>5

\* The lifetime of a closes for a reason.
LEMMA BeginCloseTidy ==
  ASSUME NEW n, NEW s, NEW w \in RegType(Ids(n), s), NEW a \in Agents, NEW x \in {a, NoAgent},
         NEW h, NEW l, NEW k, NEW d, Tidy(w, x, h, l, k, d), w.of[a].life \notin Gone,
         Due(w.of[a], Over(w, a), w.restarts[a], w.stopped, k, a)
  PROVE  Tidy(BeginClose(w, a), NoAgent, h, l, k, d)
<1> DEFINE e == w.of[a] f == [e EXCEPT !.life = "closing"]
<1>1. e \in LifeType(Ids(n), s)  BY DEF RegType
<1>2. /\ f \in LifeType(Ids(n), s) /\ f.life = "closing" /\ f.id = e.id /\ f.owned = e.owned
      /\ f.ready = e.ready /\ f.opening = e.opening /\ f.closing = e.closing
      /\ f.parent = e.parent /\ f.instance = e.instance /\ f.failed = e.failed
  BY <1>1 DEF LifeType, Lives
<1>3. BeginClose(w, a) = WithLife(w, a, f)  BY DEF BeginClose, WithLife, RegType, LifeType
<1> HIDE DEF f
<1>4. Due(f, Over(w, a), w.restarts[a], w.stopped, k, a)
  <2> HIDE DEF e
  <2> QED BY <1>2 DEF Due, e
<1> QED BY <1>2, <1>3, <1>4, ClosesTidy

\* So it does when the close begins, joins the one in progress, or waits for a start.
LEMMA ScheduleCloseTidy ==
  ASSUME NEW n \in Nat, NEW s \in Nat, NEW w, NEW a \in Agents, NEW x \in {a, NoAgent}, NEW h,
         NEW l, NEW k, NEW d \in [Agents -> Nat], Kept(w, h, d, n, s), Tidy(w, x, h, l, k, d),
         w.of[a].life \notin Gone, Due(w.of[a], Over(w, a), w.restarts[a], w.stopped, k, a)
  PROVE  Tidy(ScheduleClose(w, a), NoAgent, h, l, k, d)
<1> DEFINE e == w.of[a] f == Begun(e) v == WithLife(w, a, f)
<1>1. e \in LifeType(Ids(n), s) /\ w \in RegType(Ids(n), s)  BY LifeFacts DEF Kept
<1>2. /\ f \in LifeType(Ids(n), s) /\ f.life = "closing" /\ f.id = e.id /\ f.owned = e.owned
      /\ f.ready = e.ready /\ f.opening = e.opening
      /\ f.closing.stage = e.closing.stage /\ f.closing.resource = e.closing.resource
      /\ f.parent = e.parent /\ f.instance = e.instance /\ f.failed = e.failed
  BY <1>1 DEF Begun, LifeType, ClosingType, Lives
<1>3. ScheduleClose(w, a) \in {RunClose(v, a), v}  BY <1>1, ScheduleCloseRuns
<1> HIDE DEF f
<1>4. Kept(v, h, d, n, s) /\ v.of[a].life = "closing"
  <2>1. e.life \notin {"absent", "closed"}  BY DEF Gone
  <2> QED BY <1>2, <2>1, ClosingKeeps
<1>5. Due(f, Over(w, a), w.restarts[a], w.stopped, k, a)
  <2> HIDE DEF e
  <2> QED BY <1>2 DEF Due, e
<1>6. Tidy(v, NoAgent, h, l, k, d)
  <2> HIDE DEF v
  <2> QED BY <1>1, <1>2, <1>5, ClosesTidy DEF v
<1> HIDE DEF v
<1>7. Tidy(RunClose(v, a), NoAgent, h, l, k, d)
  <2>1. NoAgent \in {a, NoAgent}  OBVIOUS
  <2> QED BY <1>4, <1>6, <2>1, RunCloseTidy
<1> QED BY <1>3, <1>6, <1>7

-----------------------------------------------------------------------------
(* Starting.                                                               *)

\* A start whose answer is taken goes on within its handler.
LEMMA SettledTidy ==
  ASSUME NEW n, NEW s, NEW w \in RegType(Ids(n), s), NEW a \in Agents, NEW x \in {a, NoAgent},
         NEW h, NEW l, NEW k, NEW d, Tidy(w, x, h, l, k, d), w.of[a].life \notin Gone
  PROVE  /\ Tidy(Settled(w, a), a, h, l, k, d)
         /\ Settled(w, a).restarts = w.restarts /\ Settled(w, a).of[a].failed = w.of[a].failed
<1> DEFINE e == w.of[a]
           f == [e EXCEPT !.opening.wait = "none", !.opening.answer = "none"]
           v == WithLife(w, a, f)
<1>1. e \in LifeType(Ids(n), s)  BY DEF RegType
<1>2. f \in LifeType(Ids(n), s)  BY <1>1 DEF LifeType, OpeningType, Waits, Answers
<1>3. /\ f.life = e.life /\ f.id = e.id /\ f.owned = e.owned /\ f.ready = e.ready
      /\ f.closing = e.closing /\ f.opening.wait = "none" /\ f.parent = e.parent
      /\ f.opening.revision = e.opening.revision /\ f.instance = e.instance
      /\ f.failed = e.failed
  BY <1>1 DEF LifeType, OpeningType
<1>4. Settled(w, a) = v
  <2>1. w \in RegType(Ids(n), s) /\ w.of \in [Agents -> LifeType(Ids(n), s)]  BY DEF RegType
  <2> QED BY <1>1, <2>1, ZenonT(40) DEF Settled, WithLife, RegType, LifeType, OpeningType
<1> HIDE DEF f
<1>5. Ordered(e, h, l[a], a) /\ Reason(e, Over(w, a), w.restarts[a], w.stopped, k, a)
  BY DEF Tidy, Fits
<1>6. Ordered(f, h, l[a], a)
  <2> HIDE DEF e
  <2>1. Beside(f, h, a)  BY <1>3, <1>5 DEF Ordered, Beside
  <2>2. Starting(f, h, l[a], a)  BY <1>3, <1>5 DEF Ordered, Starting
  <2>3. Releasing(f, a)  BY <1>3, <1>5 DEF Ordered, Releasing
  <2>4. Executing(f, l[a])  BY <1>3, <1>5 DEF Ordered, Executing
  <2> QED BY <2>1, <2>2, <2>3, <2>4 DEF Ordered
<1>7. Reason(f, Over(w, a), w.restarts[a], w.stopped, k, a)
  <2> HIDE DEF e
  <2> QED BY <1>3, <1>5 DEF Reason, Due
<1>8. Continues(e, f)  BY <1>3 DEF Continues
<1>9. Tidy(v, a, h, l, k, d)
  <2> HIDE DEF v
  <2>1. a \in {a, NoAgent} /\ f.closing.stage = e.closing.stage
        /\ f.closing.resource = e.closing.resource
    BY <1>3
  <2> QED BY <1>2, <1>6, <1>7, <1>8, <2>1, LifeGoesOn DEF v
<1>10. v.restarts = w.restarts /\ v.of[a] = f
  <2> HIDE DEF v
  <2> QED BY <1>2, WithLifeAlone DEF v
<1> QED BY <1>3, <1>4, <1>9, <1>10

\* A start that ends well is published unless somebody asked to close it, and
\* one that fails has its reason to close.
LEMMA EndedTidy ==
  ASSUME NEW n, NEW s, NEW w \in RegType(Ids(n), s), NEW a \in Agents, NEW h, NEW l, NEW k,
         NEW d, Tidy(w, a, h, l, k, d), w.of[a].opening.wait = "none", NEW bad \in BOOLEAN,
         w.of[a].life \in {"initializing", "closing"},
         ~bad => w.of[a].life = "initializing" /\ <<a, w.of[a].id, "close">> \notin k
  PROVE  /\ Tidy(Ended(w, a, bad), NoAgent, h, l, k, d) /\ Ended(w, a, bad) \in RegType(Ids(n), s)
         /\ bad => Ended(w, a, bad).of[a].life = "closing" /\ Ended(w, a, bad).of[a].failed
         /\ ~bad => Ended(w, a, bad).of[a].life = "available"
<1> DEFINE e == w.of[a]
<1>1. e \in LifeType(Ids(n), s)  BY DEF RegType
<1>2. CASE bad
  <2> DEFINE f == [e EXCEPT !.failed = TRUE, !.life = "closing"] v == WithLife(w, a, f)
  <2>1. Ended(w, a, bad) = v
    BY <1>2 DEF Ended, FailInitialization, WithLife, RegType, LifeType
  <2>2. /\ f \in LifeType(Ids(n), s) /\ f.life = "closing" /\ f.id = e.id /\ f.owned = e.owned
        /\ f.ready = e.ready /\ f.opening = e.opening /\ f.closing = e.closing
        /\ f.parent = e.parent /\ f.instance = e.instance /\ f.failed
    BY <1>1 DEF LifeType, Lives
  <2> HIDE DEF f
  <2>3. Due(f, Over(w, a), w.restarts[a], w.stopped, k, a)  BY <2>2 DEF Due
  <2>4. e.life \notin Gone  BY DEF Gone
  <2>5. Tidy(v, NoAgent, h, l, k, d)
    <3>1. a \in {a, NoAgent}  OBVIOUS
    <3> HIDE DEF v
    <3> QED BY <2>2, <2>3, <2>4, <3>1, ClosesTidy DEF v
  <2>6. v \in RegType(Ids(n), s) /\ v.of[a] = f
    <3> HIDE DEF v
    <3> QED BY <2>2, WithLifeFacts DEF v
  <2> QED BY <1>2, <2>1, <2>2, <2>5, <2>6
<1>3. CASE ~bad
  <2> DEFINE f == [e EXCEPT !.life = "available"] v == WithLife(w, a, f)
  <2>1. Ended(w, a, bad) = v  BY <1>3 DEF Ended, WithLife, RegType, LifeType
  <2>2. /\ f \in LifeType(Ids(n), s) /\ f.life = "available" /\ f.id = e.id /\ f.owned = e.owned
        /\ f.ready = e.ready /\ f.opening = e.opening /\ f.closing = e.closing
        /\ f.parent = e.parent /\ f.instance = e.instance
    BY <1>1 DEF LifeType, Lives
  <2> HIDE DEF f
  <2>3. Ordered(e, h, l[a], a)  BY DEF Tidy, Fits
  <2>4. Ordered(f, h, l[a], a)
    <3> HIDE DEF e
    <3>1. Beside(f, h, a)  BY <2>2, <2>3 DEF Ordered, Beside
    <3>2. Starting(f, h, l[a], a)  BY <2>2, <2>3 DEF Ordered, Starting
    <3>3. Releasing(f, a)  BY <2>2, <2>3 DEF Ordered, Releasing
    <3>4. Executing(f, l[a])  BY <2>2, <2>3 DEF Ordered, Executing
    <3> QED BY <3>1, <3>2, <3>3, <3>4 DEF Ordered
  <2>5. Reason(f, Over(w, a), w.restarts[a], w.stopped, k, a)  BY <2>2 DEF Reason
  <2>6. Continues(e, f)  BY <1>3, <2>2 DEF Continues, Gone
  <2>7. Settles(f, k, a)  BY <1>3, <2>2 DEF Settles
  <2>8. Tidy(v, NoAgent, h, l, k, d)
    <3>1. a \in {a, NoAgent} /\ NoAgent \in {a, NoAgent}
          /\ f.closing.stage = e.closing.stage /\ f.closing.resource = e.closing.resource
      BY <2>2
    <3> HIDE DEF v
    <3> QED BY <2>2, <2>4, <2>5, <2>6, <2>7, <3>1, LifeGoesOn DEF v
  <2>9. v \in RegType(Ids(n), s) /\ v.of[a] = f
    <3> HIDE DEF v
    <3> QED BY <2>2, WithLifeFacts DEF v
  <2> QED BY <1>3, <2>1, <2>2, <2>8, <2>9
<1> QED BY <1>2, <1>3

\* A start that ends is published, or closes because it failed.
LEMMA FinishCreationTidy ==
  ASSUME NEW n \in Nat, NEW s \in Nat, NEW w, NEW a \in Agents, NEW x \in {a, NoAgent}, NEW h,
         NEW l, NEW k, NEW d \in [Agents -> Nat], Kept(w, h, d, n, s), Tidy(w, x, h, l, k, d),
         w.of[a].id # 0, w.of[a].life \in {"initializing", "closing"},
         w.of[a].life = "initializing" => <<a, w.of[a].id, "close">> \notin k,
         NEW failed \in BOOLEAN
  PROVE  Tidy(FinishCreation(w, a, failed), NoAgent, h, l, k, d)
<1> DEFINE settled == Settled(w, a)
           bad == failed \/ ~Admitted(w, a) \/ ~Open(w, a) \/ Unready(w, a) # {}
           ended == Ended(settled, a, bad)
           well == ~bad
           answered == AnswerStart(ended, a, well)
           changed == IF bad THEN answered ELSE RestartChanged(answered)
<1>1. FinishCreation(w, a, failed) =
        IF changed.of[a].life = "closing" THEN ScheduleClose(changed, a) ELSE changed
  BY Zenon DEF FinishCreation, Settled, Ended
<1>2. /\ Kept(settled, h, d, n, s) /\ settled.of[a].opening.wait = "none"
      /\ settled.of[a].life = w.of[a].life /\ settled.of[a].id = w.of[a].id
      /\ settled.of[a].ready = w.of[a].ready
  BY ONLY n \in Nat, s \in Nat, Kept(w, h, d, n, s), a \in Agents, SettledKeeps
<1>3. Tidy(settled, a, h, l, k, d)
  <2>1. w \in RegType(Ids(n), s) /\ w.of[a].life \notin Gone  BY DEF Kept, Gone
  <2> HIDE DEF settled
  <2> QED BY <2>1, SettledTidy DEF settled
<1> HIDE DEF settled
<1>4. bad \in BOOLEAN  OBVIOUS
<1>5. ~bad => Open(settled, a) /\ Unready(settled, a) = {} /\ w.of[a].life = "initializing"
  BY <1>2 DEF Open, Unready
<1> HIDE DEF bad
<1>6. Kept(ended, h, d, n, s)
  <2> HIDE DEF ended
  <2> QED BY <1>2, <1>4, <1>5, EndedKeeps DEF ended
<1>7. /\ Tidy(ended, NoAgent, h, l, k, d) /\ ended \in RegType(Ids(n), s)
      /\ bad => ended.of[a].life = "closing" /\ ended.of[a].failed
      /\ ~bad => ended.of[a].life = "available"
  <2>1. settled \in RegType(Ids(n), s)  BY <1>2 DEF Kept
  <2> HIDE DEF ended
  <2> QED BY <1>2, <1>3, <1>4, <1>5, <2>1, EndedTidy DEF ended
<1> HIDE DEF ended
<1>8. well \in BOOLEAN  OBVIOUS
<1> HIDE DEF well
<1>9. /\ Kept(answered, h, d, n, s) /\ Tidy(answered, NoAgent, h, l, k, d)
      /\ answered.of = ended.of
  <2>1. n \in Nat /\ s \in Nat /\ Kept(ended, h, d, n, s)  BY <1>6
  <2>2. Kept(answered, h, d, n, s) /\ answered.of = ended.of
    BY <1>8, <2>1, AnswerStartKeeps
  <2>3. ended \in RegType(Ids(n), s) /\ Tidy(ended, NoAgent, h, l, k, d)  BY <1>7
  <2>4. Tidy(answered, NoAgent, h, l, k, d)  BY <1>8, <2>3, AnswerStartTidy
  <2> QED BY <2>2, <2>4
<1> HIDE DEF answered
<1>10. CASE bad
  <2>1. changed = answered /\ changed.of[a].life = "closing" /\ changed.of[a].failed
    BY <1>7, <1>9, <1>10
  <2>2. FinishCreation(w, a, failed) = ScheduleClose(answered, a)  BY <1>1, <2>1
  <2>3. Due(answered.of[a], Over(answered, a), answered.restarts[a], answered.stopped, k, a)
    BY <2>1 DEF Due
  <2>4. answered.of[a].life \notin Gone /\ NoAgent \in {a, NoAgent}  BY <2>1 DEF Gone
  <2> HIDE DEF changed
  <2>5. Tidy(ScheduleClose(answered, a), NoAgent, h, l, k, d)
    BY <1>9, <2>3, <2>4, ScheduleCloseTidy
  <2> QED BY <2>2, <2>5
<1>11. CASE ~bad
  <2>1. changed = RestartChanged(answered)  BY <1>11
  <2> HIDE DEF changed
  <2>2. changed.of = answered.of
    <3>1. n \in Nat /\ s \in Nat /\ d \in [Agents -> Nat] /\ Kept(answered, h, d, n, s)
      BY <1>9
    <3>2. RestartChanged(answered).of = answered.of /\ Kept(RestartChanged(answered), h, d, n, s)
      BY <3>1, RestartChangedKeeps
    <3> QED BY <2>1, <3>2
  <2>3. Tidy(changed, NoAgent, h, l, k, d)  BY <1>9, <2>1, RestartChangedTidy
  <2>4. changed.of[a].life = "available"  BY <1>7, <1>9, <1>11, <2>2
  <2> QED BY <1>1, <2>3, <2>4
<1> QED BY <1>10, <1>11

\* A start asks for its next component, or ends.
LEMMA RunCreationTidy ==
  ASSUME NEW n \in Nat, NEW s \in Nat, NEW w, NEW a \in Agents, NEW x \in {a, NoAgent}, NEW h,
         NEW l, NEW k, NEW d \in [Agents -> Nat], Kept(w, h, d, n, s), Tidy(w, x, h, l, k, d),
         w.of[a].id # 0, w.of[a].life \in {"initializing", "closing"},
         w.of[a].life = "initializing" => <<a, w.of[a].id, "close">> \notin k
  PROVE  Tidy(RunCreation(w, a), NoAgent, h, l, k, d)
<1>1. CASE ~Admitted(w, a)
  <2>1. RunCreation(w, a) = FinishCreation(w, a, TRUE)  BY <1>1, CreationEnds
  <2>2. Tidy(FinishCreation(w, a, TRUE), NoAgent, h, l, k, d)
    <3>1. TRUE \in BOOLEAN  OBVIOUS
    <3> QED BY <3>1, FinishCreationTidy
  <2> QED BY <2>1, <2>2
<1>2. CASE Admitted(w, a) /\ Unready(w, a) = {}
  <2>1. RunCreation(w, a) = FinishCreation(w, a, FALSE)  BY <1>2, CreationEnds
  <2>2. Tidy(FinishCreation(w, a, FALSE), NoAgent, h, l, k, d)
    <3>1. FALSE \in BOOLEAN  OBVIOUS
    <3> QED BY <3>1, FinishCreationTidy
  <2> QED BY <2>1, <2>2
<1>3. CASE Admitted(w, a) /\ Unready(w, a) # {}
  <2> DEFINE e == w.of[a] c == NextComponent(w, a) f == AskingFor(e, c)
  <2>1. e \in LifeType(Ids(n), s) /\ Sound(e) /\ Holding(e, h, a) /\ w \in RegType(Ids(n), s)
    BY LifeFacts DEF Kept
  <2>2. c \in Components  BY <1>3, NextComponentFacts
  <2>3. Owns(c) \subseteq Resources  BY <2>2, OwnsFacts
  <2>4. c[1] \in Late => Early \subseteq e.ready  BY <1>3, EarlyFirst
  <2>5. e.life = "initializing"  BY <1>3 DEF Admitted, Open
  <2>6. RunCreation(w, a) = WithLife(w, a, f)  BY <1>3, <2>1, RunCreationAsks
  <2> HIDE DEF c
  <2>7. f \in LifeType(Ids(n), s)
    <3>1. "component" \in Waits /\ "asked" \in Answers  BY DEF Waits, Answers
    <3> QED BY <2>1, <2>2, <2>3, <3>1 DEF AskingFor, LifeType, OpeningType
  <2>8. /\ f.life = e.life /\ f.id = e.id /\ f.ready = e.ready /\ f.closing = e.closing
        /\ f.parent = e.parent /\ f.instance = e.instance /\ f.owned = e.owned \cup Owns(c)
        /\ f.opening.wait = "component" /\ f.opening.component = c /\ f.opening.answer = "asked"
        /\ f.opening.revision = e.opening.revision
    BY <2>1 DEF AskingFor, LifeType, OpeningType
  <2> HIDE DEF f
  <2>9. e.closing.stage = "none"  BY <2>1, <2>5 DEF Sound
  <2>10. \A b \in e.ready : \A r \in Owns(b) \ Claimed : <<a, e.id, r>> \in h
    BY <2>1, <2>5 DEF Holding
  <2>11. Ordered(e, h, l[a], a)  BY DEF Tidy, Fits
  <2>12. Ordered(f, h, l[a], a)
    <3> HIDE DEF e
    <3>1. Beside(f, h, a)  BY <2>8, <2>11 DEF Ordered, Beside
    <3>2. Starting(f, h, l[a], a)  BY <2>4, <2>8, <2>10, <2>11 DEF Ordered, Starting
    <3>3. Releasing(f, a)  BY <2>8, <2>9 DEF Releasing
    <3>4. Executing(f, l[a])  BY <2>8, <2>11 DEF Ordered, Executing
    <3> QED BY <3>1, <3>2, <3>3, <3>4 DEF Ordered
  <2>13. Reason(f, Over(w, a), w.restarts[a], w.stopped, k, a)  BY <2>5, <2>8 DEF Reason
  <2>14. Continues(e, f)  BY <2>5, <2>8 DEF Continues, Gone
  <2>15. Settles(f, k, a)  BY <2>5, <2>8 DEF Settles
  <2>16. f.closing.stage # "asked" /\ NoAgent \in {a, NoAgent}  BY <2>8, <2>9
  <2>17. Tidy(WithLife(w, a, f), NoAgent, h, l, k, d)
    BY <2>1, <2>7, <2>12, <2>13, <2>14, <2>15, <2>16, LifeGoesOn
  <2> QED BY <2>6, <2>17
<1> QED BY <1>1, <1>2, <1>3

\* The start of a root asks for the Settings, that of a child for its Session.
LEMMA PrepareCreationTidy ==
  ASSUME NEW n \in Nat, NEW s \in Nat, NEW w, NEW a \in Agents, NEW x \in {a, NoAgent}, NEW h,
         NEW l, NEW k, NEW d \in [Agents -> Nat], Kept(w, h, d, n, s), Tidy(w, x, h, l, k, d),
         w.of[a].id # 0, w.of[a].life \in {"initializing", "closing"},
         w.of[a].life = "initializing" => <<a, w.of[a].id, "close">> \notin k
  PROVE  Tidy(PrepareCreation(w, a), NoAgent, h, l, k, d)
<1>1. CASE a \notin Roots
  <2>1. PrepareCreation(w, a) = RunCreation(w, a)  BY <1>1 DEF PrepareCreation
  <2>2. Tidy(RunCreation(w, a), NoAgent, h, l, k, d)  BY RunCreationTidy
  <2> QED BY <2>1, <2>2
<1>2. CASE a \in Roots
  <2> DEFINE e == w.of[a] f == Reading(e) u == WithLife(w, a, f)
             v == [u EXCEPT !.observing = TRUE]
  <2>1. e \in LifeType(Ids(n), s) /\ w \in RegType(Ids(n), s)  BY LifeFacts DEF Kept
  <2>2. PrepareCreation(w, a) = v  BY <1>2, <2>1, PrepareCreationReads
  <2>3. /\ f \in LifeType(Ids(n), s)
        /\ f.life = e.life /\ f.id = e.id /\ f.ready = e.ready /\ f.closing = e.closing
        /\ f.parent = e.parent /\ f.instance = e.instance /\ f.owned = e.owned
        /\ f.failed = e.failed
        /\ f.opening.wait = "settings"
    BY <2>1 DEF Reading, LifeType, OpeningType, Waits, Answers
  <2> HIDE DEF f
  <2>4. /\ Ordered(e, h, l[a], a) /\ Reason(e, Over(w, a), w.restarts[a], w.stopped, k, a)
    BY DEF Tidy, Fits
  <2>5. Ordered(f, h, l[a], a)
    <3> HIDE DEF e
    <3>1. Beside(f, h, a)  BY <2>3, <2>4 DEF Ordered, Beside
    <3>2. Starting(f, h, l[a], a)  BY <1>2, <2>3 DEF Starting
    <3>3. Releasing(f, a)  BY <2>3, <2>4 DEF Ordered, Releasing
    <3>4. Executing(f, l[a])  BY <2>3, <2>4 DEF Ordered, Executing
    <3> QED BY <3>1, <3>2, <3>3, <3>4 DEF Ordered
  <2>6. Reason(f, Over(w, a), w.restarts[a], w.stopped, k, a)
    <3> HIDE DEF e
    <3> QED BY <2>3, <2>4 DEF Reason, Due
  <2>7. Continues(e, f)  BY <2>3 DEF Continues, Gone
  <2>8. Settles(f, k, a)  BY <2>3 DEF Settles
  <2>9. /\ NoAgent \in {a, NoAgent} /\ f.closing.stage = e.closing.stage
        /\ f.closing.resource = e.closing.resource
    BY <2>3
  <2>10. Tidy(u, NoAgent, h, l, k, d) /\ u \in RegType(Ids(n), s)
    <3> HIDE DEF u
    <3>1. u \in RegType(Ids(n), s)  BY <2>1, <2>3, WithLifeFacts DEF u
    <3>2. Tidy(u, NoAgent, h, l, k, d)
      BY <2>1, <2>3, <2>5, <2>6, <2>7, <2>8, <2>9, LifeGoesOn DEF u
    <3> QED BY <3>1, <3>2
  <2> HIDE DEF u
  <2>11. /\ v.of = u.of /\ v.stopped = u.stopped /\ v.selfCloses = u.selfCloses
         /\ v.restarts = u.restarts
    BY <2>10 DEF RegType
  <2> HIDE DEF v
  <2>12. Tidy(v, NoAgent, h, l, k, d)
    <3>1. \A b \in Agents : Onward(u.restarts[b], v.restarts[b])  BY <2>11 DEF Onward
    <3> QED BY <2>10, <2>11, <3>1, Proceeds
  <2> QED BY <2>2, <2>12
<1> QED BY <1>1, <1>2

\* A published Agent holds what its children share with it.
LEMMA AvailableShares ==
  ASSUME NEW n, NEW s, NEW e \in LifeType(Ids(n), s), Sound(e), NEW h, NEW a, Holding(e, h, a),
         e.life = "available"
  PROVE  \A u \in Shared : <<a, e.id, u>> \in h
<1>1. DOMAIN Required = 1 .. Len(Required) /\ Len(Required) \in Nat /\ Len(Required) >= 5
  BY RequiredFacts, LenProperties
<1>2. 1 \in DOMAIN Required /\ 2 \in DOMAIN Required /\ 3 \in DOMAIN Required  BY <1>1
<1>3. Early \subseteq Components
  <2>1. Required[1] \in Components /\ Required[2] \in Components /\ Required[3] \in Components
    BY <1>2, ComponentsNamed
  <2> QED BY <2>1, RequiredStarts DEF Early
<1>4. e.ready = Components  BY DEF Sound
<1>5. \A c \in Early : \A r \in Owns(c) \ Claimed : <<a, e.id, r>> \in h
  BY <1>3, <1>4 DEF Holding
<1>6. /\ Owns(<<"session", 0>>) = {<<"conversation", 0>>}
      /\ Owns(<<"tools", 0>>) = {<<"tools", 0>>} /\ Owns(<<"prompt", 0>>) = {<<"prompt", 0>>}
  BY DEF Owns
<1>7. \A u \in Shared : u \notin Claimed /\ \E c \in Early : u \in Owns(c)
  BY <1>6 DEF Shared, Early, Claimed
<1> QED BY <1>5, <1>7

\* More lifetimes are drawn.
LEMMA MoreDrawn ==
  ASSUME NEW w, NEW x, NEW h, NEW l, NEW k, NEW d \in [Agents -> Nat], NEW d2 \in [Agents -> Nat],
         Tidy(w, x, h, l, k, d), \A b \in Agents : d[b] <= d2[b]
  PROVE  Tidy(w, x, h, l, k, d2)
<1> SUFFICES ASSUME NEW b \in Agents PROVE Fits(w, h, l, k, d2, b)
  BY DEF Tidy
<1> DEFINE e == w.of[b] r == w.restarts[b]
<1>1. Fits(w, h, l, k, d, b) /\ Meant(e, r, w.stopped, w.selfCloses, k, d[b], b)
  BY DEF Tidy, Fits
<1>2. \A i \in 0 .. d[b] : i \in 0 .. d2[b]
  <2>1. d[b] \in Nat /\ d2[b] \in Nat /\ d[b] <= d2[b]  OBVIOUS
  <2> QED BY <2>1
<1> HIDE DEF e, r
<1>3. Meant(e, r, w.stopped, w.selfCloses, k, d2[b], b)  BY <1>1, <1>2 DEF Meant
<1> QED BY <1>1, <1>3 DEF Fits, e, r

\* A lifetime begins under a published parent, as none that was asked to close.
LEMMA StartTidy ==
  ASSUME NEW n \in Nat, NEW s \in Nat, NEW w, NEW a \in Agents, NEW h, NEW l, NEW k,
         NEW d \in [Agents -> Nat], NEW d2 \in [Agents -> Nat], Kept(w, h, d2, n, s),
         Tidy(w, NoAgent, h, l, k, d), ~Registered(w, a), NEW id \in Ids(n), d[a] < id,
         id <= d2[a], \A b \in Agents : b # a => d2[b] = d[b], NEW parent \in Ids(n),
         a \notin Roots => w.of[Parent[a]].life = "available" /\ w.of[Parent[a]].id = parent
  PROVE  Tidy(Start(w, a, id, parent), NoAgent, h, l, k, d2)
<1> DEFINE e == w.of[a]
           f == [NewLife(a, "initializing", id, parent) EXCEPT !.opening.on = TRUE]
           u == WithLife(w, a, f)
<1>1. /\ e \in LifeType(Ids(n), s) /\ Sound(e) /\ Holding(e, h, a)
      /\ Within(e, w.restarts[a].stage, w.seen, d2[a], n) /\ w \in RegType(Ids(n), s)
  BY LifeFacts DEF Kept
<1>2. e.life \in Gone /\ \A z \in h : z[1] # a
  BY <1>1 DEF Holding, Sound, Registered, Gone
<1>3. id \in Nat /\ id # 0 /\ d[a] \in Nat
  <2>1. id \in Nat  BY SomeRevision DEF Ids
  <2>2. d[a] \in Nat  OBVIOUS
  <2> QED BY <2>1, <2>2
<1>4. NoOpening \in OpeningType(s) /\ NoClosing \in ClosingType
  BY ComponentsNamed, ResourceKinds
     DEF OpeningType, ClosingType, NoOpening, NoClosing, Answers, Waits, CloseStages, SessionOf,
         Duties, Claimed
<1>5. f \in LifeType(Ids(n), s)  BY <1>4 DEF NewLife, LifeType, Lives, OpeningType
<1>6. /\ f.life = "initializing" /\ f.id = id /\ f.ready = {} /\ f.closing.stage = "none"
      /\ f.opening.wait = "none" /\ f.opening.revision = 0 /\ f.parent = parent
  BY DEF NewLife, NoOpening, NoClosing
<1>7. Start(w, a, id, parent) = PrepareCreation(u, a)
  BY <1>1 DEF Start, WithLife, RegType
<1> HIDE DEF f
<1>8. Idle(f, h, l[a], a)
  <2>1. Executing(e, l[a])  BY DEF Tidy, Fits, Ordered
  <2>2. l[a].creation = 0
    <3> HIDE DEF e
    <3> QED BY <1>1, <1>2, <2>1 DEF Executing, Gone, Sound
  <2> QED BY <1>2, <1>6, <2>2 DEF Idle
<1>9. a \notin Roots => Inside(f, w.of[Parent[a]], Parent[a], h)
  <2> SUFFICES ASSUME a \notin Roots PROVE Inside(f, w.of[Parent[a]], Parent[a], h)
    OBVIOUS
  <2> DEFINE p == Parent[a] g == w.of[p]
  <2>1. p \in Agents  BY ParentFacts
  <2>2. g \in LifeType(Ids(n), s) /\ Sound(g) /\ Holding(g, h, p)  BY <2>1, LifeFacts
  <2>3. g.life = "available" /\ g.id = parent  OBVIOUS
  <2> HIDE DEF g, p
  <2>4. \A x \in Shared : <<p, g.id, x>> \in h  BY <2>2, <2>3, AvailableShares
  <2>5. g.closing.stage = "none"  BY <2>2, <2>3 DEF Sound
  <2>6. Inside(f, g, p, h)  BY <1>6, <2>3, <2>4, <2>5 DEF Inside, Gone
  <2> QED BY <2>6 DEF g, p
<1>10. <<a, id, "close">> \notin k
  <2>1. \A y \in k : y[1] = a => y[2] \in 0 .. d[a]  BY DEF Tidy, Fits, Meant
  <2> SUFFICES ASSUME <<a, id, "close">> \in k PROVE FALSE
    OBVIOUS
  <2>2. id \in 0 .. d[a]  BY <2>1
  <2> QED BY <1>3, <2>2
<1>11. Tidy(u, a, h, l, k, d2)
  <2>1. f.id \in Nat /\ d[a] < f.id /\ f.id <= d2[a]  BY <1>3, <1>6
  <2> HIDE DEF u, e
  <2> QED BY <1>1, <1>2, <1>5, <1>6, <1>8, <1>9, <2>1, LifeBegins DEF u, e
<1>12. u.of[a] = f
  <2> HIDE DEF u
  <2> QED BY <1>1, <1>5, WithLifeFacts DEF u
<1>13. Kept(u, h, d2, n, s)
  <2>1. Sound(f)  BY <1>3, <1>6 DEF Sound
  <2>2. Holding(f, h, a)  BY <1>2, <1>6 DEF Holding
  <2>3. Within(f, w.restarts[a].stage, w.seen, d2[a], n)
    <3>1. w.seen \in Nat  BY <1>1 DEF RegType
    <3> HIDE DEF e
    <3> QED BY <1>1, <1>6, <3>1 DEF Within
  <2> HIDE DEF u, e
  <2> QED BY <1>5, <2>1, <2>2, <2>3, OneLife DEF u
<1> HIDE DEF u
<1>14. Tidy(PrepareCreation(u, a), NoAgent, h, l, k, d2)
  <2>1. /\ u.of[a].id # 0 /\ u.of[a].life \in {"initializing", "closing"}
        /\ <<a, u.of[a].id, "close">> \notin k /\ a \in {a, NoAgent}
    BY <1>3, <1>6, <1>10, <1>12
  <2> QED BY <1>11, <1>13, <2>1, PrepareCreationTidy
<1> QED BY <1>7, <1>14

-----------------------------------------------------------------------------
(* Requests of callers.                                                    *)

\* A request is handed to the AgentLoop, or refused.
LEMMA VerifyTidy ==
  ASSUME NEW n \in Nat, NEW s, NEW w \in RegType(Ids(n), s), NEW x, NEW h, NEW l, NEW k,
         NEW d \in [Agents -> Nat], Tidy(w, x, h, l, k, d), NEW c \in Callers, NEW a \in Agents
  PROVE  Tidy(Verify(w, c, a), x, h, l, k, d)
<1>1. w.of[a].id \in Ids(n)  BY DEF RegType, LifeType
<1>2. "verify" \in Requested /\ "refused" \in Replies  BY DEF Requested, Replies
<1>3. Tidy(Park(w, c, "verify", a, w.of[a].id), x, h, l, k, d)  BY <1>1, <1>2, ParkTidy
<1>4. Tidy(Answer(w, {c}, "refused"), x, h, l, k, d)  BY <1>2, AnswerTidy
<1> QED BY <1>3, <1>4 DEF Verify

\* FindAgent changes no lifetime.
LEMMA ResolveTidy ==
  ASSUME NEW n \in Nat, NEW s, NEW w \in RegType(Ids(n), s), NEW x, NEW h, NEW l, NEW k,
         NEW d \in [Agents -> Nat], Tidy(w, x, h, l, k, d), NEW c \in Callers, NEW a \in Agents
  PROVE  Tidy(Resolve(w, c, a), x, h, l, k, d)
<1>1. w.of[a].id \in Ids(n) /\ 0 \in Ids(n)  BY ZeroIsId DEF RegType, LifeType
<1>2. "start" \in Requested /\ "restart" \in Requested /\ "refused" \in Replies
  BY DEF Requested, Replies
<1>3. Tidy(Park(w, c, "start", a, w.of[a].id), x, h, l, k, d)  BY <1>1, <1>2, ParkTidy
<1>4. Tidy(Park(w, c, "restart", a, 0), x, h, l, k, d)  BY <1>1, <1>2, ParkTidy
<1>5. Tidy(Answer(w, {c}, "refused"), x, h, l, k, d)  BY <1>2, AnswerTidy
<1>6. Tidy(Verify(w, c, a), x, h, l, k, d)  BY VerifyTidy
<1> QED BY <1>3, <1>4, <1>5, <1>6 DEF Resolve

\* CreateAgent begins only a lifetime that was never drawn, or reuses one.
LEMMA CreateAgentTidy ==
  ASSUME NEW n \in Nat, NEW s \in Nat, NEW w, NEW a \in Agents, NEW h, NEW l, NEW k,
         NEW d \in [Agents -> Nat], NEW d2 \in [Agents -> Nat], Kept(w, h, d2, n, s),
         Tidy(w, NoAgent, h, l, k, d), NEW c \in Callers, NEW id \in Ids(n), id # 0,
         d[a] < id \/ id = w.of[a].id, id <= d2[a],
         \A b \in Agents : d[b] <= d2[b] /\ (b # a => d2[b] = d[b]), NEW parent \in Ids(n),
         a \notin Roots /\ Admitted(w, Parent[a]) /\ Current(w, Parent[a], parent) =>
           w.of[Parent[a]].life = "available"
  PROVE  Tidy(CreateAgent(w, c, a, id, parent), NoAgent, h, l, k, d2)
<1>1. "start" \in Requested /\ "refused" \in Replies  BY DEF Requested, Replies
<1>2. w \in RegType(Ids(n), s) /\ Tidy(w, NoAgent, h, l, k, d2)  BY MoreDrawn DEF Kept
<1>3. Tidy(Answer(w, {c}, "refused"), NoAgent, h, l, k, d2)  BY <1>1, <1>2, AnswerTidy
<1>4. Tidy(Verify(w, c, a), NoAgent, h, l, k, d2)  BY <1>2, VerifyTidy
<1> DEFINE v == Park(w, c, "start", a, id)
<1>5. Kept(v, h, d2, n, s) /\ v = [w EXCEPT !.calls = v.calls]
  <2>1. n \in Nat /\ s \in Nat /\ Kept(w, h, d2, n, s) /\ id \in Ids(n)  OBVIOUS
  <2>2. Kept(v, h, d2, n, s)  BY <1>1, <2>1, ParkKeeps
  <2>3. v = [w EXCEPT !.calls = v.calls]  BY <1>1, <1>2, ParkFacts
  <2> QED BY <2>2, <2>3
<1>6. Tidy(v, NoAgent, h, l, k, d) /\ Tidy(v, NoAgent, h, l, k, d2)
  BY <1>1, <1>2, ParkTidy
<1>7. CASE Registered(w, a)
  <2>1. Tidy(Reuse(w, c, a, id, parent), NoAgent, h, l, k, d2)
    BY <1>3, <1>4, <1>6 DEF Reuse
  <2> QED BY <1>7, <2>1 DEF CreateAgent
<1>8. CASE ~Registered(w, a) /\ ReserveRefused(w, a, id, parent)
  BY <1>3, <1>8 DEF CreateAgent
<1>9. CASE ~Registered(w, a) /\ ~ReserveRefused(w, a, id, parent)
  <2>1. CreateAgent(w, c, a, id, parent) = Start(v, a, id, parent)  BY <1>9 DEF CreateAgent
  <2> HIDE DEF v
  <2>2. v.of = w.of  BY <1>2, <1>5 DEF RegType
  <2>3. ~Registered(v, a)  BY <1>9, <2>2 DEF Registered
  <2>4. d[a] < id
    <3>1. Sound(w.of[a])  BY LifeFacts
    <3>2. w.of[a].life \in {"absent", "closed"} /\ ~(w.of[a].life = "closed" /\ w.of[a].id = id)
      BY <1>9 DEF Registered, ReserveRefused
    <3>3. id # w.of[a].id  BY <3>1, <3>2 DEF Sound
    <3> QED BY <3>3
  <2>5. a \notin Roots => v.of[Parent[a]].life = "available" /\ v.of[Parent[a]].id = parent
    BY <1>9, <2>2 DEF ReserveRefused, Current
  <2>6. Tidy(Start(v, a, id, parent), NoAgent, h, l, k, d2)
    BY <1>5, <1>6, <2>3, <2>4, <2>5, StartTidy
  <2> QED BY <2>1, <2>6
<1> QED BY <1>7, <1>8, <1>9

\* A parent that is open and waits for nothing was published.
LEMMA CreateChildAgentTidy ==
  ASSUME NEW n \in Nat, NEW s \in Nat, NEW w, NEW a \in Agents \ Roots, NEW h, NEW l, NEW k,
         NEW d \in [Agents -> Nat], NEW d2 \in [Agents -> Nat], Kept(w, h, d2, n, s),
         Tidy(w, NoAgent, h, l, k, d), NEW c \in Callers, NEW id \in Ids(n), id # 0,
         d[a] < id \/ id = w.of[a].id, id <= d2[a],
         \A b \in Agents : d[b] <= d2[b] /\ (b # a => d2[b] = d[b]), NEW parent \in Ids(n)
  PROVE  Tidy(CreateChildAgent(w, c, a, id, parent), NoAgent, h, l, k, d2)
<1> DEFINE p == Parent[a]
           admits == Current(w, p, parent) /\ Admitted(w, p) /\
                     w.of[p].opening.on /\ w.of[p].opening.wait = "none"
<1>1. p \in Agents /\ p # NoAgent  BY ParentFacts, RegistryAssumption
<1>2. CASE admits
  <2>1. CreateChildAgent(w, c, a, id, parent) = CreateAgent(w, c, a, id, parent)
    BY <1>2 DEF CreateChildAgent
  <2>2. Settles(w.of[p], k, p)  BY <1>1 DEF Tidy
  <2>3. Open(w, p)  BY <1>2 DEF Admitted
  <2>4. w.of[p].life = "available"  BY <1>2, <2>2, <2>3 DEF Settles, Open
  <2>5. a \in Agents  OBVIOUS
  <2>6. Tidy(CreateAgent(w, c, a, id, parent), NoAgent, h, l, k, d2)
    BY <2>4, <2>5, CreateAgentTidy
  <2> QED BY <2>1, <2>6
<1>3. CASE ~admits
  <2>1. CreateChildAgent(w, c, a, id, parent) = Answer(w, {c}, "refused")
    BY <1>3 DEF CreateChildAgent
  <2>2. "refused" \in Replies  BY DEF Replies
  <2>3. w \in RegType(Ids(n), s) /\ Tidy(w, NoAgent, h, l, k, d2)  BY MoreDrawn DEF Kept
  <2>4. Tidy(Answer(w, {c}, "refused"), NoAgent, h, l, k, d2)  BY <2>2, <2>3, AnswerTidy
  <2> QED BY <2>1, <2>4
<1> QED BY <1>2, <1>3

-----------------------------------------------------------------------------
(* The steps.                                                              *)

\* What a lifetime drawn by a caller says of those drawn so far.
LEMMA DrawnFacts ==
  ASSUME ListedInv, NEW a \in Agents, NEW id \in Identities(a), Drawn(a, id)
  PROVE  /\ spent.created[a] < id \/ id = reg.of[a].id
         /\ \A b \in Agents :
              /\ spent.created[b] <= spent'.created[b]
              /\ b # a => spent'.created[b] = spent.created[b]
<1> DEFINE d == spent.created next == IF id > d[a] THEN id ELSE d[a]
<1>1. d \in [Agents -> Nat] /\ spent'.created \in [Agents -> Nat]
  BY ListedFacts, DrawnKeeps
<1>2. spent \in [of : Settings, created : [Agents -> Lifetimes], lost : Nat, faults : Nat]
  BY DEF ListedInv, OthersInv, SpentType
<1>3. spent'.created = [d EXCEPT ![a] = next]  BY <1>2 DEF Drawn
<1>4. id = d[a] + 1 \/ id = reg.of[a].id  BY DEF Identities
<1> HIDE DEF d
<1>5. next = id \/ next = d[a]  OBVIOUS
<1>6. d[a] \in Nat  BY <1>1
<1>7. d[a] < id \/ id = reg.of[a].id  BY <1>4, <1>6
<1>8. d[a] <= next /\ spent'.created[a] = next
  <2>1. next \in Nat  BY <1>1, <1>3
  <2>2. spent'.created[a] = next  BY <1>1, <1>3
  <2>3. CASE id > d[a]
    <3>1. next = id  BY <2>3
    <3>2. id \in Nat  BY <2>1, <3>1
    <3> HIDE DEF next
    <3> QED BY <1>6, <2>2, <2>3, <3>1, <3>2
  <2>4. CASE ~(id > d[a])
    <3>1. next = d[a]  BY <2>4
    <3> HIDE DEF next
    <3> QED BY <1>6, <2>2, <3>1
  <2> QED BY <2>3, <2>4
<1>9. \A b \in Agents : b # a => spent'.created[b] = d[b]  BY <1>1, <1>3
<1>10. \A b \in Agents : d[b] \in Nat  BY <1>1
<1> HIDE DEF next
<1> QED BY <1>7, <1>8, <1>9, <1>10 DEF d

\* What the invariant says at a step.
LEMMA NestedFacts ==
  ASSUME NestedInv
  PROVE  /\ ListedInv /\ Creations \in Nat /\ saved \in Nat
         /\ spent.created \in [Agents -> Nat] /\ Lifetimes = Ids(Creations)
         /\ Kept(reg, held, spent.created, Creations, saved)
         /\ reg \in RegType(Ids(Creations), saved)
         /\ reg.of \in [Agents -> LifeType(Ids(Creations), saved)]
         /\ Tidy(reg, NoAgent, held, loops, asked, spent.created)
<1>1. ListedInv /\ Tidy(reg, NoAgent, held, loops, asked, spent.created)  BY DEF NestedInv
<1> QED BY <1>1, ListedFacts

\* A step of the Registry, or of an owner that holds nothing afterwards it did not.
LEMMA NestedStep ==
  ASSUME NestedInv, ListedInv', UNCHANGED <<Outside, asked>>, Fault \/ UNCHANGED spent,
         Tidy(reg', NoAgent, held, loops, asked, spent.created)
  PROVE  NestedInv'
<1>1. held' = held /\ loops' = loops /\ asked' = asked  BY DEF Outside
<1>2. spent'.created = spent.created  BY FaultFacts DEF NestedInv
<1>3. Tidy(reg', NoAgent, held', loops', asked', spent'.created)  BY <1>1, <1>2
<1> QED BY <1>3 DEF NestedInv

\* A caller creates a root Agent.
LEMMA NestedCreate ==
  ASSUME NestedInv, NEW c \in Callers, NEW a \in Agents, NEW id \in Identities(a), Create(c, a, id)
  PROVE  NestedInv'
<1>1. /\ Drawn(a, id) /\ reg' = CreateAgent(reg, c, a, id, 0) /\ a \in Roots
      /\ held' = held /\ loops' = loops /\ asked' = asked
  BY DEF Create, Outside
<1>2. ListedInv'  BY CreateStep DEF NestedInv
<1>3. /\ Kept(reg, held, spent'.created, Creations, saved)
      /\ id \in Ids(Creations) /\ id # 0 /\ id <= spent'.created[a]
      /\ spent'.created \in [Agents -> Nat]
  BY <1>1, NestedFacts, DrawnKeeps
<1>4. /\ spent.created[a] < id \/ id = reg.of[a].id
      /\ \A b \in Agents : /\ spent.created[b] <= spent'.created[b]
                           /\ b # a => spent'.created[b] = spent.created[b]
  BY <1>1, NestedFacts, DrawnFacts
<1>5. /\ Creations \in Nat /\ saved \in Nat /\ 0 \in Ids(Creations)
      /\ spent.created \in [Agents -> Nat]
      /\ Tidy(reg, NoAgent, held, loops, asked, spent.created)
  BY NestedFacts, ZeroIsId
<1>6. Tidy(CreateAgent(reg, c, a, id, 0), NoAgent, held, loops, asked, spent'.created)
  BY <1>1, <1>3, <1>4, <1>5, CreateAgentTidy
<1> QED BY <1>1, <1>2, <1>6 DEF NestedInv

\* A caller creates a child under a parent it names.
LEMMA NestedCreateChild ==
  ASSUME NestedInv, NEW c \in Callers, NEW a \in Agents, NEW id \in Identities(a),
         NEW parent \in 1 .. spent.of.creations, CreateChild(c, a, id, parent)
  PROVE  NestedInv'
<1>1. /\ Drawn(a, id) /\ reg' = CreateChildAgent(reg, c, a, id, parent) /\ a \in Agents \ Roots
      /\ held' = held /\ loops' = loops /\ asked' = asked
  BY DEF CreateChild, Outside
<1>2. ListedInv'  BY CreateChildStep DEF NestedInv
<1>3. /\ Kept(reg, held, spent'.created, Creations, saved)
      /\ id \in Ids(Creations) /\ id # 0 /\ id <= spent'.created[a]
      /\ spent'.created \in [Agents -> Nat]
  BY <1>1, NestedFacts, DrawnKeeps
<1>4. /\ spent.created[a] < id \/ id = reg.of[a].id
      /\ \A b \in Agents : /\ spent.created[b] <= spent'.created[b]
                           /\ b # a => spent'.created[b] = spent.created[b]
  BY <1>1, NestedFacts, DrawnFacts
<1>5. /\ Creations \in Nat /\ saved \in Nat /\ spent.created \in [Agents -> Nat]
      /\ Tidy(reg, NoAgent, held, loops, asked, spent.created)
  BY NestedFacts
<1>6. parent \in Ids(Creations)  BY <1>5, SomeRevision DEF Ids, Creations
<1>7. Tidy(CreateChildAgent(reg, c, a, id, parent), NoAgent, held, loops, asked, spent'.created)
  BY <1>1, <1>3, <1>4, <1>5, <1>6, CreateChildAgentTidy
<1> QED BY <1>1, <1>2, <1>7 DEF NestedInv

\* A caller looks an Agent up, waiting for it or not.
LEMMA NestedFind ==
  ASSUME NestedInv, NEW c \in Callers, NEW a \in Agents, NEW wait \in BOOLEAN, Find(c, a, wait)
  PROVE  NestedInv'
<1>1. /\ Creations \in Nat /\ reg \in RegType(Ids(Creations), saved)
      /\ spent.created \in [Agents -> Nat]
      /\ Tidy(reg, NoAgent, held, loops, asked, spent.created)
  BY NestedFacts
<1>2. Tidy(Resolve(reg, c, a), NoAgent, held, loops, asked, spent.created)  BY <1>1, ResolveTidy
<1>3. Tidy(Verify(reg, c, a), NoAgent, held, loops, asked, spent.created)  BY <1>1, VerifyTidy
<1>4. UNCHANGED <<Outside, spent, asked>> /\ reg' \in {Resolve(reg, c, a), Verify(reg, c, a)}
  BY DEF Find
<1>5. ListedInv'  BY FindStep DEF NestedInv
<1> QED BY <1>2, <1>3, <1>4, <1>5, NestedStep

\* A caller closes the lifetime it names, or nothing.
LEMMA NestedClose ==
  ASSUME NestedInv, NEW c \in Callers, NEW a \in Agents, NEW id \in 1 .. spent.created[a],
         Close(c, a, id)
  PROVE  NestedInv'
<1> DEFINE d == spent.created n == Creations s == saved u == CancelRestarts(reg, a)
           k2 == asked \cup {<<a, id, "close">>}
<1>1. /\ n \in Nat /\ s \in Nat /\ d \in [Agents -> Nat] /\ Lifetimes = Ids(n)
      /\ Kept(reg, held, d, n, s) /\ reg \in RegType(Ids(n), s)
      /\ Tidy(reg, NoAgent, held, loops, asked, d)
  BY NestedFacts
<1>2. id \in Ids(n) /\ id # 0 /\ id \in 0 .. d[a]
  <2>1. d[a] \in Ids(n) /\ d[a] \in Nat  BY <1>1 DEF NestedInv, ListedInv, OthersInv, SpentType
  <2>2. id \in 1 .. d[a]  OBVIOUS
  <2> HIDE DEF d, n
  <2> QED BY <1>1, <2>1, <2>2, SomeRevision DEF Ids
<1>3. ListedInv'  BY CloseStep DEF NestedInv
<1>4. /\ reg' = CloseAgent(CancelNamed(reg, a, id), c, a, id)
      /\ asked' = IF Current(reg, a, id) THEN k2 ELSE asked
      /\ held' = held /\ loops' = loops /\ spent' = spent
  BY DEF Close, Outside
<1>5. "close" \in Requested /\ "refused" \in Replies /\ "closed" \in Replies
  BY DEF Requested, Replies
<1> HIDE DEF d, n, s, k2
<1>6. CASE Current(reg, a, id)
  <2>1. reg.of[a].id = id /\ reg.of[a].life # "closed"  BY <1>6 DEF Current
  <2>2. CancelNamed(reg, a, id) = u  BY <2>1 DEF CancelNamed
  <2> HIDE DEF u
  <2>3. Kept(u, held, d, n, s) /\ u.of = reg.of
    <3>1. n \in Nat /\ s \in Nat /\ Kept(reg, held, d, n, s)  BY <1>1
    <3> QED BY <3>1, CancelRestartsKeeps DEF u
  <2>4. Tidy(u, a, held, loops, k2, d)
    <3>1. reg.of[a].id \in 0 .. d[a] /\ k2 = asked \cup {<<a, reg.of[a].id, "close">>}
      BY <1>2, <2>1 DEF k2
    <3> QED BY <1>1, <2>1, <3>1, AskTidy DEF u
  <2> DEFINE v == Park(u, c, "close", a, id)
  <2>5. CloseAgent(u, c, a, id) = ScheduleClose(v, a)
    BY <1>6, <2>1, <2>3 DEF CloseAgent, Current
  <2>6. u \in RegType(Ids(n), s)  BY <2>3 DEF Kept
  <2>7. /\ Kept(v, held, d, n, s) /\ v = [u EXCEPT !.calls = v.calls]
    <3>1. n \in Nat /\ s \in Nat  BY <1>1
    <3>2. Kept(v, held, d, n, s)  BY <1>2, <1>5, <2>3, <3>1, ParkKeeps
    <3>3. v = [u EXCEPT !.calls = v.calls]  BY <1>2, <1>5, <2>6, ParkFacts
    <3> QED BY <3>2, <3>3
  <2>8. Tidy(v, a, held, loops, k2, d)
    BY <1>1, <1>2, <1>5, <2>4, <2>6, ParkTidy
  <2> HIDE DEF v
  <2>9. v.of[a] = reg.of[a]  BY <2>3, <2>6, <2>7 DEF RegType
  <2>10. v.of[a].life \notin Gone
    <3>1. n \in Nat /\ s \in Nat /\ Kept(reg, held, d, n, s)  BY <1>1
    <3>2. reg.of[a].life \notin {"absent", "closed"}  BY <1>6, <3>1, CurrentIsRegistered
    <3> QED BY <2>9, <3>2 DEF Gone
  <2>11. Due(v.of[a], Over(v, a), v.restarts[a], v.stopped, k2, a)
    BY <2>1, <2>9 DEF Due, k2
  <2>12. Tidy(ScheduleClose(v, a), NoAgent, held, loops, k2, d)
    <3>1. a \in {a, NoAgent}  OBVIOUS
    <3> QED BY <1>1, <2>7, <2>8, <2>10, <2>11, <3>1, ScheduleCloseTidy
  <2> QED BY <1>3, <1>4, <1>6, <2>2, <2>5, <2>12 DEF NestedInv, d
<1>7. CASE ~Current(reg, a, id)
  <2>1. CancelNamed(reg, a, id) \in {reg, u} /\ (reg.of[a].id # id => CancelNamed(reg, a, id) = reg)
    BY DEF CancelNamed
  <2> DEFINE w == CancelNamed(reg, a, id)
  <2>2. w.of = reg.of /\ w \in RegType(Ids(n), s) /\ Tidy(w, NoAgent, held, loops, asked, d)
    <3>1. CASE reg.of[a].id # id  BY <1>1, <2>1, <3>1
    <3>2. CASE reg.of[a].id = id
      <4>1. reg.of[a].life = "closed"  BY <1>2, <1>7, <3>2 DEF Current
      <4>2. w = u  BY <3>2 DEF CancelNamed
      <4>3. u.of = reg.of /\ u \in RegType(Ids(n), s)
        <5>1. n \in Nat /\ s \in Nat /\ Kept(reg, held, d, n, s)  BY <1>1
        <5>2. Kept(u, held, d, n, s) /\ u.of = reg.of  BY <5>1, CancelRestartsKeeps
        <5> QED BY <5>2 DEF Kept
      <4>4. Tidy(u, NoAgent, held, loops, asked, d)
        BY <1>1, <4>1, CancelClosedTidy
      <4> QED BY <4>2, <4>3, <4>4
    <3> QED BY <3>1, <3>2
  <2> HIDE DEF w
  <2>3. CloseAgent(w, c, a, id) \in {Answer(w, {c}, "closed"), Answer(w, {c}, "refused")}
    BY <1>7, <2>2 DEF CloseAgent, Current
  <2>4. Tidy(Answer(w, {c}, "closed"), NoAgent, held, loops, asked, d)
    BY <1>1, <1>5, <2>2, AnswerTidy
  <2>5. Tidy(Answer(w, {c}, "refused"), NoAgent, held, loops, asked, d)
    BY <1>1, <1>5, <2>2, AnswerTidy
  <2> QED BY <1>3, <1>4, <1>7, <2>3, <2>4, <2>5 DEF NestedInv, w, d
<1> QED BY <1>6, <1>7

\* The server stops admission: every replacement is called off, for that reason.
LEMMA NestedStopAdmission == ASSUME NestedInv, StopAdmission PROVE NestedInv'
<1> DEFINE n == Creations d == spent.created
           u == Answer(reg, {c \in Callers : reg.calls[c].on = "restart"}, "refused")
           rs == [a \in Agents |-> NoRestart]
           v == [u EXCEPT !.stopped = TRUE, !.restarts = rs]
<1>1. /\ n \in Nat /\ 0 \in Ids(n) /\ reg \in RegType(Ids(n), saved) /\ d \in [Agents -> Nat]
      /\ Tidy(reg, NoAgent, held, loops, asked, d)
  BY NestedFacts, ZeroIsId
<1>2. reg' = v /\ UNCHANGED <<Outside, spent, asked>>  BY DEF StopAdmission
<1>3. u \in RegType(Ids(n), saved) /\ u = [reg EXCEPT !.calls = u.calls]
  <2> DEFINE who == {c \in Callers : reg.calls[c].on = "restart"}
  <2>1. "refused" \in Replies  BY DEF Replies
  <2> HIDE DEF n, who
  <2>2. /\ Answer(reg, who, "refused") \in RegType(Ids(n), saved)
        /\ Answer(reg, who, "refused") = [reg EXCEPT !.calls = Answer(reg, who, "refused").calls]
    BY <1>1, <2>1, AnswerFacts
  <2> QED BY <2>2 DEF who
<1> HIDE DEF u
<1>4. \A a \in Agents : rs[a].stage = "none" /\ rs[a].of = 0  BY DEF NoRestart
<1> HIDE DEF rs, d, n
<1>5. v.of = reg.of /\ v.restarts = rs /\ v.stopped /\ v.selfCloses = reg.selfCloses
  BY <1>1, <1>3 DEF RegType
<1> HIDE DEF v
<1>6. Tidy(v, NoAgent, held, loops, asked, d)
  <2> SUFFICES ASSUME NEW b \in Agents PROVE Fits(v, held, loops, asked, d, b)
    BY <1>1, <1>5 DEF Tidy
  <2>1. Fits(reg, held, loops, asked, d, b) /\ d[b] \in Nat  BY <1>1 DEF Tidy
  <2> DEFINE e == reg.of[b] r == rs[b]
  <2>2. Meant(e, reg.restarts[b], reg.stopped, reg.selfCloses, asked, d[b], b)  BY <2>1 DEF Fits
  <2>3. r.stage = "none" /\ r.of = 0 /\ 0 \in 0 .. d[b]  BY <1>4, <2>1
  <2> HIDE DEF e, r
  <2>4. Meant(e, r, TRUE, reg.selfCloses, asked, d[b], b)  BY <2>2, <2>3 DEF Meant
  <2>5. Reason(e, Over(v, b), r, TRUE, asked, b)  BY DEF Reason, Due
  <2>6. v.stopped = TRUE
    <3>1. v.stopped \in BOOLEAN  BY <1>2, <1>3 DEF v
    <3> QED BY <1>5, <3>1
  <2> QED BY <1>5, <2>1, <2>4, <2>5, <2>6 DEF Fits, e, r
<1>7. ListedInv'  BY StopAdmissionStep DEF NestedInv
<1> QED BY <1>2, <1>6, <1>7, NestedStep DEF d

\* An AgentLoop that answers for itself changes no lifetime.
LEMMA NestedVerifyAnswers ==
  ASSUME NestedInv, NEW c \in Callers, VerifyAnswers(c)
  PROVE  NestedInv'
<1>1. PICK on \in {"verified", "stale", "undelivered"} : reg' = [reg EXCEPT !.calls[c].on = on]
  BY DEF VerifyAnswers
<1>2. (Fault \/ UNCHANGED spent) /\ UNCHANGED <<Outside, asked>>
  BY DEF VerifyAnswers
<1>3. /\ reg \in RegType(Ids(Creations), saved) /\ spent.created \in [Agents -> Nat]
      /\ Tidy(reg, NoAgent, held, loops, asked, spent.created)
  BY NestedFacts
<1>4. /\ reg'.of = reg.of /\ reg'.stopped = reg.stopped /\ reg'.selfCloses = reg.selfCloses
      /\ reg'.restarts = reg.restarts
  BY <1>1, <1>3 DEF RegType
<1>5. Tidy(reg', NoAgent, held, loops, asked, spent.created)
  BY <1>3, <1>4, Proceeds DEF Onward
<1>6. ListedInv'  BY VerifyAnswersStep DEF NestedInv
<1> QED BY <1>2, <1>5, <1>6, NestedStep

\* More lifetimes are found lost.
LEMMA MoreLost ==
  ASSUME NEW w, NEW x, NEW h, NEW l, NEW k, NEW d, Tidy(w, x, h, l, k, d), NEW a,
         NEW id \in 0 .. d[a]
  PROVE  Tidy(w, x, h, l, k \cup {<<a, id, "lost">>}, d)
<1> DEFINE k2 == k \cup {<<a, id, "lost">>}
<1>1. /\ \A b, i : <<b, i, "close">> \in k2 <=> <<b, i, "close">> \in k
      /\ \A b, i : <<b, i, "lost">> \in k => <<b, i, "lost">> \in k2
      /\ \A y \in k2 : y \in k \/ (y[1] = a /\ y[2] = id)
  OBVIOUS
<1> HIDE DEF k2
<1> SUFFICES ASSUME NEW b \in Agents
             PROVE  Fits(w, h, l, k2, d, b) /\ (b # x => Settles(w.of[b], k2, b))
  BY DEF Tidy, k2
<1>2. Fits(w, h, l, k, d, b) /\ (b # x => Settles(w.of[b], k, b))  BY DEF Tidy
<1> DEFINE e == w.of[b] r == w.restarts[b] o == Over(w, b)
<1>3. Meant(e, r, w.stopped, w.selfCloses, k, d[b], b) /\ Reason(e, o, r, w.stopped, k, b)
  BY <1>2 DEF Fits
<1>4. \A y \in k2 : y[1] = b => y \in k \/ y[2] \in 0 .. d[b]
  <2>1. a = b => id \in 0 .. d[b]  OBVIOUS
  <2> QED BY <1>1, <2>1
<1> HIDE DEF e, r, o
<1>5. Meant(e, r, w.stopped, w.selfCloses, k2, d[b], b)  BY <1>1, <1>3, <1>4 DEF Meant
<1>6. Reason(e, o, r, w.stopped, k2, b)  BY <1>1, <1>3 DEF Reason, Due
<1>7. b # x => Settles(e, k2, b)  BY <1>1, <1>2 DEF Settles, e
<1> QED BY <1>2, <1>5, <1>6, <1>7 DEF Fits, e, r, o

\* A lifetime that its AgentLoop does not execute any more closes as lost.
LEMMA NestedVerified ==
  ASSUME NestedInv, NEW c \in Callers, Verified(c)
  PROVE  NestedInv'
<1> DEFINE n == Creations d == spent.created a == reg.calls[c].agent id == reg.calls[c].id
           stale == Current(reg, a, id) /\ reg.calls[c].on = "stale"
           k2 == asked \cup {<<a, reg.of[a].id, "lost">>}
<1>1. /\ n \in Nat /\ saved \in Nat /\ d \in [Agents -> Nat] /\ Kept(reg, held, d, n, saved)
      /\ reg \in RegType(Ids(n), saved) /\ Tidy(reg, NoAgent, held, loops, asked, d)
  BY NestedFacts
<1>2. a \in Agents  BY <1>1 DEF Verified, RegType, CallType
<1>3. PICK got \in {"ready", "refused"} :
        reg' = Answer(IF stale THEN BeginClose(reg, a) ELSE reg, {c}, got)
  BY DEF Verified
<1>4. /\ asked' = IF stale THEN k2 ELSE asked
      /\ held' = held /\ loops' = loops /\ spent' = spent
  BY DEF Verified, Outside
<1>5. ListedInv'  BY VerifiedStep DEF NestedInv
<1>6. got \in Replies  BY DEF Replies
<1> HIDE DEF n, d, a, id
<1>7. CASE stale
  <2>1. reg.of[a].life \notin {"absent", "closed"}
    BY <1>1, <1>2, <1>7, CurrentIsRegistered
  <2>2. reg.of[a].id \in 0 .. d[a]
    <3>1. reg.of[a] \in LifeType(Ids(n), saved)
          /\ Within(reg.of[a], reg.restarts[a].stage, reg.seen, d[a], n)
      BY <1>1, <1>2, LifeFacts
    <3>2. reg.of[a].id \in Nat  BY <1>1, <3>1, SomeRevision DEF LifeType, Ids
    <3> QED BY <1>1, <1>2, <3>1, <3>2 DEF Within
  <2>3. Tidy(reg, NoAgent, held, loops, k2, d)  BY <1>1, <2>2, MoreLost
  <2>4. Due(reg.of[a], Over(reg, a), reg.restarts[a], reg.stopped, k2, a)  BY DEF Due
  <2> HIDE DEF k2
  <2>5. Tidy(BeginClose(reg, a), NoAgent, held, loops, k2, d)
    <3>1. NoAgent \in {a, NoAgent}  OBVIOUS
    <3> QED BY <1>1, <1>2, <2>1, <2>3, <2>4, <3>1, BeginCloseTidy DEF Gone
  <2>6. BeginClose(reg, a) \in RegType(Ids(n), saved)
    <3>1. Kept(BeginClose(reg, a), held, d, n, saved)
      BY <1>1, <1>2, <2>1, BeginCloseKeeps
    <3> QED BY <3>1 DEF Kept
  <2>7. Tidy(Answer(BeginClose(reg, a), {c}, got), NoAgent, held, loops, k2, d)
    BY <1>1, <1>6, <2>5, <2>6, AnswerTidy
  <2> QED BY <1>3, <1>4, <1>5, <1>7, <2>7 DEF NestedInv, d
<1>8. CASE ~stale
  <2>1. Tidy(Answer(reg, {c}, got), NoAgent, held, loops, asked, d)
    BY <1>1, <1>6, AnswerTidy
  <2> QED BY <1>3, <1>4, <1>5, <1>8, <2>1 DEF NestedInv, d
<1> QED BY <1>7, <1>8

\* Saving Settings changes no lifetime.
LEMMA NestedSave == ASSUME NestedInv, Save PROVE NestedInv'
<1>1. UNCHANGED <<reg, held, loops, spent, asked>>  BY DEF Save
<1>2. ListedInv'  BY SaveStep DEF NestedInv
<1> QED BY <1>1, <1>2 DEF NestedInv

\* A notice of newer Settings begins the replacements of roots it asks for.
LEMMA NestedChangeNotice == ASSUME NestedInv, ChangeNotice PROVE NestedInv'
<1> DEFINE n == Creations d == spent.created m == Head(notices) u == [reg EXCEPT !.seen = m]
<1>1. /\ n \in Nat /\ saved \in Nat /\ d \in [Agents -> Nat] /\ Kept(reg, held, d, n, saved)
      /\ reg \in RegType(Ids(n), saved) /\ Tidy(reg, NoAgent, held, loops, asked, d)
  BY NestedFacts
<1>2. m \in 1 .. saved
  <2>1. notices \in Seq(1 .. saved) /\ notices # <<>>
    BY DEF NestedInv, ListedInv, OthersInv, ChangeNotice
  <2> QED BY <2>1, HeadTailProperties
<1>3. /\ \/ reg' = reg
         \/ ~(m <= reg.seen) /\ reg' = RestartChanged(u)
      /\ UNCHANGED <<held, loops, spent, asked>>
  BY DEF ChangeNotice
<1>4. ListedInv'  BY ChangeNoticeStep DEF NestedInv
<1> HIDE DEF n, d, m
<1>5. CASE ~(m <= reg.seen) /\ reg' = RestartChanged(u)
  <2>1. reg.seen <= m /\ m \in 0 .. saved  BY <1>1, <1>2, <1>5 DEF RegType
  <2>2. Kept(u, held, d, n, saved)  BY <1>1, <2>1, SeenKeeps
  <2>3. /\ u.of = reg.of /\ u.stopped = reg.stopped /\ u.selfCloses = reg.selfCloses
        /\ u.restarts = reg.restarts
    BY <1>1 DEF RegType
  <2> HIDE DEF u
  <2>4. Tidy(u, NoAgent, held, loops, asked, d)  BY <1>1, <2>3, Proceeds DEF Onward
  <2>5. Tidy(RestartChanged(u), NoAgent, held, loops, asked, d)
    BY <1>1, <2>2, <2>4, RestartChangedTidy
  <2> QED BY <1>3, <1>4, <1>5, <2>5 DEF NestedInv, d
<1>6. CASE reg' = reg
  BY <1>1, <1>3, <1>4, <1>6 DEF NestedInv, d
<1> QED BY <1>3, <1>5, <1>6

\* The answer of the Settings owner reaches a root, which only waits for it.
LEMMA NestedReadSettings ==
  ASSUME NestedInv, NEW a \in Agents, ReadSettings(a)
  PROVE  NestedInv'
<1> DEFINE n == Creations d == spent.created e == reg.of[a]
<1>1. /\ n \in Nat /\ saved \in Nat /\ e \in LifeType(Ids(n), saved)
      /\ reg \in RegType(Ids(n), saved) /\ Tidy(reg, NoAgent, held, loops, asked, d)
  BY NestedFacts
<1>2. PICK answer \in {"ok", "failed"}, read \in 0 .. saved :
        reg' = WithLife(reg, a, [e EXCEPT !.opening.answer = answer, !.opening.read = read])
  BY NestedFacts, ReadSettingsAnswers
<1>3. /\ e.opening.wait = "settings" /\ (Fault \/ UNCHANGED spent) /\ UNCHANGED <<Outside, asked>>
  BY DEF ReadSettings, Awaits, Opening
<1>4. e.life \in {"initializing", "closing"} /\ e.closing.stage = "none"
  BY <1>3, NestedFacts, AwaitingFacts DEF Opening
<1>5. ListedInv'  BY ReadSettingsStep DEF NestedInv
<1>6. /\ Ordered(e, held, loops[a], a) /\ Reason(e, Over(reg, a), reg.restarts[a], reg.stopped, asked, a)
      /\ Settles(e, asked, a)
  BY <1>1, RegistryAssumption DEF Tidy, Fits
<1> DEFINE f == [e EXCEPT !.opening.answer = answer, !.opening.read = read]
<1>7. f \in LifeType(Ids(n), saved)  BY <1>1 DEF LifeType, OpeningType, Answers
<1>8. /\ f.life = e.life /\ f.failed = e.failed /\ f.id = e.id /\ f.parent = e.parent
      /\ f.owned = e.owned /\ f.ready = e.ready /\ f.closing = e.closing
      /\ f.instance = e.instance /\ f.opening.wait = "settings"
      /\ f.opening.revision = e.opening.revision
  BY <1>1, <1>3 DEF LifeType, OpeningType
<1> HIDE DEF f, e, n, d
<1>9. Ordered(f, held, loops[a], a)
  BY <1>3, <1>4, <1>6, <1>8 DEF Ordered, Beside, Starting, Releasing, Executing
<1>10. Continues(e, f)  BY <1>4, <1>8 DEF Continues, Gone
<1>11. Reason(f, Over(reg, a), reg.restarts[a], reg.stopped, asked, a)
  BY <1>6, <1>8 DEF Reason, Due
<1>12. Settles(f, asked, a)  BY <1>3, <1>6, <1>8 DEF Settles
<1>13. Tidy(WithLife(reg, a, f), NoAgent, held, loops, asked, d)
  <2>1. f.closing.stage # "asked" /\ NoAgent \in {a, NoAgent}  BY <1>4, <1>8
  <2> QED BY <1>1, <1>7, <1>9, <1>10, <1>11, <1>12, <2>1, LifeGoesOn DEF e
<1> QED BY <1>2, <1>3, <1>5, <1>13, NestedStep DEF f, d

\* The revision of a root is read before anything is started.
LEMMA InstalledTidy ==
  ASSUME NEW n, NEW s \in Nat, NEW w \in RegType(Ids(n), s), NEW a \in Roots, NEW m \in 0 .. s,
         NEW h, NEW l, NEW k, NEW d \in [Agents -> Nat], Tidy(w, a, h, l, k, d),
         w.of[a].life \notin Gone
  PROVE  Tidy(Installed(w, a, m), a, h, l, k, d)
<1> DEFINE e == w.of[a] f == [e EXCEPT !.opening.revision = m] u == [w EXCEPT !.seen = m]
<1>1. a \in Agents /\ e \in LifeType(Ids(n), s)  BY DEF RegType, Roots
<1>2. /\ u \in RegType(Ids(n), s) /\ u.of = w.of /\ u.restarts = w.restarts
      /\ u.stopped = w.stopped /\ u.selfCloses = w.selfCloses
  BY DEF RegType
<1>3. f \in LifeType(Ids(n), s)  BY <1>1 DEF LifeType, OpeningType
<1>4. /\ f.life = e.life /\ f.failed = e.failed /\ f.id = e.id /\ f.parent = e.parent
      /\ f.owned = e.owned /\ f.ready = e.ready /\ f.closing = e.closing
      /\ f.instance = e.instance /\ f.opening.wait = e.opening.wait
      /\ f.opening.component = e.opening.component /\ f.opening.answer = e.opening.answer
  BY <1>1 DEF LifeType, OpeningType
<1>5. Installed(w, a, m) = WithLife(u, a, f)  BY DEF Installed
<1> HIDE DEF u
<1>6. Tidy(u, a, h, l, k, d)  BY <1>2, Proceeds DEF Onward
<1>7. /\ Ordered(e, h, l[a], a) /\ Reason(e, Over(u, a), u.restarts[a], u.stopped, k, a)
      /\ e.life \notin Gone /\ u.of[a] = e
  BY <1>1, <1>2, <1>6 DEF Tidy, Fits
<1> HIDE DEF f, e
<1>8. Ordered(f, h, l[a], a)
  BY <1>4, <1>7 DEF Ordered, Beside, Starting, Releasing, Executing
<1>9. Continues(u.of[a], f)  BY <1>4, <1>7 DEF Continues
<1>10. Reason(f, Over(u, a), u.restarts[a], u.stopped, k, a)  BY <1>4, <1>7 DEF Reason, Due
<1>11. Tidy(WithLife(u, a, f), a, h, l, k, d)
  <2>1. f.closing.stage = u.of[a].closing.stage /\ f.closing.resource = u.of[a].closing.resource
    BY <1>4, <1>7
  <2>2. a \in {a, NoAgent}  OBVIOUS
  <2> QED BY <1>1, <1>2, <1>3, <1>6, <1>8, <1>9, <1>10, <2>1, <2>2, LifeGoesOn
<1> QED BY <1>5, <1>11

\* A root goes on with the Settings it read, or fails.
LEMMA NestedConfigurationPrepared ==
  ASSUME NestedInv, NEW a \in Agents, ConfigurationPrepared(a)
  PROVE  NestedInv'
<1> DEFINE n == Creations d == spent.created read == Opening(a).read settled == Settled(reg, a)
<1>1. /\ n \in Nat /\ saved \in Nat /\ d \in [Agents -> Nat] /\ Kept(reg, held, d, n, saved)
      /\ reg \in RegType(Ids(n), saved) /\ Tidy(reg, NoAgent, held, loops, asked, d)
  BY NestedFacts
<1>2. /\ Opening(a).wait = "settings" /\ UNCHANGED <<Outside, spent, asked>>
      /\ \/ reg' = FinishCreation(settled, a, TRUE)
         \/ Admitted(reg, a) /\ reg' = PrepareCreation(settled, a)
         \/ /\ Admitted(reg, a) /\ reg.seen <= read /\ read \in 0 .. saved
            /\ reg' = RunCreation(Installed(settled, a, read), a)
  BY NestedFacts, ConfigurationPreparedRuns
<1>3. reg.of[a].id # 0 /\ reg.of[a].life \in {"initializing", "closing"}
  BY <1>2, NestedFacts, AwaitingFacts
<1>4. reg.of[a].life = "initializing" => <<a, reg.of[a].id, "close">> \notin asked
  <2>1. Settles(reg.of[a], asked, a)  BY <1>1, RegistryAssumption DEF Tidy
  <2> QED BY <2>1 DEF Settles
<1>5. a \in Roots
  <2>1. Starting(reg.of[a], held, loops[a], a)  BY <1>1 DEF Tidy, Fits, Ordered
  <2> QED BY <1>2, <2>1 DEF Starting, Opening
<1>6. ListedInv'  BY ConfigurationPreparedStep DEF NestedInv
<1> HIDE DEF n, d, read
<1>7. /\ Kept(settled, held, d, n, saved) /\ settled.of[a].life = reg.of[a].life
      /\ settled.of[a].id = reg.of[a].id /\ settled.seen = reg.seen
  <2>1. n \in Nat /\ saved \in Nat /\ Kept(reg, held, d, n, saved)  BY <1>1
  <2> QED BY <2>1, SettledKeeps
<1>8. Tidy(settled, a, held, loops, asked, d)
  <2>1. reg.of[a].life \notin Gone /\ NoAgent \in {a, NoAgent}  BY <1>3 DEF Gone
  <2> QED BY <1>1, <2>1, SettledTidy
<1> HIDE DEF settled
<1>9. /\ settled.of[a].id # 0 /\ settled.of[a].life \in {"initializing", "closing"}
      /\ settled.of[a].life = "initializing" => <<a, settled.of[a].id, "close">> \notin asked
      /\ a \in {a, NoAgent}
  BY <1>3, <1>4, <1>7
<1>10. CASE reg' = FinishCreation(settled, a, TRUE)
  <2>1. Tidy(FinishCreation(settled, a, TRUE), NoAgent, held, loops, asked, d)
    BY <1>1, <1>7, <1>8, <1>9, FinishCreationTidy
  <2> QED BY <1>2, <1>6, <1>10, <2>1, NestedStep DEF d
<1>11. CASE reg' = PrepareCreation(settled, a)
  <2>1. Tidy(PrepareCreation(settled, a), NoAgent, held, loops, asked, d)
    BY <1>1, <1>7, <1>8, <1>9, PrepareCreationTidy
  <2> QED BY <1>2, <1>6, <1>11, <2>1, NestedStep DEF d
<1>12. CASE /\ reg.seen <= read /\ read \in 0 .. saved
            /\ reg' = RunCreation(Installed(settled, a, read), a)
  <2> DEFINE v == Installed(settled, a, read)
  <2>1. /\ Kept(v, held, d, n, saved) /\ v.of[a].id = settled.of[a].id
        /\ v.of[a].life = settled.of[a].life
    <3>1. n \in Nat /\ saved \in Nat /\ d \in [Agents -> Nat]  BY <1>1
    <3>2. Kept(settled, held, d, n, saved)  BY <1>7
    <3>3. read \in 0 .. saved /\ settled.seen <= read  BY <1>7, <1>12
    <3>4. settled.of[a].life \notin {"absent", "closed"}  BY <1>9
    <3> QED BY <3>1, <3>2, <3>3, <3>4, InstalledKeeps
  <2>2. Tidy(v, a, held, loops, asked, d)
    <3>1. settled \in RegType(Ids(n), saved) /\ settled.of[a].life \notin Gone
      BY <1>7, <1>9 DEF Kept, Gone
    <3> QED BY <1>1, <1>5, <1>8, <1>12, <3>1, InstalledTidy
  <2> HIDE DEF v
  <2>3. /\ v.of[a].id # 0 /\ v.of[a].life \in {"initializing", "closing"}
        /\ v.of[a].life = "initializing" => <<a, v.of[a].id, "close">> \notin asked
    BY <1>9, <2>1
  <2>4. Tidy(RunCreation(v, a), NoAgent, held, loops, asked, d)
    BY <1>1, <1>9, <2>1, <2>2, <2>3, RunCreationTidy
  <2> QED BY <1>2, <1>6, <1>12, <2>4, NestedStep DEF v, d
<1> QED BY <1>2, <1>10, <1>11, <1>12

\* What the invariant says of a start under way.
LEMMA StartingFacts ==
  ASSUME NestedInv, NEW a \in Agents, Opening(a).wait # "none"
  PROVE  /\ reg.of[a].id # 0 /\ reg.of[a].life \in {"initializing", "closing"}
         /\ reg.of[a].closing.stage = "none"
         /\ reg.of[a].life = "initializing" => <<a, reg.of[a].id, "close">> \notin asked
         /\ Ordered(reg.of[a], held, loops[a], a)
         /\ Reason(reg.of[a], Over(reg, a), reg.restarts[a], reg.stopped, asked, a)
<1>1. /\ reg.of[a].id # 0 /\ reg.of[a].life \in {"initializing", "closing"}
      /\ reg.of[a].closing.stage = "none"
  BY NestedFacts, AwaitingFacts
<1>2. Fits(reg, held, loops, asked, spent.created, a) /\ Settles(reg.of[a], asked, a)
  BY NestedFacts, RegistryAssumption DEF Tidy
<1> QED BY <1>1, <1>2 DEF Fits, Settles

\* An answer that reaches a start leaves its order alone.
LEMMA AnsweringTidy ==
  ASSUME NestedInv, NEW a \in Agents, Opening(a).wait = "component", NEW answer \in Answers,
         NEW own \in SUBSET Resources, NEW instance \in Nat, reg.of[a].owned \subseteq own,
         NEW h2, NEW l2, Others(a, held, h2, loops, l2), held \subseteq h2,
         LET f == Answering(reg.of[a], answer, own, instance) IN
         /\ Beside(f, h2, a) /\ Executing(f, l2[a])
         /\ Asking(a) = "agent" /\ answer = "claimed" => instance = l2[a].instance
  PROVE  Tidy(WithLife(reg, a, Answering(reg.of[a], answer, own, instance)), NoAgent, h2, l2,
              asked, spent.created)
<1> DEFINE n == Creations d == spent.created e == reg.of[a] c == e.opening.component
           f == Answering(e, answer, own, instance) v == WithLife(reg, a, f)
<1>1. /\ reg \in RegType(Ids(n), saved) /\ e \in LifeType(Ids(n), saved)
      /\ Tidy(reg, NoAgent, held, loops, asked, d)
  BY NestedFacts
<1>2. /\ e.opening.wait = "component" /\ e.life \in {"initializing", "closing"}
      /\ e.closing.stage = "none" /\ Ordered(e, held, loops[a], a)
      /\ e.life = "initializing" => <<a, e.id, "close">> \notin asked
      /\ Reason(e, Over(reg, a), reg.restarts[a], reg.stopped, asked, a)
  BY StartingFacts DEF Opening
<1>3. /\ f \in LifeType(Ids(n), saved)
      /\ f.life = e.life /\ f.id = e.id /\ f.ready = e.ready /\ f.closing = e.closing
      /\ f.owned = own /\ f.failed = e.failed /\ f.parent = e.parent /\ f.instance = instance
      /\ f.opening.wait = e.opening.wait /\ f.opening.component = c
      /\ f.opening.answer = answer /\ f.opening.revision = e.opening.revision
  BY <1>1, AnsweringFacts
<1>4. Beside(f, h2, a) /\ Executing(f, l2[a])  OBVIOUS
<1>5. c[1] = "agent" /\ answer = "claimed" => instance = l2[a].instance  BY DEF Asking, Opening
<1> HIDE DEF f
<1>6. Alone(reg, v, a) /\ v.of[a] = f /\ v.restarts[a] = reg.restarts[a]
  BY <1>1, <1>3, WithLifeAlone
<1> HIDE DEF v, n, d, e, c
<1>7. Starting(f, h2, l2[a], a)
  <2>1. Starting(e, held, loops[a], a)  BY <1>2 DEF Ordered
  <2>2. \A r : <<a, e.id, r>> \in held => <<a, e.id, r>> \in h2  OBVIOUS
  <2> QED BY <1>2, <1>3, <1>5, <2>1, <2>2 DEF Starting, c
<1>8. Releasing(f, a)  BY <1>2, <1>3 DEF Releasing
<1>9. Ordered(f, h2, l2[a], a)  BY <1>4, <1>7, <1>8 DEF Ordered
<1>10. Continues(e, f)  BY <1>2, <1>3 DEF Continues, Gone
<1>11. Shelters(reg, a, e, f, held, h2)
  <2>1. f.closing.stage # "asked"  BY <1>2, <1>3
  <2> QED BY <2>1 DEF Shelters
<1>12. Reason(f, Over(reg, a), reg.restarts[a], reg.stopped, asked, a)
  BY <1>2, <1>3 DEF Reason, Due
<1>13. Settles(f, asked, a)  BY <1>2, <1>3 DEF Settles
<1>14. Tidy(v, NoAgent, h2, l2, asked, d)
  <2>1. NoAgent \in {a, NoAgent}  OBVIOUS
  <2> QED BY <1>1, <1>6, <1>9, <1>10, <1>11, <1>12, <1>13, <2>1, GoesOn DEF e
<1> QED BY <1>14 DEF v, f, e, d

\* An AgentLoop that executes nothing is claimed for the lifetime that starts it.
LEMMA NestedClaim ==
  ASSUME NestedInv, NEW a \in Agents, Claim(a)
  PROVE  NestedInv'
<1> DEFINE e == reg.of[a] loop == loops[a].instance
<1>1. /\ Opening(a).wait = "component" /\ UNCHANGED <<Outside, spent, asked>>
      /\ \/ \E answer \in {"failed", "claimed"} :
              /\ answer = "claimed" => Asking(a) # "agent"
              /\ reg' = WithLife(reg, a, Answering(e, answer, e.owned, e.instance))
         \/ /\ loops[a].creation = 0
            /\ reg' = WithLife(reg, a, Answering(e, "claimed", e.owned \cup Claimed, loop))
  BY NestedFacts, ClaimAnswers
<1>2. Ordered(e, held, loops[a], a)  BY <1>1, StartingFacts
<1>3. e \in LifeType(Ids(Creations), saved)  BY NestedFacts
<1>4. /\ e.owned \in SUBSET Resources /\ e.instance \in Nat /\ loop \in Nat
      /\ e.owned \cup Claimed \in SUBSET Resources /\ e.owned \subseteq e.owned \cup Claimed
  BY <1>3, ResourceKinds DEF LifeType, NestedInv, ListedInv, OthersInv
<1>5. Others(a, held, held, loops, loops)  BY DEF Others
<1>6. "failed" \in Answers /\ "claimed" \in Answers  BY DEF Answers
<1>7. ListedInv'  BY ClaimStep DEF NestedInv
<1>8. ASSUME NEW answer \in {"failed", "claimed"}, answer = "claimed" => Asking(a) # "agent",
             reg' = WithLife(reg, a, Answering(e, answer, e.owned, e.instance))
      PROVE  NestedInv'
  <2> DEFINE f == Answering(e, answer, e.owned, e.instance)
  <2>1. /\ f.life = e.life /\ f.id = e.id /\ f.closing = e.closing /\ f.owned = e.owned
        /\ f.instance = e.instance
    BY <1>3, <1>4, <1>6, AnsweringFacts
  <2> HIDE DEF f
  <2>2. Beside(f, held, a) /\ Executing(f, loops[a])
    BY <1>2, <2>1 DEF Ordered, Beside, Executing
  <2>3. Tidy(reg', NoAgent, held, loops, asked, spent.created)
    BY <1>1, <1>4, <1>5, <1>6, <1>8, <2>2, AnsweringTidy DEF f
  <2> QED BY <1>1, <1>7, <2>3, NestedStep
<1>9. CASE /\ loops[a].creation = 0
           /\ reg' = WithLife(reg, a, Answering(e, "claimed", e.owned \cup Claimed, loop))
  <2> DEFINE f == Answering(e, "claimed", e.owned \cup Claimed, loop)
  <2>1. f.id = e.id  BY <1>3, <1>4, <1>6, AnsweringFacts
  <2> HIDE DEF f
  <2>2. Beside(f, held, a) /\ Executing(f, loops[a])
    BY <1>2, <1>9, <2>1 DEF Ordered, Beside, Executing
  <2>3. Tidy(reg', NoAgent, held, loops, asked, spent.created)
    BY <1>1, <1>4, <1>5, <1>6, <1>9, <2>2, AnsweringTidy DEF f
  <2> QED BY <1>1, <1>7, <2>3, NestedStep
<1> QED BY <1>1, <1>8, <1>9

\* Components whose owners hold something that uses the Session, the tools and the
\* prompt are asked for after those.
LEMMA AcquiredFacts ==
  ASSUME NEW a \in Agents, Opening(a).component \in Components, NEW r \in Acquired(a)
  PROVE  /\ r[1] \in Users => Opening(a).component[1] \in Late
         /\ Opening(a).component = SessionOf => r = <<"conversation", 0>>
<1> DEFINE c == Opening(a).component
<1>1. c \in Named  BY ComponentsNamed
<1>2. c[1] = "agent" => c[1] \in Late /\ c # SessionOf  BY DEF Late, SessionOf
<1>3. CASE c[1] # "agent"
  <2>1. r \in Owns(c)  BY <1>3 DEF Acquired, Asking
  <2>2. c[1] \in Names  BY <1>1 DEF Named
  <2> QED BY <1>3, <2>1, <2>2 DEF Owns, Names, Users, Late, SessionOf
<1> QED BY <1>2, <1>3

\* Whatever the owner acquired is held beside what it uses.
LEMMA NestedComponentAnswers ==
  ASSUME NestedInv, NEW a \in Agents, ComponentAnswers(a)
  PROVE  NestedInv'
<1> DEFINE n == Creations e == reg.of[a] c == Opening(a).component
<1>1. /\ Opening(a).wait = "component" /\ UNCHANGED <<saved, notices, asked>>
      /\ Fault \/ UNCHANGED spent
      /\ Acquired(a) \subseteq e.owned
      /\ Asking(a) = "agent" => Opening(a).answer = "claimed" /\ Claimed \subseteq e.owned
      /\ \E answer \in {"ok", "failed", "unowned"} :
           /\ reg' = WithLife(reg, a, Answering(e, answer, e.owned, e.instance))
           /\ \/ Acquire(a)
              \/ UNCHANGED <<held, loops>>
  BY NestedFacts, ComponentAnswersRuns
<1>2. PICK answer \in {"ok", "failed", "unowned"} :
        /\ reg' = WithLife(reg, a, Answering(e, answer, e.owned, e.instance))
        /\ Acquire(a) \/ UNCHANGED <<held, loops>>
  BY <1>1
<1>3. /\ e.life \in {"initializing", "closing"} /\ e.closing.stage = "none"
      /\ Beside(e, held, a) /\ Starting(e, held, loops[a], a) /\ Executing(e, loops[a])
  BY <1>1, StartingFacts DEF Ordered
<1>4. e \in LifeType(Ids(n), saved)  BY NestedFacts
<1>5. /\ e.owned \in SUBSET Resources /\ e.owned \subseteq e.owned /\ e.instance \in Nat
      /\ answer \in Answers
  BY <1>4 DEF LifeType, Answers
<1> DEFINE f == Answering(e, answer, e.owned, e.instance)
<1>6. /\ f.life = e.life /\ f.id = e.id /\ f.closing = e.closing /\ f.owned = e.owned
      /\ f.instance = e.instance
  BY <1>4, <1>5, AnsweringFacts
<1> HIDE DEF f
<1>7. /\ c \in Components /\ (c = SessionOf \/ SessionOf \in e.ready)
      /\ e.opening.wait = "component" /\ e.opening.component = c /\ e.opening.answer = Opening(a).answer
  BY <1>1, NestedFacts, AnsweredStarts DEF Opening
<1>8. Beside(f, held', a) /\ Executing(f, loops'[a]) /\ Others(a, held, held', loops, loops')
      /\ held \subseteq held'
  <2>1. CASE UNCHANGED <<held, loops>>
    BY <1>3, <1>6, <2>1 DEF Beside, Executing, Others
  <2>2. CASE Acquire(a)
    <3>1. /\ held' = held \cup {<<a, e.id, r>> : r \in Acquired(a)}
          /\ loops' = IF Asking(a) = "agent" THEN [loops EXCEPT ![a].creation = e.id] ELSE loops
      BY <2>2 DEF Acquire, Holds, Lifetime
    <3>2. \A r : <<a, e.id, r>> \in held' => <<a, e.id, r>> \in held \/ r \in Acquired(a)
      BY <3>1
    <3>3. SessionOf \in e.ready => <<a, e.id, <<"conversation", 0>>>> \in held
      <4>1. <<"conversation", 0>> \in Owns(SessionOf) \ Claimed  BY DEF Owns, SessionOf, Claimed
      <4> QED BY <1>3, <1>7, <4>1 DEF Starting
    <3>4. Early \subseteq e.ready => \A u \in Shared : <<a, e.id, u>> \in held
      <4>1. /\ <<"tools", 0>> \in Owns(<<"tools", 0>>) \ Claimed
            /\ <<"prompt", 0>> \in Owns(<<"prompt", 0>>) \ Claimed
        BY DEF Owns, Claimed
      <4>2. Early = {SessionOf, <<"tools", 0>>, <<"prompt", 0>>}  BY DEF Early, SessionOf
      <4>3. Early \subseteq e.ready =>
              <<a, e.id, <<"tools", 0>>>> \in held /\ <<a, e.id, <<"prompt", 0>>>> \in held
        BY <1>3, <1>7, <4>1, <4>2 DEF Starting
      <4> QED BY <3>3, <4>2, <4>3 DEF Shared
    <3>5. \A r \in Acquired(a) : /\ r[1] \in Users => Early \subseteq e.ready
                                 /\ c = SessionOf => r = <<"conversation", 0>>
      BY <1>3, <1>7, AcquiredFacts DEF Starting
    <3>6. held \subseteq held'  BY <3>1
    <3>7. \A r \in Resources : r[1] \in Users /\ <<a, e.id, r>> \in held' =>
            \A u \in Shared : <<a, e.id, u>> \in held'
      BY <1>3, <3>2, <3>4, <3>5, <3>6 DEF Beside
    <3>8. \A r \in Resources : r[1] # "loop" /\ <<a, e.id, r>> \in held' =>
            <<a, e.id, <<"conversation", 0>>>> \in held'
      BY <1>3, <1>7, <3>2, <3>3, <3>5, <3>6 DEF Beside
    <3>9. Beside(f, held', a)  BY <1>6, <3>7, <3>8 DEF Beside
    <3>10. Executing(f, loops'[a])
      <4>1. CASE Asking(a) # "agent"  BY <1>3, <1>6, <3>1, <4>1 DEF Executing
      <4>2. CASE Asking(a) = "agent"
        <5>1. loops \in [Agents -> [instance : Nat, creation : Lifetimes]]
          BY DEF NestedInv, ListedInv, OthersInv
        <5>2. loops'[a].creation = e.id /\ loops'[a].instance = loops[a].instance
          BY <3>1, <4>2, <5>1
        <5>3. e.instance = loops[a].instance
          BY <1>1, <1>3, <1>7, <4>2 DEF Starting, Asking
        <5>4. <<"loop", 0>> \in e.owned  BY <1>1, <4>2 DEF Claimed
        <5> QED BY <1>3, <1>6, <5>2, <5>3, <5>4 DEF Executing
      <4> QED BY <4>1, <4>2
    <3>11. Others(a, held, held', loops, loops')
      <4>1. loops \in [Agents -> [instance : Nat, creation : Lifetimes]]
        BY DEF NestedInv, ListedInv, OthersInv
      <4> QED BY <3>1, <4>1 DEF Others
    <3> QED BY <3>6, <3>9, <3>10, <3>11
  <2> QED BY <1>2, <2>1, <2>2
<1>9. Tidy(reg', NoAgent, held', loops', asked, spent.created)
  <2>1. answer # "claimed"  OBVIOUS
  <2> QED BY <1>1, <1>2, <1>5, <1>8, <2>1, AnsweringTidy DEF f
<1>10. ListedInv'  BY ComponentAnswersStep DEF NestedInv
<1>11. spent'.created = spent.created  BY <1>1, NestedFacts, FaultFacts
<1>12. asked' = asked  BY <1>1
<1> QED BY <1>9, <1>10, <1>11, <1>12 DEF NestedInv

\* A start goes on within its handler, with what it owns and has ready.
LEMMA AnsweredTidy ==
  ASSUME NestedInv, NEW a \in Agents, Opening(a).wait = "component",
         NEW own \in SUBSET Resources, <<"loop", 0>> \in reg.of[a].owned => <<"loop", 0>> \in own,
         NEW ready \in SUBSET Components
  PROVE  LET v == WithLife(reg, a, Answered(reg.of[a], own, ready)) IN
         /\ Tidy(v, a, held, loops, asked, spent.created)
         /\ v.of[a].id # 0 /\ v.of[a].life \in {"initializing", "closing"}
         /\ v.of[a].life = "initializing" => <<a, v.of[a].id, "close">> \notin asked
<1> DEFINE n == Creations d == spent.created e == reg.of[a]
           f == Answered(e, own, ready) v == WithLife(reg, a, f)
<1>1. /\ reg \in RegType(Ids(n), saved) /\ e \in LifeType(Ids(n), saved)
      /\ Tidy(reg, NoAgent, held, loops, asked, d)
  BY NestedFacts
<1>2. /\ e.id # 0 /\ e.life \in {"initializing", "closing"}
      /\ e.closing.stage = "none" /\ Ordered(e, held, loops[a], a)
      /\ e.life = "initializing" => <<a, e.id, "close">> \notin asked
      /\ Reason(e, Over(reg, a), reg.restarts[a], reg.stopped, asked, a)
  BY StartingFacts
<1>3. /\ f \in LifeType(Ids(n), saved)
      /\ f.life = e.life /\ f.id = e.id /\ f.closing = e.closing
      /\ f.owned = own /\ f.failed = e.failed /\ f.parent = e.parent /\ f.instance = e.instance
      /\ f.opening.wait = "none" /\ f.opening.revision = e.opening.revision
  BY <1>1, AnsweredFacts
<1> HIDE DEF f
<1>4. v.of[a] = f  BY <1>1, <1>3, WithLifeFacts
<1> HIDE DEF v, n, d, e
<1>5. Ordered(f, held, loops[a], a)
  <2>1. Beside(f, held, a)  BY <1>2, <1>3 DEF Ordered, Beside
  <2>2. Starting(f, held, loops[a], a)  BY <1>2, <1>3 DEF Ordered, Starting
  <2>3. Releasing(f, a)  BY <1>2, <1>3 DEF Releasing
  <2>4. Executing(f, loops[a])
    <3>1. <<"loop", 0>> \in e.owned => <<"loop", 0>> \in own  BY DEF e
    <3> QED BY <1>2, <1>3, <3>1 DEF Ordered, Executing
  <2> QED BY <2>1, <2>2, <2>3, <2>4 DEF Ordered
<1>6. Continues(e, f)  BY <1>2, <1>3 DEF Continues, Gone
<1>7. Reason(f, Over(reg, a), reg.restarts[a], reg.stopped, asked, a)
  BY <1>2, <1>3 DEF Reason, Due
<1>8. Tidy(WithLife(reg, a, f), a, held, loops, asked, d)
  <2>1. f.closing.stage # "asked" /\ a \in {a, NoAgent} /\ NoAgent \in {a, NoAgent}
    BY <1>2, <1>3
  <2> QED BY <1>1, <1>3, <1>5, <1>6, <1>7, <2>1, LifeGoesOn DEF e
<1> QED BY <1>2, <1>3, <1>4, <1>8 DEF v, f, e, d

\* A start fails, or goes on with the component that is ready.
LEMMA NestedStartupResult ==
  ASSUME NestedInv, NEW a \in Agents, StartupResult(a)
  PROVE  NestedInv'
<1> DEFINE n == Creations d == spent.created e == reg.of[a]
           u == WithLife(reg, a, Refused(e)) v == WithLife(reg, a, Readied(e))
<1>1. /\ Opening(a).wait = "component" /\ UNCHANGED <<Outside, spent, asked>>
      /\ \/ reg' = FinishCreation(u, a, TRUE)
         \/ /\ Opening(a).answer = "ok" /\ Admitted(reg, a)
            /\ reg' = RunCreation(v, a)
  BY NestedFacts, StartupResultRuns
<1>2. /\ n \in Nat /\ saved \in Nat /\ d \in [Agents -> Nat] /\ e \in LifeType(Ids(n), saved)
      /\ a \in {a, NoAgent}
  BY NestedFacts
<1>3. /\ Opening(a).component \in Components
      /\ Opening(a).answer = "unowned" => Opening(a).component = SessionOf
  BY <1>1, NestedFacts, AnsweredStarts
<1>4. e.owned \in SUBSET Resources /\ e.ready \in SUBSET Components  BY <1>2 DEF LifeType
<1>5. ListedInv'  BY StartupResultStep DEF NestedInv
<1>6. CASE reg' = FinishCreation(u, a, TRUE)
  <2> DEFINE own == IF e.opening.answer = "unowned" THEN e.owned \ Owns(e.opening.component)
                    ELSE e.owned
  <2>1. own \in SUBSET Resources  BY <1>4
  <2>2. <<"loop", 0>> \in e.owned => <<"loop", 0>> \in own
    <3>1. <<"loop", 0>> \notin Owns(SessionOf)  BY DEF Owns, SessionOf
    <3> QED BY <1>3, <3>1 DEF Opening
  <2>3. Refused(e) = Answered(e, own, e.ready)  BY DEF Refused
  <2>4. Kept(u, held, d, n, saved)  BY <1>1, NestedFacts, RefusedKeeps
  <2> HIDE DEF own, e, d
  <2>5. /\ Tidy(u, a, held, loops, asked, d)
        /\ u.of[a].id # 0 /\ u.of[a].life \in {"initializing", "closing"}
        /\ u.of[a].life = "initializing" => <<a, u.of[a].id, "close">> \notin asked
    BY <1>1, <1>4, <2>1, <2>2, <2>3, AnsweredTidy DEF e, d
  <2> HIDE DEF u
  <2>6. Tidy(FinishCreation(u, a, TRUE), NoAgent, held, loops, asked, d)
    BY <1>2, <2>4, <2>5, FinishCreationTidy
  <2> QED BY <1>1, <1>5, <1>6, <2>6, NestedStep DEF d
<1>7. CASE /\ Opening(a).answer = "ok" /\ Admitted(reg, a)
           /\ reg' = RunCreation(v, a)
  <2> DEFINE ready == e.ready \cup {e.opening.component}
  <2>1. ready \in SUBSET Components  BY <1>3, <1>4 DEF Opening
  <2>2. Readied(e) = Answered(e, e.owned, ready)  BY DEF Readied
  <2>3. Kept(v, held, d, n, saved)  BY <1>1, <1>7, NestedFacts, ReadiedKeeps
  <2> HIDE DEF ready, e, d
  <2>4. /\ Tidy(v, a, held, loops, asked, d)
        /\ v.of[a].id # 0 /\ v.of[a].life \in {"initializing", "closing"}
        /\ v.of[a].life = "initializing" => <<a, v.of[a].id, "close">> \notin asked
    BY <1>1, <1>4, <2>1, <2>2, AnsweredTidy DEF e, d
  <2> HIDE DEF v
  <2>5. Tidy(RunCreation(v, a), NoAgent, held, loops, asked, d)
    BY <1>2, <2>3, <2>4, RunCreationTidy
  <2> QED BY <1>1, <1>5, <1>7, <2>5, NestedStep DEF d
<1> QED BY <1>1, <1>6, <1>7

\* What the invariant says of a release under way.
LEMMA ReleasingFacts ==
  ASSUME NestedInv, NEW a \in Agents, Closing(a).stage # "none"
  PROVE  /\ reg.of[a].life = "closing" /\ reg.of[a].opening.wait = "none"
         /\ Closing(a).resource \in Duties /\ Holding(reg.of[a], held, a)
         /\ Ordered(reg.of[a], held, loops[a], a)
         /\ Reason(reg.of[a], Over(reg, a), reg.restarts[a], reg.stopped, asked, a)
<1> DEFINE n == Creations e == reg.of[a]
<1>1. /\ e \in LifeType(Ids(n), saved) /\ n \in Nat /\ saved \in Nat
      /\ Kept(reg, held, spent.created, n, saved)
  BY NestedFacts
<1>2. Sound(e) /\ Holding(e, held, a)  BY <1>1, LifeFacts
<1>3. e.life = "closing" /\ e.opening.wait = "none"  BY <1>2 DEF Sound, Closing
<1>4. Closing(a).resource \in Duties  BY <1>1 DEF Closing, LifeType, ClosingType
<1>5. Fits(reg, held, loops, asked, spent.created, a)  BY NestedFacts DEF Tidy
<1> QED BY <1>2, <1>3, <1>4, <1>5 DEF Fits

\* A release that was answered, well or not, leaves the order alone.
LEMMA ReleasedTidy ==
  ASSUME NestedInv, NEW a \in Agents, Closing(a).stage = "asked", NEW stage \in {"ok", "failed"},
         NEW h2, NEW l2, Others(a, held, h2, loops, l2),
         \/ Children(reg, a) = {}
         \/ \A u \in Shared : <<a, reg.of[a].id, u>> \in held => <<a, reg.of[a].id, u>> \in h2,
         Beside(reg.of[a], h2, a),
         Executing(ReleaseAt(reg.of[a], stage, reg.of[a].owned), l2[a])
  PROVE  Tidy(WithLife(reg, a, ReleaseAt(reg.of[a], stage, reg.of[a].owned)), NoAgent, h2, l2,
              asked, spent.created)
<1> DEFINE n == Creations d == spent.created e == reg.of[a] f == ReleaseAt(e, stage, e.owned)
           v == WithLife(reg, a, f)
<1>1. /\ reg \in RegType(Ids(n), saved) /\ e \in LifeType(Ids(n), saved)
      /\ Tidy(reg, NoAgent, held, loops, asked, d)
  BY NestedFacts
<1>2. /\ e.closing.stage = "asked" /\ e.life = "closing" /\ e.opening.wait = "none"
      /\ Ordered(e, held, loops[a], a)
      /\ Reason(e, Over(reg, a), reg.restarts[a], reg.stopped, asked, a)
  BY ReleasingFacts DEF Closing
<1>3. /\ f \in LifeType(Ids(n), saved)
      /\ f.life = e.life /\ f.id = e.id /\ f.ready = e.ready /\ f.opening = e.opening
      /\ f.owned = e.owned /\ f.closing.stage = stage /\ f.closing.resource = e.closing.resource
      /\ f.failed = e.failed /\ f.parent = e.parent /\ f.instance = e.instance
  <2>1. stage \in CloseStages /\ e.owned \in SUBSET Resources
    BY <1>1 DEF CloseStages, LifeType
  <2> QED BY <1>1, <2>1, ReleaseAtFacts
<1>4. Beside(e, h2, a) /\ Executing(f, l2[a])  OBVIOUS
<1> HIDE DEF f
<1>5. Alone(reg, v, a) /\ v.of[a] = f /\ v.restarts[a] = reg.restarts[a]
  BY <1>1, <1>3, WithLifeAlone
<1>6. Shelters(reg, a, e, f, held, h2)
  <2>1. f.closing.stage # "asked"  BY <1>3
  <2> QED BY <2>1 DEF Shelters
<1> HIDE DEF v, n, d, e
<1>7. Ordered(f, h2, l2[a], a)
  <2>1. Beside(f, h2, a)  BY <1>3, <1>4 DEF Beside
  <2>2. Starting(f, h2, l2[a], a)  BY <1>2, <1>3 DEF Ordered, Starting
  <2>3. Releasing(f, a)  BY <1>2, <1>3 DEF Ordered, Releasing
  <2> QED BY <1>4, <2>1, <2>2, <2>3 DEF Ordered
<1>8. Continues(e, f)  BY <1>2, <1>3 DEF Continues, Gone
<1>9. Reason(f, Over(reg, a), reg.restarts[a], reg.stopped, asked, a)
  BY <1>2, <1>3 DEF Reason, Due
<1>10. Settles(f, asked, a)  BY <1>2, <1>3 DEF Settles
<1>11. Tidy(v, NoAgent, h2, l2, asked, d)
  <2>1. NoAgent \in {a, NoAgent}  OBVIOUS
  <2> QED BY <1>1, <1>5, <1>6, <1>7, <1>8, <1>9, <1>10, <2>1, GoesOn DEF e
<1> QED BY <1>11 DEF v, f, e, d

\* The AgentLoop executes on until the loop itself is released.
LEMMA StillExecutes ==
  ASSUME NestedInv, NEW a \in Agents, Closing(a).stage # "none", Closing(a).resource[1] # "loop",
         NEW stage \in {"ok", "failed"}
  PROVE  Executing(ReleaseAt(reg.of[a], stage, reg.of[a].owned), loops[a])
<1> DEFINE e == reg.of[a] f == ReleaseAt(e, stage, e.owned)
<1>1. e \in LifeType(Ids(Creations), saved) /\ Executing(e, loops[a])
  BY NestedFacts, ReleasingFacts DEF Ordered
<1>2. /\ f.life = e.life /\ f.id = e.id /\ f.owned = e.owned /\ f.instance = e.instance
      /\ f.closing.resource = e.closing.resource
  BY <1>1, ReleaseAtFacts DEF LifeType, CloseStages
<1>3. f.closing.resource[1] # "loop"  BY <1>2 DEF Closing
<1> HIDE DEF f
<1>4. Executing(f, loops[a])  BY <1>1, <1>2, <1>3 DEF Executing
<1> QED BY <1>4 DEF f

\* What is not shared may be dropped, beside what it uses.
LEMMA DropsBeside ==
  ASSUME NestedInv, NEW a \in Agents, NEW res, \A r \in res : r \notin Shared,
         Beside(reg.of[a], held, a)
  PROVE  /\ Others(a, held, Drops(a, res), loops, loops)
         /\ Beside(reg.of[a], Drops(a, res), a)
         /\ \A u \in Shared :
              <<a, reg.of[a].id, u>> \in held => <<a, reg.of[a].id, u>> \in Drops(a, res)
<1> DEFINE e == reg.of[a] h2 == Drops(a, res)
<1>1. h2 = held \ {<<a, e.id, r>> : r \in res}  BY DEF Drops, Lifetime
<1>2. h2 \subseteq held /\ \A u \in Shared : <<a, e.id, u>> \in held => <<a, e.id, u>> \in h2
  BY <1>1
<1>3. Others(a, held, h2, loops, loops)  BY <1>1 DEF Others
<1> HIDE DEF h2, e
<1>4. Beside(e, h2, a)
  <2>1. Beside(e, held, a)  BY DEF e
  <2>2. <<"conversation", 0>> \in Shared  BY DEF Shared
  <2> QED BY <1>2, <2>1, <2>2 DEF Beside
<1> QED BY <1>2, <1>3, <1>4 DEF e, h2

\* There is one conversation.
LEMMA ConversationIs ==
  ASSUME NEW r \in Duties, r[1] = "conversation"
  PROVE  r = <<"conversation", 0>>
<1>1. r \in Resources  BY DEF Duties
<1>2. r \in Claimed \/ \E c \in Components : r \in Owns(c)  BY <1>1 DEF Resources
<1>3. r \notin Claimed  BY DEF Claimed
<1>4. PICK c \in Components : r \in Owns(c)  BY <1>2, <1>3
<1>5. c[1] \in Names  BY ComponentsNamed DEF Named
<1> QED BY <1>4, <1>5 DEF Owns, Names

\* The AgentLoop settles its work before anything that uses it is released.
LEMMA NestedReleaseExecution ==
  ASSUME NestedInv, NEW a \in Agents, ReleaseExecution(a)
  PROVE  NestedInv'
<1> DEFINE e == reg.of[a] res == {Closing(a).resource}
<1>1. /\ Closing(a).stage = "asked" /\ Closing(a).resource[1] \in {"work", "execution"}
      /\ UNCHANGED <<saved, notices, loops, asked>>
  BY DEF ReleaseExecution, Releases
<1>2. PICK stage \in {"ok", "failed"} :
        /\ reg' = Released(a, stage = "ok") /\ held' \in {held, Drops(a, res)}
        /\ Fault \/ UNCHANGED spent
  BY DEF ReleaseExecution
<1>3. ListedInv'  BY ReleaseExecutionStep DEF NestedInv
<1>4. reg' = WithLife(reg, a, ReleaseAt(e, stage, e.owned))
  BY <1>2, NestedFacts, ReleasedIs
<1>5. Beside(e, held, a)  BY <1>1, ReleasingFacts DEF Ordered
<1>6. Others(a, held, held', loops, loops) /\ Beside(e, held', a)
      /\ \A u \in Shared : <<a, e.id, u>> \in held => <<a, e.id, u>> \in held'
  <2>1. \A r \in res : r \notin Shared  BY <1>1 DEF Shared
  <2> HIDE DEF res
  <2>2. CASE held' = held  BY <1>5, <2>2 DEF Others
  <2>3. CASE held' = Drops(a, res)  BY <1>5, <2>1, <2>3, DropsBeside
  <2> QED BY <1>2, <2>2, <2>3
<1>7. Executing(ReleaseAt(e, stage, e.owned), loops[a])  BY <1>1, StillExecutes
<1>8. Tidy(reg', NoAgent, held', loops, asked, spent.created)
  <2> HIDE DEF e
  <2> QED BY <1>1, <1>4, <1>6, <1>7, ReleasedTidy DEF e
<1>9. spent'.created = spent.created  BY <1>2, NestedFacts, FaultFacts
<1>10. loops' = loops /\ asked' = asked  BY <1>1
<1> QED BY <1>3, <1>8, <1>9, <1>10 DEF NestedInv

\* Deactivation ends what the AgentLoop holds, and its execution.
LEMMA NestedReleaseLoop ==
  ASSUME NestedInv, NEW a \in Agents, ReleaseLoop(a)
  PROVE  NestedInv'
<1> DEFINE e == reg.of[a]
<1>1. /\ Closing(a).stage = "asked" /\ reg' = Released(a, "ok" = "ok")
      /\ held' = Drops(a, Claimed) /\ loops' = Fresh(a) /\ UNCHANGED <<asked, spent>>
  BY DEF ReleaseLoop, Releases
<1>2. ListedInv'  BY ReleaseLoopStep DEF NestedInv
<1>3. reg' = WithLife(reg, a, ReleaseAt(e, "ok", e.owned))
  BY <1>1, NestedFacts, ReleasedIs
<1>4. Beside(e, held, a)  BY <1>1, ReleasingFacts DEF Ordered
<1>5. \A r \in Claimed : r \notin Shared  BY DEF Claimed, Shared
<1>6. /\ Others(a, held, held', loops, loops) /\ Beside(e, held', a)
      /\ \A u \in Shared : <<a, e.id, u>> \in held => <<a, e.id, u>> \in held'
  BY <1>1, <1>4, <1>5, DropsBeside
<1>7. loops'[a].creation = 0 /\ Others(a, held, held', loops, loops')
  <2>1. loops \in [Agents -> [instance : Nat, creation : Lifetimes]]
    BY DEF NestedInv, ListedInv, OthersInv
  <2>2. loops'[a].creation = 0 /\ \A b \in Agents : b # a => loops'[b] = loops[b]
    BY <1>1, <2>1 DEF Fresh
  <2> QED BY <1>6, <2>2 DEF Others
<1>8. Executing(ReleaseAt(e, "ok", e.owned), loops'[a])  BY <1>7 DEF Executing
<1>9. Tidy(reg', NoAgent, held', loops', asked, spent.created)
  <2> HIDE DEF e
  <2> QED BY <1>1, <1>3, <1>6, <1>7, <1>8, ReleasedTidy DEF e
<1>10. asked' = asked /\ spent'.created = spent.created  BY <1>1
<1> QED BY <1>2, <1>9, <1>10 DEF NestedInv

\* The Session, the tools and the prompt are released once nothing uses them, and
\* no child is left.
LEMMA NestedReleaseComponent ==
  ASSUME NestedInv, NEW a \in Agents, ReleaseComponent(a)
  PROVE  NestedInv'
<1> DEFINE e == reg.of[a] r == Closing(a).resource res == {r}
<1>1. /\ Closing(a).stage = "asked" /\ UNCHANGED <<saved, notices, loops, asked>>
      /\ r[1] \in {"capability", "commands", "tools", "prompt", "conversation"}
  BY DEF ReleaseComponent, Releases
<1>2. PICK stage \in {"ok", "failed"} :
        /\ reg' = Released(a, stage = "ok") /\ held' \in {held, Drops(a, res)}
        /\ Fault \/ UNCHANGED spent
  BY DEF ReleaseComponent
<1>3. ListedInv'  BY ReleaseComponentStep DEF NestedInv
<1>4. reg' = WithLife(reg, a, ReleaseAt(e, stage, e.owned))
  BY <1>2, NestedFacts, ReleasedIs
<1>5. /\ Beside(e, held, a) /\ Releasing(e, a) /\ Holding(e, held, a) /\ r \in Duties
  BY <1>1, ReleasingFacts DEF Ordered
<1>6. r[1] \in SharedKinds => Children(reg, a) = {}
  <2> SUFFICES ASSUME r[1] \in SharedKinds, NEW b \in Children(reg, a) PROVE FALSE
    OBVIOUS
  <2>1. b \in Agents /\ Parent[b] = a /\ reg.of[b].life \notin Gone
    BY DEF Children, Registered, Gone
  <2>2. b \in Agents \ Roots  BY <2>1, ParentFacts
  <2>3. Inside(reg.of[b], e, a, held)  BY <2>1, <2>2, NestedFacts DEF Tidy, Fits
  <2> QED BY <1>1, <2>1, <2>3 DEF Inside, Closing
<1>7. \A x \in Resources : <<a, e.id, x>> \in held => ~Before(x, r)
  <2>1. \A x \in Resources : <<a, e.id, x>> \in held => x \in e.owned  BY <1>5 DEF Holding
  <2> QED BY <1>1, <1>5, <2>1 DEF Releasing, Closing
<1>8. /\ Others(a, held, held', loops, loops) /\ Beside(e, held', a)
      /\ \/ Children(reg, a) = {}
         \/ \A u \in Shared : <<a, e.id, u>> \in held => <<a, e.id, u>> \in held'
  <2>1. CASE held' = held  BY <1>5, <2>1 DEF Others
  <2>2. CASE held' = Drops(a, res) /\ r[1] \notin SharedKinds
    <3>1. \A x \in res : x \notin Shared  BY <2>2 DEF Shared, SharedKinds
    <3> HIDE DEF res
    <3> QED BY <1>5, <2>2, <3>1, DropsBeside
  <2>3. CASE held' = Drops(a, res) /\ r[1] \in SharedKinds
    <3>1. held' = held \ {<<a, e.id, r>>}  BY <2>3 DEF Drops, Lifetime
    <3>2. Others(a, held, held', loops, loops)  BY <3>1 DEF Others
    <3>3. \A x \in Resources : <<a, e.id, x>> \in held =>
            /\ x[1] \notin Users
            /\ r[1] = "conversation" => x[1] \in {"conversation", "loop"}
      <4> SUFFICES ASSUME NEW x \in Resources, <<a, e.id, x>> \in held
                   PROVE  /\ x[1] \notin Users
                          /\ r[1] = "conversation" => x[1] \in {"conversation", "loop"}
        OBVIOUS
      <4>1. x \in Duties /\ ~Before(x, r)  BY <1>7 DEF Duties
      <4> HIDE DEF r
      <4> QED BY <1>5, <2>3, <4>1, UsersGoFirst
    <3>4. \A x \in Resources : x[1] # "loop" /\ <<a, e.id, x>> \in held' =>
            <<a, e.id, <<"conversation", 0>>>> \in held'
      <4> SUFFICES ASSUME NEW x \in Resources, x[1] # "loop", <<a, e.id, x>> \in held'
                   PROVE  <<a, e.id, <<"conversation", 0>>>> \in held'
        OBVIOUS
      <4>1. <<a, e.id, x>> \in held /\ <<a, e.id, <<"conversation", 0>>>> \in held
        BY <1>5, <3>1 DEF Beside
      <4>2. CASE r[1] = "conversation"
        <5>1. x \in Duties /\ x[1] = "conversation"  BY <3>3, <4>1, <4>2 DEF Duties
        <5>2. x = <<"conversation", 0>>  BY <5>1, ConversationIs
        <5> QED BY <5>2
      <4>3. CASE r[1] # "conversation"
        <5>1. r # <<"conversation", 0>>  BY <4>3
        <5> HIDE DEF r, e
        <5> QED BY <3>1, <4>1, <5>1
      <4> QED BY <4>2, <4>3
    <3>5. Beside(e, held', a)  BY <3>1, <3>3, <3>4 DEF Beside
    <3> QED BY <1>6, <2>3, <3>2, <3>5
  <2> QED BY <1>2, <2>1, <2>2, <2>3
<1>9. Executing(ReleaseAt(e, stage, e.owned), loops[a])  BY <1>1, StillExecutes
<1>10. Tidy(reg', NoAgent, held', loops, asked, spent.created)
  <2> HIDE DEF e
  <2> QED BY <1>1, <1>4, <1>8, <1>9, ReleasedTidy DEF e
<1>11. spent'.created = spent.created  BY <1>2, NestedFacts, FaultFacts
<1>12. loops' = loops /\ asked' = asked  BY <1>1
<1> QED BY <1>3, <1>10, <1>11, <1>12 DEF NestedInv

\* A child closes before what its parent shares with it, because the parent closes.
LEMMA NestedReleaseChild ==
  ASSUME NestedInv, NEW a \in Agents, ReleaseChild(a)
  PROVE  NestedInv'
<1> DEFINE n == Creations d == spent.created e == reg.of[a] child == Closing(a).resource[2]
           u == CancelRestarts(reg, child) f == Joining(e) v == WithLife(u, a, f)
<1>1. /\ Closing(a).stage = "asked" /\ Closing(a).resource[1] = "child" /\ child \in Agents
      /\ UNCHANGED <<Outside, spent, asked>>
      /\ reg' = IF Registered(reg, child) THEN ScheduleClose(v, child) ELSE Released(a, "ok" = "ok")
  BY NestedFacts, ReleaseChildRuns
<1>2. /\ n \in Nat /\ saved \in Nat /\ d \in [Agents -> Nat] /\ Kept(reg, held, d, n, saved)
      /\ reg \in RegType(Ids(n), saved) /\ e \in LifeType(Ids(n), saved)
      /\ Tidy(reg, NoAgent, held, loops, asked, d)
  BY NestedFacts
<1>3. e.life = "closing" /\ Ordered(e, held, loops[a], a)
  BY <1>1, ReleasingFacts
<1>4. Parent[child] = a /\ child \in Agents \ Roots /\ child # a
  <2>1. Parent[child] = a  BY <1>1, <1>3 DEF Ordered, Releasing, Closing
  <2> HIDE DEF child
  <2> QED BY <1>1, <2>1, ParentFacts
<1>5. ListedInv'  BY ReleaseChildStep DEF NestedInv
<1>6. CASE Registered(reg, child)
  <2>1. /\ Kept(v, held, d, n, saved) /\ \A b \in Agents : v.of[b].life = reg.of[b].life
    <3>1. ListedInv  BY NestedFacts
    <3> HIDE DEF child
    <3> QED BY <1>1, <3>1, JoiningKeeps
  <2>2. u \in RegType(Ids(n), saved) /\ Tidy(u, NoAgent, held, loops, asked, d) /\ u.of = reg.of
    <3> HIDE DEF child, n, d
    <3>1. Kept(u, held, d, n, saved)  BY <1>1, <1>2, CancelRestartsKeeps
    <3>2. Tidy(u, NoAgent, held, loops, asked, d) /\ u.of = reg.of
      BY <1>2, <1>4, CancelTidy
    <3> QED BY <3>1, <3>2 DEF Kept
  <2>3. Fits(u, held, loops, asked, d, a)  BY <2>2 DEF Tidy
  <2>4. /\ f \in LifeType(Ids(n), saved)
        /\ f.life = e.life /\ f.id = e.id /\ f.ready = e.ready /\ f.opening = e.opening
        /\ f.owned = e.owned /\ f.closing.stage = "joined"
        /\ f.closing.resource = e.closing.resource
        /\ f.failed = e.failed /\ f.parent = e.parent /\ f.instance = e.instance
    <3>1. "joined" \in CloseStages /\ e.owned \in SUBSET Resources
      BY <1>2 DEF CloseStages, LifeType
    <3> QED BY <1>2, <3>1, ReleaseAtFacts DEF Joining
  <2> HIDE DEF f, u
  <2>5. Ordered(f, held, loops[a], a)
    <3>1. Beside(f, held, a)  BY <1>3, <2>4 DEF Ordered, Beside
    <3>2. Starting(f, held, loops[a], a)  BY <1>3, <2>4 DEF Ordered, Starting
    <3>3. Releasing(f, a)  BY <1>1, <1>3, <2>4 DEF Ordered, Releasing, Closing
    <3>4. Executing(f, loops[a])  BY <1>3, <2>4 DEF Ordered, Executing
    <3> QED BY <3>1, <3>2, <3>3, <3>4 DEF Ordered
  <2>6. Continues(u.of[a], f)  BY <1>3, <2>2, <2>4 DEF Continues, Gone
  <2>7. Reason(f, Over(u, a), u.restarts[a], u.stopped, asked, a)
    BY <2>2, <2>3, <2>4 DEF Fits, Reason, Due
  <2>8. Settles(f, asked, a)  BY <1>3, <2>4 DEF Settles
  <2>9. Tidy(v, NoAgent, held, loops, asked, d)
    <3>1. f.closing.stage # "asked" /\ NoAgent \in {a, NoAgent}  BY <2>4
    <3> HIDE DEF n, d
    <3> QED BY <2>2, <2>4, <2>5, <2>6, <2>7, <2>8, <3>1, LifeGoesOn
  <2> HIDE DEF v
  <2>10. v.of[child].life \notin Gone  BY <1>1, <1>6, <2>1 DEF Registered, Gone
  <2>11. Due(v.of[child], Over(v, child), v.restarts[child], v.stopped, asked, child)
    <3>1. Over(v, child) = "closing"  BY <1>3, <1>4, <2>1 DEF Over
    <3> QED BY <3>1 DEF Due
  <2>12. Tidy(ScheduleClose(v, child), NoAgent, held, loops, asked, d)
    <3>1. NoAgent \in {child, NoAgent}  OBVIOUS
    <3> HIDE DEF child, n, d
    <3> QED BY <1>1, <1>2, <2>1, <2>9, <2>10, <2>11, <3>1, ScheduleCloseTidy
  <2> QED BY <1>1, <1>5, <1>6, <2>12, NestedStep DEF d
<1>7. CASE ~Registered(reg, child)
  <2>1. reg' = WithLife(reg, a, ReleaseAt(e, "ok", e.owned))
    BY <1>1, <1>7, NestedFacts, ReleasedIs
  <2>2. Executing(ReleaseAt(e, "ok", e.owned), loops[a])  BY <1>1, StillExecutes
  <2>3. Others(a, held, held, loops, loops) /\ Beside(e, held, a)  BY <1>3 DEF Others, Ordered
  <2>4. Tidy(reg', NoAgent, held, loops, asked, d)
    <3> HIDE DEF e
    <3> QED BY <1>1, <2>1, <2>2, <2>3, ReleasedTidy DEF e
  <2> QED BY <1>1, <1>5, <2>4, NestedStep DEF d
<1> QED BY <1>6, <1>7

\* The next release begins, or the close ends for now.
LEMMA NestedShutdownResult ==
  ASSUME NestedInv, NEW a \in Agents, ShutdownResult(a)
  PROVE  NestedInv'
<1> DEFINE n == Creations d == spent.created e == reg.of[a] f == Confirmed(e)
           u == WithLife(reg, a, f)
           own == IF e.closing.stage = "ok" THEN e.owned \ {e.closing.resource} ELSE e.owned
<1>1. /\ Closing(a).stage \in {"ok", "failed"} /\ UNCHANGED <<Outside, spent, asked>>
      /\ reg' = IF Closing(a).stage = "ok" THEN RunClose(u, a) ELSE AnswerClose(u, a, FALSE)
  BY NestedFacts, ShutdownResultRuns
<1>2. /\ n \in Nat /\ saved \in Nat /\ d \in [Agents -> Nat] /\ Kept(reg, held, d, n, saved)
      /\ reg \in RegType(Ids(n), saved) /\ e \in LifeType(Ids(n), saved)
      /\ Tidy(reg, NoAgent, held, loops, asked, d)
  BY NestedFacts
<1>3. /\ e.life = "closing" /\ Ordered(e, held, loops[a], a) /\ e.closing.stage \in {"ok", "failed"}
      /\ Reason(e, Over(reg, a), reg.restarts[a], reg.stopped, asked, a)
  BY <1>1, ReleasingFacts DEF Closing
<1>4. /\ f \in LifeType(Ids(n), saved)
      /\ f.life = e.life /\ f.id = e.id /\ f.ready = e.ready /\ f.opening = e.opening
      /\ f.owned = own /\ f.closing.stage = "none"
      /\ f.failed = e.failed /\ f.parent = e.parent /\ f.instance = e.instance
  <2>1. "none" \in CloseStages /\ own \in SUBSET Resources
    BY <1>2 DEF CloseStages, LifeType
  <2>2. f = ReleaseAt(e, "none", own)  BY DEF Confirmed
  <2> HIDE DEF own, f
  <2> QED BY <1>2, <2>1, <2>2, ReleaseAtFacts
<1>5. <<"loop", 0>> \in e.owned /\ (e.closing.stage = "ok" => e.closing.resource[1] # "loop") =>
        <<"loop", 0>> \in own
  OBVIOUS
<1>6. Kept(u, held, d, n, saved) /\ u.of[a].life = "closing"
  BY <1>1, NestedFacts, ConfirmedKeeps
<1>7. ListedInv'  BY ShutdownResultStep DEF NestedInv
<1> HIDE DEF f, own
<1>8. Ordered(f, held, loops[a], a)
  <2>1. Beside(f, held, a)  BY <1>3, <1>4 DEF Ordered, Beside
  <2>2. Starting(f, held, loops[a], a)  BY <1>3, <1>4 DEF Ordered, Starting
  <2>3. Releasing(f, a)  BY <1>4 DEF Releasing
  <2>4. Executing(f, loops[a])  BY <1>3, <1>4, <1>5 DEF Ordered, Executing
  <2> QED BY <2>1, <2>2, <2>3, <2>4 DEF Ordered
<1>9. Continues(e, f)  BY <1>3, <1>4 DEF Continues, Gone
<1>10. Reason(f, Over(reg, a), reg.restarts[a], reg.stopped, asked, a)
  BY <1>3, <1>4 DEF Reason, Due
<1>11. Settles(f, asked, a)  BY <1>3, <1>4 DEF Settles
<1>12. Tidy(u, NoAgent, held, loops, asked, d)
  <2>1. f.closing.stage # "asked" /\ NoAgent \in {a, NoAgent}  BY <1>4
  <2> HIDE DEF n, d
  <2> QED BY <1>2, <1>4, <1>8, <1>9, <1>10, <1>11, <2>1, LifeGoesOn
<1> HIDE DEF u, n, d
<1>13. Tidy(RunClose(u, a), NoAgent, held, loops, asked, d)
  <2>1. NoAgent \in {a, NoAgent}  OBVIOUS
  <2> QED BY <1>2, <1>6, <1>12, <2>1, RunCloseTidy
<1>14. Tidy(AnswerClose(u, a, FALSE), NoAgent, held, loops, asked, d)
  <2>1. u \in RegType(Ids(n), saved) /\ FALSE \in BOOLEAN  BY <1>6 DEF Kept
  <2> QED BY <1>2, <1>12, <2>1, AnswerCloseTidy
<1> QED BY <1>1, <1>7, <1>13, <1>14, NestedStep DEF d

\* A lost AgentLoop ends what it held, and the start that waits for it fails.
LEMMA NestedLoopLost ==
  ASSUME NestedInv, NEW a \in Agents, LoopLost(a)
  PROVE  NestedInv'
<1> DEFINE n == Creations d == spent.created e == reg.of[a]
<1>1. /\ loops' = Fresh(a) /\ held' = Drops(a, Claimed) /\ asked' = asked
      /\ spent' = [spent EXCEPT !.lost = @ + 1]
      /\ loops[a].creation # 0 \/ Opening(a).wait = "component"
  BY NestedFacts, LoopLostRuns
<1>2. PICK answer \in Answers :
        /\ Opening(a).wait = "component" /\ Asking(a) = "agent" => answer # "claimed"
        /\ reg' = WithLife(reg, a, Answering(e, answer, e.owned, e.instance))
  BY NestedFacts, LoopLostRuns
<1>3. /\ n \in Nat /\ saved \in Nat /\ Kept(reg, held, d, n, saved)
      /\ reg \in RegType(Ids(n), saved) /\ e \in LifeType(Ids(n), saved)
      /\ Tidy(reg, NoAgent, held, loops, asked, d)
  BY NestedFacts
<1>4. /\ Ordered(e, held, loops[a], a) /\ Settles(e, asked, a) /\ Sound(e)
      /\ Reason(e, Over(reg, a), reg.restarts[a], reg.stopped, asked, a)
  BY <1>3, LifeFacts, RegistryAssumption DEF Tidy, Fits
<1> DEFINE f == Answering(e, answer, e.owned, e.instance) v == WithLife(reg, a, f)
<1>5. /\ f \in LifeType(Ids(n), saved)
      /\ f.life = e.life /\ f.id = e.id /\ f.ready = e.ready /\ f.closing = e.closing
      /\ f.owned = e.owned /\ f.failed = e.failed /\ f.parent = e.parent /\ f.instance = e.instance
      /\ f.opening.wait = e.opening.wait /\ f.opening.component = e.opening.component
      /\ f.opening.answer = answer /\ f.opening.revision = e.opening.revision
  <2>1. e.owned \in SUBSET Resources /\ e.instance \in Nat  BY <1>3 DEF LifeType
  <2> HIDE DEF e
  <2> QED BY <1>3, <2>1, AnsweringFacts
<1>6. /\ Others(a, held, held', loops, loops) /\ Beside(e, held', a)
      /\ \A u \in Shared : <<a, e.id, u>> \in held => <<a, e.id, u>> \in held'
  <2>1. \A r \in Claimed : r \notin Shared  BY DEF Claimed, Shared
  <2> QED BY <1>1, <1>4, <2>1, DropsBeside DEF Ordered
<1>7. loops'[a].creation = 0 /\ Others(a, held, held', loops, loops')
  <2>1. loops \in [Agents -> [instance : Nat, creation : Lifetimes]]
    BY DEF NestedInv, ListedInv, OthersInv
  <2>2. loops'[a].creation = 0 /\ \A b \in Agents : b # a => loops'[b] = loops[b]
    BY <1>1, <2>1 DEF Fresh
  <2> QED BY <1>6, <2>2 DEF Others
<1>8. e.life \notin Gone
  <2>1. CASE loops[a].creation # 0
    BY <1>4, <2>1 DEF Ordered, Executing, Sound, Gone
  <2>2. CASE Opening(a).wait = "component"  BY <2>2, StartingFacts DEF Gone
  <2> QED BY <1>1, <2>1, <2>2
<1>9. \A r : r \notin Claimed /\ <<a, e.id, r>> \in held => <<a, e.id, r>> \in held'
  BY <1>1 DEF Drops, Lifetime
<1>10. e.opening.wait = "component" /\ e.opening.component[1] = "agent" => answer # "claimed"
  BY <1>2 DEF Opening, Asking
<1> HIDE DEF f
<1>11. Alone(reg, v, a) /\ v.of[a] = f /\ v.restarts[a] = reg.restarts[a]
  BY <1>3, <1>5, WithLifeAlone
<1>12. ListedInv'  BY LoopLostStep DEF NestedInv
<1> HIDE DEF v, n, d, e
<1>13. Ordered(f, held', loops'[a], a)
  <2>1. Beside(f, held', a)  BY <1>5, <1>6 DEF Beside
  <2>2. Starting(f, held', loops'[a], a)  BY <1>4, <1>5, <1>9, <1>10 DEF Ordered, Starting
  <2>3. Releasing(f, a)  BY <1>4, <1>5 DEF Ordered, Releasing
  <2>4. Executing(f, loops'[a])  BY <1>7 DEF Executing
  <2> QED BY <2>1, <2>2, <2>3, <2>4 DEF Ordered
<1>14. Continues(e, f)  BY <1>5, <1>8 DEF Continues
<1>15. Shelters(reg, a, e, f, held, held')  BY <1>5, <1>6 DEF Shelters
<1>16. Reason(f, Over(reg, a), reg.restarts[a], reg.stopped, asked, a)
  BY <1>4, <1>5 DEF Reason, Due
<1>17. Settles(f, asked, a)  BY <1>4, <1>5 DEF Settles
<1>18. Tidy(v, NoAgent, held', loops', asked, d)
  <2>1. NoAgent \in {a, NoAgent}  OBVIOUS
  <2> QED BY <1>3, <1>7, <1>11, <1>13, <1>14, <1>15, <1>16, <1>17, <2>1, GoesOn DEF e
<1>19. spent'.created = spent.created
  BY <1>1 DEF NestedInv, ListedInv, OthersInv, SpentType
<1> QED BY <1>1, <1>2, <1>12, <1>18, <1>19 DEF NestedInv, v, f, e, d

-----------------------------------------------------------------------------
(* Replacing a lifetime: the steps.                                        *)

\* The close that a replacement sent closes the lifetime that is replaced, or one
\* that somebody asked to close.
LEMMA NestedRestartClose ==
  ASSUME NestedInv, NEW a \in Agents, NEW id, RestartClose(a, id)
  PROVE  NestedInv'
<1> DEFINE n == Creations d == spent.created u == Taken(reg, a, id)
           own == reg.restarts[a] = [stage |-> "close", of |-> id]
           Told(stage) == IF own THEN AtStage(u, a, stage) ELSE u
<1>1. /\ UNCHANGED <<Outside, spent, asked>> /\ <<a, id>> \in reg.selfCloses
      /\ \/ reg' \in {Told("closed"), Told("closeFailed")}
         \/ Current(reg, a, id) /\ reg' = ScheduleClose(Told("joined"), a)
  BY Zenon DEF RestartClose, Taken
<1>2. /\ n \in Nat /\ saved \in Nat /\ d \in [Agents -> Nat] /\ Kept(reg, held, d, n, saved)
      /\ reg \in RegType(Ids(n), saved) /\ Tidy(reg, NoAgent, held, loops, asked, d)
  BY NestedFacts
<1>3. /\ u.of = reg.of /\ u.restarts = reg.restarts /\ u.stopped = reg.stopped
      /\ u.seen = reg.seen /\ u \in RegType(Ids(n), saved)
  BY <1>2, TakenFacts
<1>4. own <=> reg.restarts[a].stage = "close" /\ reg.restarts[a].of = id
  BY <1>2 DEF RegType, RestartType
<1>5. \A stage \in {"joined", "closed", "closeFailed"} :
        Tidy(Told(stage), NoAgent, held, loops, asked, d)
  <2>1. Tidy(u, NoAgent, held, loops, asked, d)  BY <1>2, TakenTidy
  <2>2. own => \A stage \in {"joined", "closed", "closeFailed"} :
                 Tidy(AtStage(u, a, stage), NoAgent, held, loops, asked, d)
    <3> HIDE DEF own
    <3> QED BY <1>2, <1>4, TakenTidy
  <2> QED BY <2>1, <2>2
<1>6. ListedInv'  BY RestartCloseStep DEF NestedInv
<1> HIDE DEF n, d, u
<1>7. CASE reg' \in {Told("closed"), Told("closeFailed")}
  <2>1. Tidy(reg', NoAgent, held, loops, asked, d)  BY <1>5, <1>7
  <2> QED BY <1>1, <1>6, <2>1, NestedStep DEF d
<1>8. CASE Current(reg, a, id) /\ reg' = ScheduleClose(Told("joined"), a)
  <2> DEFINE v == Told("joined")
  <2>1. reg.of[a].life \notin Gone /\ reg.of[a].id = id
    <3>1. reg.of[a].life \notin {"absent", "closed"}  BY <1>2, <1>8, CurrentIsRegistered
    <3> QED BY <1>8, <3>1 DEF Current, Gone
  <2>2. Kept(u, held, d, n, saved)
    <3>1. \A b \in Agents : u.restarts[b].stage \in {reg.restarts[b].stage}  BY <1>3
    <3> QED BY <1>2, <1>3, <3>1, KeptWithLives
  <2>3. Kept(v, held, d, n, saved)
    <3>1. CASE own
      <4>1. "joined" \in RestartStages /\ u.restarts[a].stage \in Replacing
        BY <1>3, <1>4, <3>1 DEF RestartStages, Replacing
      <4> HIDE DEF own
      <4> QED BY <1>2, <2>2, <3>1, <4>1, RestartStage
    <3> QED BY <2>2, <3>1
  <2>4. /\ v.of = reg.of /\ v.stopped = reg.stopped
        /\ own => v.restarts[a].stage = "joined" /\ v.restarts[a].of = id
    <3>1. CASE own
      <4>1. /\ AtStage(u, a, "joined").of = u.of /\ AtStage(u, a, "joined").stopped = u.stopped
            /\ AtStage(u, a, "joined").restarts[a].stage = "joined"
            /\ AtStage(u, a, "joined").restarts[a].of = u.restarts[a].of
        BY <1>3, AtStageFacts
      <4> HIDE DEF own
      <4> QED BY <1>3, <1>4, <3>1, <4>1
    <3> QED BY <1>3, <3>1
  <2>5. own \/ <<a, id, "close">> \in asked \/ reg.stopped
    <3> HIDE DEF own
    <3>1. Meant(reg.of[a], reg.restarts[a], reg.stopped, reg.selfCloses, asked, d[a], a)
      BY <1>2 DEF Tidy, Fits
    <3>2. reg.of[a].life # "closed"  BY <2>1 DEF Gone
    <3> QED BY <1>1, <1>4, <2>1, <3>1, <3>2 DEF Meant
  <2> HIDE DEF own, v
  <2>6. Due(v.of[a], Over(v, a), v.restarts[a], v.stopped, asked, a)
    BY <2>1, <2>4, <2>5 DEF Due
  <2>7. Tidy(v, NoAgent, held, loops, asked, d)
    <3>1. "joined" \in {"joined", "closed", "closeFailed"}  OBVIOUS
    <3> QED BY <1>5, <3>1 DEF v
  <2>8. Tidy(ScheduleClose(v, a), NoAgent, held, loops, asked, d)
    <3>1. NoAgent \in {a, NoAgent} /\ v.of[a].life \notin Gone  BY <2>1, <2>4
    <3> QED BY <1>2, <2>3, <2>6, <2>7, <3>1, ScheduleCloseTidy
  <2> QED BY <1>1, <1>6, <1>8, <2>8, NestedStep DEF d, v
<1> QED BY <1>1, <1>7, <1>8

\* A replacement moves on, or fails.
LEMMA NestedRestartMoves ==
  ASSUME NestedInv, NEW a \in Agents,
         RestartClosed(a) \/ LoadSession(a) \/ RestartPrepared(a)
  PROVE  NestedInv'
<1>1. /\ reg.restarts[a].stage \notin {"none", "close", "failed"}
      /\ \/ \E stage \in {"loading", "loaded", "loadFailed", "create"} :
              reg' = AtStage(reg, a, stage)
         \/ reg' = FailRestart(reg, a)
      /\ Fault \/ UNCHANGED spent
      /\ UNCHANGED <<Outside, asked>>
  <2>1. CASE RestartClosed(a)  BY <2>1 DEF RestartClosed, Restarts
  <2>2. CASE LoadSession(a)  BY <2>2 DEF LoadSession, Restarts
  <2>3. CASE RestartPrepared(a)  BY <2>3 DEF RestartPrepared, Restarts
  <2> QED BY <2>1, <2>2, <2>3
<1>2. /\ Creations \in Nat /\ saved \in Nat /\ spent.created \in [Agents -> Nat]
      /\ Kept(reg, held, spent.created, Creations, saved) /\ reg \in RegType(Ids(Creations), saved)
      /\ Tidy(reg, NoAgent, held, loops, asked, spent.created)
  BY NestedFacts
<1>3. \A stage \in {"loading", "loaded", "loadFailed", "create"} :
        Tidy(AtStage(reg, a, stage), NoAgent, held, loops, asked, spent.created)
  BY <1>1, <1>2, StageTidy
<1>4. Tidy(FailRestart(reg, a), NoAgent, held, loops, asked, spent.created)
  BY <1>1, <1>2, FailRestartTidy
<1>5. Tidy(reg', NoAgent, held, loops, asked, spent.created)  BY <1>1, <1>3, <1>4
<1>6. ListedInv'  BY RestartMovesStep DEF NestedInv
<1> QED BY <1>1, <1>5, <1>6, NestedStep

\* The replacement creates the next lifetime of a root.
LEMMA NestedRestartCreate ==
  ASSUME NestedInv, NEW a \in Agents, RestartCreate(a)
  PROVE  NestedInv'
<1> DEFINE n == Creations d == spent.created id == d[a] + 1 d2 == [d EXCEPT ![a] = id]
           w == AtStage(reg, a, "creating") parent == reg.of[a].parent
<1>1. /\ n \in Nat /\ saved \in Nat /\ d \in [Agents -> Nat] /\ Kept(reg, held, d, n, saved)
      /\ reg \in RegType(Ids(n), saved) /\ Tidy(reg, NoAgent, held, loops, asked, d)
      /\ ListedInv
  BY NestedFacts
<1>2. /\ reg.restarts[a].stage = "create" /\ UNCHANGED <<Outside, asked>>
      /\ \/ reg' = AtStage(reg, a, "createFailed") /\ UNCHANGED spent
         \/ /\ ~Registered(reg, a) /\ reg' = Start(w, a, id, parent)
            /\ spent' = [spent EXCEPT !.created = d2]
            /\ id \in Ids(n) /\ id \in Nat /\ parent \in Ids(n)
            /\ d2 \in [Agents -> Nat] /\ d2[a] = id
            /\ \A b \in Agents \ {a} : d2[b] = d[b]
            /\ Kept(w, held, d2, n, saved) /\ w.of = reg.of
  BY <1>1, RestartCreateRuns
<1>3. ListedInv'  BY <1>1, RestartCreateStep
<1>4. CASE reg' = AtStage(reg, a, "createFailed") /\ UNCHANGED spent
  <2>1. Tidy(AtStage(reg, a, "createFailed"), NoAgent, held, loops, asked, d)
    <3> HIDE DEF n, d
    <3> QED BY <1>1, <1>2, StageTidy
  <2> QED BY <1>2, <1>3, <1>4, <2>1, NestedStep DEF d
<1>5. CASE /\ ~Registered(reg, a) /\ reg' = Start(w, a, id, parent)
           /\ spent' = [spent EXCEPT !.created = d2]
           /\ id \in Ids(n) /\ id \in Nat /\ parent \in Ids(n)
           /\ d2 \in [Agents -> Nat] /\ d2[a] = id
           /\ \A b \in Agents \ {a} : d2[b] = d[b]
           /\ Kept(w, held, d2, n, saved) /\ w.of = reg.of
  <2>1. d[a] < id /\ id <= d2[a]  BY <1>1, <1>5
  <2>2. reg.of[a].life \in Gone  BY <1>5 DEF Registered, Gone
  <2>3. Tidy(w, NoAgent, held, loops, asked, d)
    <3> HIDE DEF n, d
    <3> QED BY <1>1, <1>2, <2>2, StageTidy
  <2>4. a \in Roots  BY <1>1, <1>2 DEF Tidy, Fits, Meant
  <2>5. ~Registered(w, a)  BY <1>5 DEF Registered
  <2>6. spent'.created = d2 /\ held' = held /\ loops' = loops /\ asked' = asked
    <3>1. spent \in [of : Settings, created : [Agents -> Lifetimes], lost : Nat, faults : Nat]
      BY <1>1 DEF ListedInv, OthersInv, SpentType
    <3> HIDE DEF d2
    <3> QED BY <1>2, <1>5, <3>1 DEF Outside
  <2> HIDE DEF n, d, id, d2, w, parent
  <2>7. Tidy(Start(w, a, id, parent), NoAgent, held, loops, asked, d2)
    <3>1. \A b \in Agents : b # a => d2[b] = d[b]  BY <1>5
    <3> QED BY <1>1, <1>5, <2>1, <2>3, <2>4, <2>5, <3>1, StartTidy
  <2>8. Tidy(reg', NoAgent, held', loops', asked', spent'.created)  BY <1>5, <2>6, <2>7
  <2> QED BY <1>3, <2>8 DEF NestedInv
<1> QED BY <1>2, <1>4, <1>5

\* A replacement that created the next lifetime has no part in how that one closes.
LEMMA NestedRestartCreated ==
  ASSUME NestedInv, NEW a \in Agents, RestartCreated(a)
  PROVE  NestedInv'
<1> DEFINE n == Creations d == spent.created
           rs == [reg.restarts EXCEPT ![a] = NoRestart]
           done == [reg EXCEPT !.restarts = rs]
           who == Waiting(reg, "restart", a)
<1>1. /\ n \in Nat /\ saved \in Nat /\ d \in [Agents -> Nat] /\ Kept(reg, held, d, n, saved)
      /\ reg \in RegType(Ids(n), saved) /\ Tidy(reg, NoAgent, held, loops, asked, d)
  BY NestedFacts
<1>2. /\ UNCHANGED <<Outside, spent, asked>>
      /\ \/ /\ reg.restarts[a].stage \notin {"none", "close", "failed"}
            /\ reg' = FailRestart(reg, a)
         \/ /\ reg.restarts[a].stage = "created"
            /\ reg' = RestartChanged(Answer(done, who, "ready"))
  <2> HIDE DEF n, d
  <2> QED BY Zenon DEF RestartCreated, Restarts
<1>3. ListedInv'  BY RestartCreatedStep DEF NestedInv
<1>4. CASE /\ reg.restarts[a].stage \notin {"none", "close", "failed"}
           /\ reg' = FailRestart(reg, a)
  <2>1. Tidy(FailRestart(reg, a), NoAgent, held, loops, asked, d)
    <3> HIDE DEF n, d
    <3> QED BY <1>1, <1>4, FailRestartTidy
  <2> QED BY <1>2, <1>3, <1>4, <2>1, NestedStep DEF d
<1>5. CASE /\ reg.restarts[a].stage = "created"
           /\ reg' = RestartChanged(Answer(done, who, "ready"))
  <2>1. 0 \in Ids(n)  BY <1>1, ZeroIsId
  <2>2. rs \in [Agents -> RestartType(Ids(n))]
    BY <1>1, <2>1 DEF RegType, RestartType, NoRestart, RestartStages
  <2>3. \A b \in Agents : rs[b].stage \in {reg.restarts[b].stage} \cup (RestartStages \ Replacing)
    BY <1>1 DEF RegType, NoRestart, RestartStages, Replacing
  <2>4. /\ rs[a].stage = "none" /\ rs[a].of = 0
        /\ \A b \in Agents : b # a => rs[b] = reg.restarts[b]
    BY <1>1 DEF RegType, NoRestart
  <2> HIDE DEF rs
  <2>5. /\ done \in RegType(Ids(n), saved) /\ done.of = reg.of /\ done.seen = reg.seen
        /\ done.restarts = rs /\ done.stopped = reg.stopped /\ done.selfCloses = reg.selfCloses
    BY <1>1, <2>2 DEF RegType
  <2> HIDE DEF done, who, n, d
  <2>6. \A b \in Agents : Over(done, b) = Over(reg, b)  BY <2>5 DEF Over
  <2>7. \A b \in Agents : Fits(done, held, loops, asked, d, b)
    <3> SUFFICES ASSUME NEW b \in Agents PROVE Fits(done, held, loops, asked, d, b)
      OBVIOUS
    <3>1. Fits(reg, held, loops, asked, d, b)  BY <1>1 DEF Tidy
    <3>2. CASE b # a  BY <2>4, <2>5, <2>6, <3>1, <3>2 DEF Fits
    <3>3. CASE b = a
      <4> DEFINE e == reg.of[a] r == reg.restarts[a] q == rs[a] o == Over(reg, a)
      <4>1. /\ Meant(e, r, reg.stopped, reg.selfCloses, asked, d[a], a)
            /\ Reason(e, o, r, reg.stopped, asked, a)
            /\ r.stage = "created" /\ q.stage = "none" /\ q.of = 0 /\ d[a] \in Nat
        BY <1>1, <1>5, <2>4, <3>1, <3>3 DEF Fits
      <4> HIDE DEF e, r, q, o
      <4>2. Meant(e, q, reg.stopped, reg.selfCloses, asked, d[a], a)
        <5>1. 0 \in 0 .. d[a]  BY <4>1
        <5> QED BY <4>1, <5>1 DEF Meant
      <4>3. Reason(e, o, q, reg.stopped, asked, a)
        <5>1. e.life = "closing" => r.of # e.id  BY <4>1 DEF Meant, Gone
        <5> QED BY <4>1, <5>1 DEF Reason, Due
      <4> QED BY <2>5, <2>6, <3>1, <3>3, <4>2, <4>3 DEF Fits, e, q, o
    <3> QED BY <3>2, <3>3
  <2>8. Tidy(done, NoAgent, held, loops, asked, d)  BY <1>1, <2>5, <2>7 DEF Tidy
  <2>9. "ready" \in Replies  BY DEF Replies
  <2>10. Tidy(Answer(done, who, "ready"), NoAgent, held, loops, asked, d)
    BY <1>1, <2>5, <2>8, <2>9, AnswerTidy
  <2>11. Kept(Answer(done, who, "ready"), held, d, n, saved)
    <3>1. Kept(done, held, d, n, saved)  BY <1>1, <2>3, <2>5, KeptWithLives
    <3> QED BY <1>1, <2>9, <3>1, AnswerKeeps
  <2>12. Tidy(reg', NoAgent, held, loops, asked, d)
    BY <1>1, <1>5, <2>10, <2>11, RestartChangedTidy
  <2> QED BY <1>2, <1>3, <2>12, NestedStep DEF d
<1> QED BY <1>2, <1>4, <1>5

-----------------------------------------------------------------------------
(* The theorems.                                                           *)

\* At first nobody holds, replaces or asks for anything.
LEMMA NestedInit == Init => NestedInv
<1> SUFFICES ASSUME Init PROVE NestedInv
  OBVIOUS
<1> DEFINE e == NewLife(NoAgent, "absent", 0, 0)
<1>1. /\ held = {} /\ asked = {} /\ reg.of = [a \in Agents |-> e]
      /\ reg.restarts = [a \in Agents |-> NoRestart] /\ reg.selfCloses = {}
      /\ loops = [a \in Agents |-> [instance |-> 1, creation |-> 0]]
      /\ spent.created = [a \in Agents |-> 0]
  BY DEF Init, NewLife
<1>2. /\ e.life = "absent" /\ e.closing.stage = "none" /\ e.opening.wait = "none"
      /\ e.opening.revision = 0
  BY DEF NewLife, NoOpening, NoClosing
<1> HIDE DEF e
<1> SUFFICES ASSUME NEW a \in Agents
             PROVE  /\ Fits(reg, held, loops, asked, spent.created, a)
                    /\ Settles(reg.of[a], asked, a)
  BY ListedInit DEF NestedInv, Tidy
<1>3. /\ reg.of[a] = e /\ reg.restarts[a].stage = "none" /\ reg.restarts[a].of = 0
      /\ loops[a].creation = 0 /\ spent.created[a] = 0
  BY <1>1 DEF NoRestart
<1>4. Ordered(e, held, loops[a], a)
  <2>1. Beside(e, held, a)  BY <1>1 DEF Beside
  <2>2. Starting(e, held, loops[a], a)  BY <1>2 DEF Starting
  <2>3. Releasing(e, a)  BY <1>2 DEF Releasing
  <2>4. Executing(e, loops[a])  BY <1>3 DEF Executing
  <2> QED BY <2>1, <2>2, <2>3, <2>4 DEF Ordered
<1>5. a \notin Roots => Inside(e, reg.of[Parent[a]], Parent[a], held)
  BY <1>2 DEF Inside, Gone
<1>6. Meant(e, reg.restarts[a], reg.stopped, reg.selfCloses, asked, spent.created[a], a)
  BY <1>1, <1>3 DEF Meant
<1>7. Reason(e, Over(reg, a), reg.restarts[a], reg.stopped, asked, a)  BY <1>2 DEF Reason
<1>8. Settles(e, asked, a)  BY <1>1, <1>2 DEF Settles
<1> QED BY <1>3, <1>4, <1>5, <1>6, <1>7, <1>8 DEF Fits

\* Every step keeps the lifetimes nested and their ends meant.
LEMMA NestedNext == NestedInv /\ [Next]_vars => NestedInv'
<1> SUFFICES ASSUME NestedInv, [Next]_vars PROVE NestedInv'
  OBVIOUS
<1>1. CASE UNCHANGED vars
  <2>1. ListedInv'  BY <1>1, ListedNext DEF NestedInv
  <2>2. Tidy(reg', NoAgent, held', loops', asked', spent'.created)
    BY <1>1 DEF NestedInv, vars
  <2> QED BY <2>1, <2>2 DEF NestedInv
<1>2. CASE Requests
  <2>1. PICK ask \in spent.of.asks : LET c == ask[1] a == ask[2] IN
          \/ \E id \in Identities(a) :
               \/ Create(c, a, id)
               \/ \E parent \in 1 .. spent.of.creations : CreateChild(c, a, id, parent)
          \/ \E wait \in BOOLEAN : Find(c, a, wait)
          \/ \E id \in 1 .. spent.created[a] : Close(c, a, id)
    BY <1>2 DEF Requests
  <2> DEFINE c == ask[1] a == ask[2]
  <2>2. c \in Callers /\ a \in Agents  BY ListedFacts DEF NestedInv
  <2>3. CASE \E id \in Identities(a) : Create(c, a, id)
    BY <2>2, <2>3, NestedCreate
  <2>4. CASE \E id \in Identities(a), parent \in 1 .. spent.of.creations : CreateChild(c, a, id, parent)
    BY <2>2, <2>4, NestedCreateChild
  <2>5. CASE \E wait \in BOOLEAN : Find(c, a, wait)
    BY <2>2, <2>5, NestedFind
  <2>6. CASE \E id \in 1 .. spent.created[a] : Close(c, a, id)
    BY <2>2, <2>6, NestedClose
  <2> QED BY <2>1, <2>3, <2>4, <2>5, <2>6
<1>3. CASE StopAdmission  BY <1>3, NestedStopAdmission
<1>4. CASE Save  BY <1>4, NestedSave
<1>5. CASE ChangeNotice  BY <1>5, NestedChangeNotice
<1>6. CASE Verifications  BY <1>6, NestedVerifyAnswers, NestedVerified DEF Verifications
<1>7. ASSUME NEW a \in Agents, Starts(a) PROVE NestedInv'
  BY <1>7, NestedReadSettings, NestedConfigurationPrepared, NestedClaim, NestedComponentAnswers,
     NestedStartupResult DEF Starts
<1>8. ASSUME NEW a \in Agents, Closes(a) PROVE NestedInv'
  BY <1>8, NestedReleaseExecution, NestedReleaseLoop, NestedReleaseComponent, NestedReleaseChild,
     NestedShutdownResult DEF Closes
<1>9. ASSUME NEW a \in Agents, Replaces(a) PROVE NestedInv'
  BY <1>9, NestedRestartClose, NestedRestartMoves, NestedRestartCreate, NestedRestartCreated
     DEF Replaces
<1>10. ASSUME NEW a \in Agents, LoopLost(a) PROVE NestedInv'
  BY <1>10, NestedLoopLost
<1> QED BY <1>1, <1>2, <1>3, <1>4, <1>5, <1>6, <1>7, <1>8, <1>9, <1>10 DEF Next

\* What is held is held by the lifetime that is listed.
LEMMA HeldFacts ==
  ASSUME NestedInv, NEW a \in Agents
  PROVE  /\ \A r : r \in HeldBy(a) <=> <<a, reg.of[a].id, r>> \in held
         /\ HeldBy(a) \subseteq Resources
         /\ HeldBy(a) # {} => reg.of[a].life \notin Gone
<1>1. /\ NothingLeaks /\ held \subseteq Agents \X Lifetimes \X Resources
      /\ Creations \in Nat /\ saved \in Nat
      /\ Kept(reg, held, spent.created, Creations, saved)
  BY NestedFacts, ListedImplies DEF ResourcesAreListed, ListedInv, OthersInv
<1>2. ASSUME NEW r \in HeldBy(a)
      PROVE  /\ <<a, reg.of[a].id, r>> \in held /\ r \in Resources
             /\ reg.of[a].life \notin Gone
  <2>1. PICK h \in held : h[1] = a /\ h[3] = r  BY <1>2 DEF HeldBy
  <2>2. h = <<a, h[2], r>> /\ r \in Resources  BY <1>1, <2>1
  <2>3. Current(reg, a, h[2])  BY <1>1, <2>1 DEF NothingLeaks
  <2>4. reg.of[a].life \notin {"absent", "closed"}  BY <1>1, <2>3, CurrentIsRegistered
  <2>5. h[2] = reg.of[a].id  BY <2>3 DEF Current
  <2> QED BY <2>1, <2>2, <2>4, <2>5 DEF Gone
<1>3. ASSUME NEW r, <<a, reg.of[a].id, r>> \in held PROVE r \in HeldBy(a)
  <2> DEFINE h == <<a, reg.of[a].id, r>>
  <2>1. h \in held /\ h[1] = a /\ h[3] = r  BY <1>3
  <2> HIDE DEF h
  <2> QED BY <2>1 DEF HeldBy
<1> QED BY <1>2, <1>3

\* What the invariant says to a reader.
LEMMA NestedImplies == NestedInv => LifetimesNest /\ ClosesAreMeant
<1> SUFFICES ASSUME NestedInv PROVE LifetimesNest /\ ClosesAreMeant
  OBVIOUS
<1>1. \A a \in Agents : Fits(reg, held, loops, asked, spent.created, a)
  BY NestedFacts DEF Tidy
<1>2. DependenciesOutlive
  <2> SUFFICES ASSUME NEW a \in Agents
               PROVE  LET kinds == {r[1] : r \in HeldBy(a)} IN
                      /\ kinds \cap Users # {} => SharedKinds \subseteq kinds
                      /\ kinds # {} => "conversation" \in kinds \/ kinds = {"loop"}
                      /\ a \notin Roots /\ kinds # {} => Shared \subseteq HeldBy(Parent[a])
    BY DEF DependenciesOutlive, Users, Shared, SharedKinds
  <2> DEFINE kinds == {r[1] : r \in HeldBy(a)}
  <2>1. Beside(reg.of[a], held, a)  BY <1>1 DEF Fits, Ordered
  <2>2. /\ \A r : r \in HeldBy(a) <=> <<a, reg.of[a].id, r>> \in held
        /\ HeldBy(a) \subseteq Resources
        /\ HeldBy(a) # {} => reg.of[a].life \notin Gone
    BY HeldFacts
  <2>3. kinds \cap Users # {} => SharedKinds \subseteq kinds
    <3> SUFFICES ASSUME NEW r \in HeldBy(a), r[1] \in Users PROVE SharedKinds \subseteq kinds
      OBVIOUS
    <3>1. Shared \subseteq HeldBy(a)  BY <2>1, <2>2 DEF Beside
    <3>2. \A u \in Shared : u[1] \in kinds  BY <3>1
    <3> HIDE DEF kinds
    <3> QED BY <3>2 DEF Shared, SharedKinds
  <2>4. kinds # {} => "conversation" \in kinds \/ kinds = {"loop"}
    <3> SUFFICES ASSUME NEW r \in HeldBy(a), r[1] # "loop" PROVE "conversation" \in kinds
      OBVIOUS
    <3>1. <<"conversation", 0>> \in HeldBy(a)  BY <2>1, <2>2 DEF Beside
    <3>2. <<"conversation", 0>>[1] \in kinds  BY <3>1
    <3> HIDE DEF kinds
    <3> QED BY <3>2
  <2>5. a \notin Roots /\ kinds # {} => Shared \subseteq HeldBy(Parent[a])
    <3> SUFFICES ASSUME a \notin Roots, HeldBy(a) # {} PROVE Shared \subseteq HeldBy(Parent[a])
      OBVIOUS
    <3>1. Parent[a] \in Agents  BY ParentFacts
    <3>2. Inside(reg.of[a], reg.of[Parent[a]], Parent[a], held)  BY <1>1 DEF Fits
    <3>3. \A u \in Shared : <<Parent[a], reg.of[Parent[a]].id, u>> \in held
      BY <2>2, <3>2 DEF Inside
    <3> QED BY <3>1, <3>3, HeldFacts
  <2> QED BY <2>3, <2>4, <2>5
<1>3. ChildInsideParent
  <2> SUFFICES ASSUME NEW a \in Agents \ Roots, Registered(reg, a)
               PROVE  Registered(reg, Parent[a]) /\ reg.of[a].parent = reg.of[Parent[a]].id
    BY DEF ChildInsideParent
  <2>1. Inside(reg.of[a], reg.of[Parent[a]], Parent[a], held)  BY <1>1 DEF Fits
  <2> QED BY <2>1 DEF Inside, Registered, Gone
<1>4. OneExecutor
  <2> SUFFICES ASSUME NEW a \in Agents, loops[a].creation # 0
               PROVE  /\ Current(reg, a, loops[a].creation)
                      /\ reg.of[a].instance = loops[a].instance
    BY DEF OneExecutor
  <2>1. Executing(reg.of[a], loops[a])  BY <1>1 DEF Fits, Ordered
  <2> QED BY <2>1 DEF Executing, Current
<1>5. ClosesForAReason
  <2> SUFFICES ASSUME NEW a \in Agents, reg.of[a].life = "closing"
               PROVE  \/ reg.of[a].failed \/ reg.stopped
                      \/ asked \cap {<<a, Lifetime(a), "close">>, <<a, Lifetime(a), "lost">>} # {}
                      \/ reg.restarts[a].stage # "none" /\ reg.restarts[a].of = Lifetime(a)
                      \/ \E b \in Ancestors[a] : reg.of[b].life = "closing"
    BY DEF ClosesForAReason
  <2>1. Due(reg.of[a], Over(reg, a), reg.restarts[a], reg.stopped, asked, a)
    BY <1>1 DEF Fits, Reason
  <2>2. CASE Over(reg, a) = "closing"
    <3>1. a \notin Roots /\ reg.of[Parent[a]].life = "closing"  BY <2>2 DEF Over
    <3>2. Parent[a] \in Ancestors[a]  BY <3>1, ForestAssumption DEF Roots
    <3> QED BY <3>1, <3>2
  <2> QED BY <2>1, <2>2 DEF Due, Lifetime
<1>6. ExplicitCloseIsFinal
  <2> SUFFICES ASSUME NEW a \in Agents, ~Restarts(a, {"none", "failed"})
               PROVE  <<a, reg.restarts[a].of, "close">> \notin asked /\ ~reg.stopped
    BY DEF ExplicitCloseIsFinal
  <2>1. Meant(reg.of[a], reg.restarts[a], reg.stopped, reg.selfCloses, asked, spent.created[a], a)
    BY <1>1 DEF Fits
  <2> QED BY <2>1 DEF Meant, Restarts
<1> QED BY <1>2, <1>3, <1>4, <1>5, <1>6 DEF LifetimesNest, ClosesAreMeant

\* In every behaviour of the Registry the lifetimes nest and their ends are meant.
THEOREM NestingInvariance == Spec => []NestedInv
<1> QED BY NestedInit, NestedNext, PTL DEF Spec

\* However starts, closes, replacements and lost AgentLoops interleave, a component
\* is held only while what it uses is (registerComponents, nextRelease), a child
\* lives inside the lifetime of its parent that admitted it, and one AgentLoop
\* executes for an Agent, for the lifetime that is listed.
THEOREM LifetimesStayNested == Spec => []LifetimesNest
<1> QED BY NestingInvariance, NestedImplies, PTL

\* An Agent closes because its start failed, somebody asked, it is replaced, its
\* parent closes or the server stops; and a close that somebody asked for ends the
\* replacement of that lifetime for good (cancelRestarts).
THEOREM ClosesStayMeant == Spec => []ClosesAreMeant
<1> QED BY NestingInvariance, NestedImplies, PTL
=============================================================================
