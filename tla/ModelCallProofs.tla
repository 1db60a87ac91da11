---------------------------- MODULE ModelCallProofs ----------------------------
(***************************************************************************)
(* What ModelCall promises, proved for every setting: a call the Grain no  *)
(* longer holds is released, a cancelled request opens no generation, and  *)
(* the log says what was asked and what was answered.                      *)
(*                                                                         *)
(* The invariant has three parts.  RequestOK is about the request alone.   *)
(* LogFits relates it to the log: what is recorded describes the attempt   *)
(* that is under way.  WorkerFits relates it to the messages and to the    *)
(* Worker: an identity belongs to one request, and only the call the Grain *)
(* holds may have a stream.                                                *)
(***************************************************************************)
EXTENDS ModelCall, PrefixLemmas, FiniteSetTheorems

----------------------------------------------------------------------------
(* The shapes of the state.                                                *)

Kinds == {"start", "read", "close", "cancel"}
Chunks == {"text", "bad", "stop", "error"}
ConfigNames == Configs \cup {"none"}

Token == [k : Kinds, call : Nat \ {0}, id : Nat \ {0}]

EntryType ==
  [k : {"header", "context", "chunk", "message", "surface"}, r : Nat, a : Nat,
   c : ConfigNames, v : Seq(Nat) \cup (Nat \X Chunks)]

AttemptType ==
  [st : {"proposed", "readingLog", "opening", "committingHeader", "committingContext",
         "checking", "reading", "committingChunk", "closing", "committingMessage", "completed"},
   first : BOOLEAN, base : Nat, surface : Nat, config : ConfigNames, context : BOOLEAN,
   header : BOOLEAN, closed : BOOLEAN, failed : BOOLEAN, chunks : Seq(Nat),
   pending : Chunks \cup {"none"}, last : Chunks \cup {"none"}]

RequestType ==
  [phase : {"unstarted", "running", "recovering", "retryingClose", "done"},
   cancel : BOOLEAN, failed : BOOLEAN, err : BOOLEAN, closed : BOOLEAN, header : BOOLEAN,
   logged : BOOLEAN, requests : Nat, attempts : Nat, try : AttemptType, call : Nat,
   pending : SUBSET Token, sends : Seq(Token)]

InvocationType ==
  [active : BOOLEAN, call : {"none", "prepared", "open"},
   task : {NoTask} \cup [k : {"start", "read", "close"}, id : Nat \ {0}],
   closing : Nat, stopped : BOOLEAN, pos : Nat, over : BOOLEAN]

SpentType == [of : Settings, faults : Nat, timeouts : Nat, cancels : Nat, others : Nat]

ReplyType ==
  [k : Kinds, call : Nat \ {0}, id : Nat \ {0}, err : BOOLEAN,
   value : ConfigNames \cup Chunks \cup {"end"}]

----------------------------------------------------------------------------
(* The request.                                                            *)

Running(w) == w.phase \in {"running", "retryingClose"}
In(w, states) == Running(w) /\ w.try.st \in states
Streaming == {"opening", "committingHeader", "committingContext", "checking", "reading",
              "committingChunk"}

\* The call is that of the current attempt, held from the moment its generation
\* is asked for until its close is confirmed.
CallOK(w) ==
  /\ w.call \in {0, w.attempts}
  /\ (w.closed \/ w.try.closed \/ In(w, {"readingLog"})) => w.call = 0
  /\ w.phase \in {"recovering", "unstarted"} => w.closed
  /\ Running(w) => ~w.closed
  /\ ~w.closed => w.attempts >= 1
  /\ In(w, Streaming) => w.call = w.attempts

\* What an attempt has come to when it asks for its generation, when a message may
\* be committed, and when a close is asked for again.
OutcomeOK(w) ==
  /\ In(w, {"readingLog"}) =>
       ~w.try.closed /\ w.try.last = "none" /\ w.try.pending = "none"
  /\ In(w, {"committingMessage"}) =>
       w.phase = "running" /\ w.try.closed /\ ~w.try.failed /\ w.try.last # "error"
  /\ In(w, {"committingChunk"}) => w.try.last # "error" /\ w.try.pending # "none"
  /\ w.phase = "retryingClose" \/ (w.phase = "done" /\ ~w.closed) =>
       w.failed /\ w.try.failed

\* Beside cancellations one request is unanswered, that of the present phase.
PendingOK(w) ==
  /\ IsFiniteSet(w.pending)
  /\ \A p \in w.pending :
       p.k # "cancel" =>
         /\ p.call = w.call /\ Running(w)
         /\ p.k = "start" => w.try.st = "opening"
         /\ p.k = "read" => w.try.st = "reading"
         /\ p.k = "close" => w.try.st = "closing"
  /\ \A p, q \in w.pending : p.k # "cancel" /\ q.k # "cancel" => p = q

RequestOK(w) == w \in RequestType /\ CallOK(w) /\ OutcomeOK(w) /\ PendingOK(w)

----------------------------------------------------------------------------
(* The request and the log.                                                *)

HeaderWritten(entries) ==
  \E j \in DOMAIN entries : entries[j].k = "header" /\ entries[j].a # 0

\* The entries are of this attempt and request and those before it.
EntriesFit(w, entries) ==
  \A i \in DOMAIN entries : entries[i].a <= w.attempts /\ entries[i].r <= w.requests

\* An activation knows whether it restated its header.
HeaderFits(w, entries) ==
  /\ w.logged \/ w.header \/ w.try.header => HeaderWritten(entries)
  /\ ~w.closed /\ ~w.try.first => w.logged \/ w.header

\* What describes the request is in the log before its stream is read.
ConfigFits(w, entries) ==
  /\ In(w, {"opening"}) =>
       /\ w.try.base <= Len(entries)
       /\ \A kind \in {"header", "context"} :
            LatestOf(SubSeq(entries, 1, w.try.base), kind) = LatestOf(entries, kind)
  /\ In(w, {"committingHeader"}) /\ ~w.try.context => LatestOf(entries, "context") = w.try.config
  /\ In(w, {"committingContext", "checking", "reading", "committingChunk"}) =>
       LatestOf(entries, "header") = w.try.config /\ HeaderWritten(entries)
  /\ In(w, {"checking", "reading", "committingChunk"}) =>
       LatestOf(entries, "context") = w.try.config

\* The attempt knows every chunk it committed, in order, until one commit fails.
ChunksFit(w, entries) ==
  Running(w) /\ ~w.try.failed =>
    LET src == w.try.chunks IN
    /\ ToSet(src) = {j \in DOMAIN entries : entries[j].k = "chunk" /\ entries[j].a = w.attempts}
    /\ \A n \in DOMAIN src :
         /\ entries[src[n]].v[1] = n
         /\ entries[src[n]].v[2] = "error" => w.try.last = "error"
    /\ \A n \in 1..(Len(src) - 1) : src[n] < src[n + 1]

\* A message of this request or attempt ended it, and a success has one.
MessageFits(w, entries) ==
  /\ \A i \in DOMAIN entries :
       entries[i].k = "message" /\ (entries[i].a = w.attempts \/ entries[i].r = w.requests) =>
         w.phase = "done" /\ w.closed
  /\ w.phase = "done" /\ ~w.err =>
       /\ w.closed
       /\ \E i \in DOMAIN entries : entries[i].k = "message" /\ entries[i].a = w.attempts

LogFits(w, entries) ==
  /\ EntriesFit(w, entries) /\ HeaderFits(w, entries) /\ ConfigFits(w, entries)
  /\ ChunksFit(w, entries) /\ MessageFits(w, entries)

----------------------------------------------------------------------------
(* The request, the messages and the Worker.                               *)

TokenOf(r) == [k |-> r.k, call |-> r.call, id |-> r.id]
Working == {c \in Calls : calls[c].task # NoTask}
Closing == {c \in Calls : calls[c].closing # 0}

\* Every trace of a request: the client's, on its way, in work, answered.
Tokens ==
  agent.pending \cup ToSet(mail) \cup {TokenOf(r) : r \in replies}
    \cup {[k |-> calls[c].task.k, call |-> c, id |-> calls[c].task.id] : c \in Working}
    \cup {[k |-> "close", call |-> c, id |-> calls[c].closing] : c \in Closing}

\* The last attempt a generation was asked for.
LastOpened(w) == IF In(w, {"readingLog"}) THEN w.attempts - 1 ELSE w.attempts

TokensFit ==
  /\ Tokens \subseteq Token
  /\ \A s, t \in Tokens : s.id = t.id => s = t
  /\ \A t \in Tokens : t.call <= LastOpened(agent)

Asked(c) == \E i \in DOMAIN mail : mail[i].call = c /\ mail[i].k = "start"

\* A generation is asked for once, works only for the call that is held, and is
\* not there when its close was confirmed.
StreamsFit ==
  /\ \A c \in Calls : ~calls[c].active => calls[c].task = NoTask /\ calls[c].closing = 0
  /\ \A c \in Calls : calls[c].active => c = agent.call /\ ~Asked(c)
  /\ \A i \in DOMAIN mail : mail[i].k = "start" => mail[i].call = agent.call
  /\ \A i, j \in DOMAIN mail : mail[i].k = "start" /\ mail[j].k = "start" => i = j
  /\ \A r \in replies : r.k = "close" /\ ~r.err => ~Live(r.call)

\* After a failed finish a stream has nothing but its end.
Exhausted(c) == (~calls[c].active \/ calls[c].over) /\ ~Asked(c)
FinishFits ==
  /\ \A r \in replies : r.k = "read" /\ ~r.err /\ r.value = "error" => Exhausted(r.call)
  /\ agent.call # 0 /\ (agent.try.last = "error" \/ agent.try.pending = "error") =>
       Exhausted(agent.call)
  /\ \A p \in agent.pending, r \in replies :
       p.id = r.id /\ r.k = "read" /\ ~r.err /\ agent.try.last = "error" => r.value = "end"

RepliesOK ==
  /\ IsFiniteSet(replies) /\ replies \subseteq ReplyType
  /\ \A r \in replies :
       /\ r.k = "start" /\ ~r.err => r.value \in Configs
       /\ r.k = "read" /\ ~r.err => r.value \in Chunks \cup {"end"}

BoundsOK ==
  /\ spent \in SpentType /\ agent.attempts <= spent.of.attempts

WorkerFits ==
  /\ BoundsOK /\ mail \in Seq(Token) /\ calls \in [Calls -> InvocationType] /\ RepliesOK
  /\ TokensFit /\ StreamsFit /\ FinishFits

LogOK == log \in Seq(EntryType)

RequestFits == RequestOK(agent) /\ agent.sends = <<>> /\ LogFits(agent, log) /\ WorkerFits

\* What was recorded of requests that are over does not depend on the present one.
History == RequestIsRecorded /\ OneMessagePerRequest /\ MessageIsWhatStreamed
CallInv == RequestFits /\ LogOK /\ History
-----------------------------------------------------------------------------
(* Lemmas on entries and identities.                                       *)

\* Appending to a log keeps its entries, and their prefixes.
LEMMA AppendKeeps ==
  ASSUME NEW S, NEW s \in Seq(S), NEW e \in S
  PROVE  /\ Append(s, e) \in Seq(S) /\ Len(Append(s, e)) = Len(s) + 1 /\ Len(s) \in Nat
         /\ DOMAIN s = 1 .. Len(s) /\ DOMAIN Append(s, e) = 1 .. Len(s) + 1
         /\ \A i \in 1 .. Len(s) : Append(s, e)[i] = s[i]
         /\ Append(s, e)[Len(s) + 1] = e
         /\ \A n \in 0 .. Len(s) : SubSeq(Append(s, e), 1, n) = SubSeq(s, 1, n)
<1>1. /\ Append(s, e) \in Seq(S) /\ Len(Append(s, e)) = Len(s) + 1
      /\ \A i \in 1 .. Len(s) : Append(s, e)[i] = s[i]
      /\ Append(s, e)[Len(s) + 1] = e
  BY AppendProperties
<1>2. /\ Len(s) \in Nat /\ DOMAIN s = 1 .. Len(s)
      /\ DOMAIN Append(s, e) = 1 .. Len(Append(s, e))
  BY <1>1, LenProperties
<1>3. IsPrefix(s, Append(s, e))
  <2>1. Len(s) <= Len(Append(s, e)) /\ \A i \in 1 .. Len(s) : s[i] = Append(s, e)[i]
    BY <1>1, <1>2
  <2>2. QED BY <1>1, <2>1, PrefixPointwise
<1>4. \A n \in 0 .. Len(s) : SubSeq(Append(s, e), 1, n) = SubSeq(s, 1, n)
  BY <1>1, <1>3, SamePrefix
<1>5. QED BY <1>1, <1>2, <1>4

\* The latest entry of a kind is the one appended, or the one there was.
LEMMA LatestOfAppend ==
  ASSUME NEW S, NEW s \in Seq(S), NEW e \in S, NEW kind
  PROVE  LatestOf(Append(s, e), kind) = IF e.k = kind THEN e.c ELSE LatestOf(s, kind)
<1> DEFINE t == Append(s, e)
           last(q) == {i \in DOMAIN q :
                         q[i].k = kind /\ \A j \in DOMAIN q : j > i => q[j].k # kind}
<1>1. /\ Len(s) \in Nat /\ DOMAIN s = 1 .. Len(s) /\ DOMAIN t = 1 .. Len(s) + 1
      /\ \A i \in 1 .. Len(s) : t[i] = s[i]
      /\ t[Len(s) + 1] = e
  BY AppendKeeps
<1>2. \A q : LatestOf(q, kind) =
               IF last(q) = {} THEN "none" ELSE q[CHOOSE i \in last(q) : TRUE].c
  BY DEF LatestOf
<1> HIDE DEF t
<1>3. CASE e.k = kind
  <2>1. last(t) = {Len(s) + 1} BY <1>1, <1>3
  <2>2. (CHOOSE i \in {Len(s) + 1} : TRUE) = Len(s) + 1 OBVIOUS
  <2>3. LatestOf(t, kind) = t[Len(s) + 1].c BY <1>2, <2>1, <2>2
  <2>4. QED BY <1>1, <1>3, <2>3 DEF t
<1>4. CASE e.k # kind
  <2>1. last(t) = last(s) BY <1>1, <1>4
  <2>2. ASSUME last(s) # {} PROVE t[CHOOSE i \in last(s) : TRUE] = s[CHOOSE i \in last(s) : TRUE]
    <3>1. (CHOOSE i \in last(s) : TRUE) \in last(s) BY <2>2
    <3>2. (CHOOSE i \in last(s) : TRUE) \in 1 .. Len(s) BY <1>1, <3>1
    <3>3. QED BY <1>1, <3>2
  <2> HIDE DEF last
  <2>3. CASE last(s) = {} BY <1>2, <1>4, <2>1, <2>3 DEF t
  <2>4. CASE last(s) # {} BY <1>2, <1>4, <2>1, <2>2, <2>4 DEF t
  <2>5. QED BY <2>3, <2>4
<1>5. QED BY <1>3, <1>4

\* A set of what a finite set is mapped to is finite.
LEMMA ImageIsFinite ==
  ASSUME NEW D, IsFiniteSet(D), NEW f, f = [x \in D |-> f[x]]
  PROVE  IsFiniteSet({f[x] : x \in D})
<1>1. f \in Surjection(D, {f[x] : x \in D}) BY DEF Surjection
<1>2. QED BY <1>1, FS_Surjection

\* There is an identity that nobody uses.
LEMMA FreshIdentity ==
  ASSUME IsFiniteSet(agent.pending), IsFiniteSet(replies), mail \in Seq(Token),
         spent.of.attempts \in Nat
  PROVE  FreshID \in Nat \ {0} /\ FreshID \notin Used
<1>1. IsFiniteSet({p.id : p \in agent.pending})
  <2> DEFINE f == [p \in agent.pending |-> p.id]
  <2>1. IsFiniteSet({f[p] : p \in agent.pending}) BY ImageIsFinite
  <2>2. {f[p] : p \in agent.pending} = {p.id : p \in agent.pending} OBVIOUS
  <2>3. QED BY <2>1, <2>2
<1>2. IsFiniteSet({r.id : r \in replies})
  <2> DEFINE f == [r \in replies |-> r.id]
  <2>1. IsFiniteSet({f[r] : r \in replies}) BY ImageIsFinite
  <2>2. {f[r] : r \in replies} = {r.id : r \in replies} OBVIOUS
  <2>3. QED BY <2>1, <2>2
<1>3. IsFiniteSet({mail[i].id : i \in DOMAIN mail})
  <2> DEFINE f == [i \in DOMAIN mail |-> mail[i].id]
  <2>1. IsFiniteSet(DOMAIN mail) BY LenProperties, FS_Interval
  <2>2. IsFiniteSet({f[i] : i \in DOMAIN mail}) BY <2>1, ImageIsFinite
  <2>3. {f[i] : i \in DOMAIN mail} = {mail[i].id : i \in DOMAIN mail} OBVIOUS
  <2>4. QED BY <2>2, <2>3
<1>4. IsFiniteSet(Calls)
  <2>1. 1 \in Int /\ spent.of.attempts \in Int OBVIOUS
  <2>2. QED BY <2>1, FS_Interval DEF Calls
<1>5. IsFiniteSet({calls[c].task.id : c \in Calls})
  <2> DEFINE f == [c \in Calls |-> calls[c].task.id]
  <2>1. IsFiniteSet({f[c] : c \in Calls}) BY <1>4, ImageIsFinite
  <2>2. {f[c] : c \in Calls} = {calls[c].task.id : c \in Calls} OBVIOUS
  <2>3. QED BY <2>1, <2>2
<1>6. IsFiniteSet({calls[c].closing : c \in Calls})
  <2> DEFINE f == [c \in Calls |-> calls[c].closing]
  <2>1. IsFiniteSet({f[c] : c \in Calls}) BY <1>4, ImageIsFinite
  <2>2. {f[c] : c \in Calls} = {calls[c].closing : c \in Calls} OBVIOUS
  <2>3. QED BY <2>1, <2>2
<1>7. IsFiniteSet(Used)
  <2>1. IsFiniteSet({p.id : p \in agent.pending} \cup {mail[i].id : i \in DOMAIN mail})
    BY <1>1, <1>3, FS_Union
  <2>2. IsFiniteSet({p.id : p \in agent.pending} \cup {mail[i].id : i \in DOMAIN mail}
                      \cup {r.id : r \in replies})
    BY <1>2, <2>1, FS_Union
  <2>3. IsFiniteSet({p.id : p \in agent.pending} \cup {mail[i].id : i \in DOMAIN mail}
                      \cup {r.id : r \in replies} \cup {calls[c].task.id : c \in Calls})
    BY <1>5, <2>2, FS_Union
  <2>4. QED BY <1>6, <2>3, FS_Union DEF Used
<1>8. Cardinality(Used) \in Nat BY <1>7, FS_CardinalityType
<1> DEFINE n == Cardinality(Used) + 1
<1>9. Cardinality(1 .. n) = n
  <2>1. 1 \in Int /\ n \in Int /\ ~(1 > n) BY <1>8
  <2>2. Cardinality(1 .. n) = n - 1 + 1 BY <2>1, FS_Interval
  <2>3. QED BY <1>8, <2>2
<1>10. \E m \in 1 .. n : m \notin Used
  <2>1. SUFFICES ASSUME 1 .. n \subseteq Used PROVE FALSE OBVIOUS
  <2>2. Cardinality(1 .. n) <= Cardinality(Used) BY <1>7, <2>1, FS_Subset
  <2>3. QED BY <1>8, <1>9, <2>2
<1>11. FreshID \in 1 .. n /\ FreshID \notin Used BY <1>10 DEF FreshID
<1>12. QED BY <1>8, <1>11

-----------------------------------------------------------------------------
(* What the handlers make of a request.                                    *)

\* A request between two phases: nothing but cancellations is unanswered.
Between(w) ==
  /\ w \in RequestType /\ w.sends = <<>>
  /\ Running(w) /\ ~w.closed /\ w.attempts >= 1 /\ w.call \in {0, w.attempts}
  /\ w.try.closed => w.call = 0
  /\ w.phase = "retryingClose" => w.failed /\ w.try.failed
  /\ IsFiniteSet(w.pending) /\ \A p \in w.pending : p.k = "cancel"

\* A handler keeps the call and sends at most one request for it.
Asking(w, k) == [k |-> k, call |-> w.call, id |-> FreshID]
Follows(v, w) ==
  /\ w.call = v.call /\ w.attempts = v.attempts /\ w.requests = v.requests
  /\ w.try.last = v.try.last /\ w.try.pending = v.try.pending
  /\ ~In(w, {"readingLog"})
  /\ \/ w.sends = <<>> /\ w.pending = v.pending
     \/ \E k \in {"read", "close"} :
          w.sends = <<Asking(v, k)>> /\ w.pending = v.pending \cup {Asking(v, k)}

\* The outcome of an attempt, field by field.
Outcome(w, failed) ==
  [w EXCEPT !.try.st = "completed", !.try.failed = failed,
            !.header = @ \/ w.try.header, !.closed = w.try.closed]

\* What acceptAttempt writes down of an attempt that is over.
LEMMA OutcomeFields ==
  ASSUME NEW w \in RequestType, NEW failed \in BOOLEAN
  PROVE  LET r == Outcome(w, failed) IN
         /\ r \in RequestType
         /\ r.try.st = "completed" /\ r.try.failed = failed
         /\ r.header = (w.header \/ w.try.header) /\ r.closed = w.try.closed
         /\ r.phase = w.phase /\ r.cancel = w.cancel /\ r.failed = w.failed /\ r.err = w.err
         /\ r.logged = w.logged /\ r.requests = w.requests /\ r.attempts = w.attempts
         /\ r.call = w.call /\ r.pending = w.pending /\ r.sends = w.sends
         /\ r.try.header = w.try.header /\ r.try.closed = w.try.closed
         /\ r.try.first = w.try.first
         /\ r.try.last = w.try.last /\ r.try.pending = w.try.pending
BY ZenonT(30) DEF Outcome, RequestType, AttemptType

\* What finishing a request writes down.
LEMMA FinishFields ==
  ASSUME NEW w \in RequestType, NEW failed \in BOOLEAN
  PROVE  LET r == Finish(w, failed) IN
         /\ r \in RequestType
         /\ r.phase = "done" /\ r.failed = (failed \/ w.cancel) /\ r.err = (failed \/ w.cancel)
         /\ r.logged = (w.logged \/ w.header)
         /\ r.header = w.header /\ r.closed = w.closed /\ r.cancel = w.cancel
         /\ r.requests = w.requests /\ r.attempts = w.attempts
         /\ r.call = w.call /\ r.pending = w.pending /\ r.sends = w.sends /\ r.try = w.try
BY DEF Finish, RequestType

\* What a handler leaves behind fits the request it was given, and the log.
Good(v, w, entries) == RequestOK(w) /\ LogFits(w, entries) /\ Follows(v, w)

\* How an attempt may end: in failure, with a failed finish, or with its message.
MayComplete(w, failed, entries) ==
  /\ w.phase = "retryingClose" \/ ~w.try.closed => failed
  /\ \/ MessageFits(w, entries) /\ (failed \/ w.cancel \/ w.try.last = "error")
     \/ /\ w.try.closed /\ w.try.last # "error"
        /\ \E i \in DOMAIN entries : entries[i].k = "message" /\ entries[i].a = w.attempts

\* A completed attempt ends its request, or asks for recovery.
LEMMA Completion ==
  ASSUME NEW w, Between(w), NEW failed \in BOOLEAN, NEW entries,
         EntriesFit(w, entries), HeaderFits(w, entries), MayComplete(w, failed, entries)
  PROVE  Good(w, CompleteAttempt(w, failed), entries)
<1> DEFINE r == Outcome(w, failed)
           R == CompleteAttempt(w, failed)
<1>0. w \in RequestType BY DEF Between
<1>1. /\ r \in RequestType
      /\ r.try.st = "completed" /\ r.try.failed = failed
      /\ r.header = (w.header \/ w.try.header) /\ r.closed = w.try.closed
      /\ r.phase = w.phase /\ r.cancel = w.cancel /\ r.failed = w.failed /\ r.err = w.err
      /\ r.logged = w.logged /\ r.requests = w.requests /\ r.attempts = w.attempts
      /\ r.call = w.call /\ r.pending = w.pending /\ r.sends = w.sends
      /\ r.try.header = w.try.header /\ r.try.closed = w.try.closed
      /\ r.try.first = w.try.first
      /\ r.try.last = w.try.last /\ r.try.pending = w.try.pending
  BY <1>0, OutcomeFields
<1>2. R = IF r.phase = "retryingClose" THEN Finish(r, r.failed \/ failed)
          ELSE IF failed \/ ~r.closed \/ r.cancel THEN Finish(r, failed \/ ~r.closed)
          ELSE IF r.try.last # "error" THEN Finish(r, FALSE)
          ELSE [r EXCEPT !.phase = "recovering", !.failed = TRUE]
  BY DEF CompleteAttempt, Outcome
<1> HIDE DEF r, R
<1>3. r.failed \in BOOLEAN /\ r.closed \in BOOLEAN /\ r.cancel \in BOOLEAN BY <1>1 DEF RequestType
<1>4. CASE R.phase = "recovering"
  <2>1. /\ ~(r.phase = "retryingClose") /\ ~failed /\ r.closed /\ ~r.cancel /\ r.try.last = "error"
        /\ R = [r EXCEPT !.phase = "recovering", !.failed = TRUE]
    BY <1>1, <1>2, <1>3, <1>4, FinishFields
  <2>2. /\ R \in RequestType /\ R.phase = "recovering" /\ R.closed = r.closed
        /\ R.call = r.call /\ R.attempts = r.attempts /\ R.requests = r.requests
        /\ R.pending = r.pending /\ R.sends = r.sends /\ R.try = r.try
        /\ R.header = r.header /\ R.logged = r.logged
    BY <1>1, <2>1 DEF RequestType
  <2>3. RequestOK(R)
    BY <1>1, <2>1, <2>2 DEF RequestOK, CallOK, OutcomeOK, PendingOK, Between, In, Running, Streaming
  <2>4. LogFits(R, entries)
    BY <1>1, <2>1, <2>2 DEF LogFits, EntriesFit, HeaderFits, ConfigFits, ChunksFit, MessageFits,
                           MayComplete, Between, In, Running
  <2>5. Follows(w, R) BY <1>1, <2>1, <2>2 DEF Follows, In, Running, Between
  <2>6. QED BY <2>3, <2>4, <2>5 DEF Good, R
<1>5. CASE R.phase # "recovering"
  <2>1. \E f \in BOOLEAN :
          /\ R = Finish(r, f)
          /\ r.phase = "retryingClose" => f = (r.failed \/ failed)
          /\ r.phase # "retryingClose" => f = (failed \/ ~r.closed)
          /\ f \/ r.cancel \/ r.closed
    <3>1. R # [r EXCEPT !.phase = "recovering", !.failed = TRUE] BY <1>1, <1>5 DEF RequestType
    <3>2. CASE r.phase = "retryingClose"
      <4>1. R = Finish(r, r.failed \/ failed) BY <1>2, <3>2
      <4>2. (r.failed \/ failed) \/ r.cancel \/ r.closed BY <1>1, <3>2 DEF Between
      <4>3. QED BY <1>3, <3>2, <4>1, <4>2
    <3>3. CASE r.phase # "retryingClose" /\ (failed \/ ~r.closed \/ r.cancel)
      <4>1. R = Finish(r, failed \/ ~r.closed) BY <1>2, <3>3
      <4>2. QED BY <1>3, <3>3, <4>1
    <3>4. CASE r.phase # "retryingClose" /\ ~(failed \/ ~r.closed \/ r.cancel)
      <4>1. R = Finish(r, failed \/ ~r.closed) BY <1>2, <3>1, <3>4
      <4>2. QED BY <1>3, <3>4, <4>1
    <3>5. QED BY <3>2, <3>3, <3>4
  <2>2. PICK f \in BOOLEAN :
          /\ R = Finish(r, f)
          /\ r.phase = "retryingClose" => f = (r.failed \/ failed)
          /\ r.phase # "retryingClose" => f = (failed \/ ~r.closed)
          /\ f \/ r.cancel \/ r.closed
    BY <2>1
  <2>3. /\ R \in RequestType
        /\ R.phase = "done" /\ R.failed = (f \/ r.cancel) /\ R.err = (f \/ r.cancel)
        /\ R.logged = (r.logged \/ r.header)
        /\ R.header = r.header /\ R.closed = r.closed
        /\ R.requests = r.requests /\ R.attempts = r.attempts
        /\ R.call = r.call /\ R.pending = r.pending /\ R.sends = r.sends /\ R.try = r.try
    BY <1>1, <2>2, FinishFields
  <2>4. ~R.closed => R.failed /\ R.try.failed
    BY <1>1, <1>3, <2>2, <2>3 DEF MayComplete
  <2>5. RequestOK(R)
    BY <1>1, <2>3, <2>4 DEF RequestOK, CallOK, OutcomeOK, PendingOK, Between, In, Running, Streaming
  <2>6. HeaderFits(R, entries) BY <1>1, <2>3 DEF HeaderFits, Between
  <2>7. MessageFits(R, entries)
    <3>1. w.phase # "done" BY DEF Between, Running
    <3>2. CASE MessageFits(w, entries) /\ (failed \/ w.cancel \/ w.try.last = "error")
      <4>1. \A i \in DOMAIN entries :
              entries[i].k = "message" => entries[i].a # w.attempts /\ entries[i].r # w.requests
        BY <3>1, <3>2 DEF MessageFits
      <4>2. R.err
        <5>1. SUFFICES ASSUME ~f, ~r.cancel PROVE FALSE BY <2>3
        <5>2. r.phase # "retryingClose" /\ ~failed /\ r.closed /\ r.try.last = "error"
          BY <1>1, <1>3, <2>2, <3>2, <5>1 DEF Between
        <5>3. R = [r EXCEPT !.phase = "recovering", !.failed = TRUE] BY <1>2, <5>1, <5>2
        <5>4. QED BY <1>1, <1>5, <5>3 DEF RequestType
      <4>3. QED BY <1>1, <2>3, <4>1, <4>2 DEF MessageFits
    <3>3. CASE /\ w.try.closed /\ w.try.last # "error"
               /\ \E i \in DOMAIN entries : entries[i].k = "message" /\ entries[i].a = w.attempts
      BY <1>1, <2>3, <3>3 DEF MessageFits
    <3>4. QED BY <3>2, <3>3 DEF MayComplete
  <2>8. LogFits(R, entries)
    BY <1>1, <2>3, <2>6, <2>7 DEF LogFits, EntriesFit, ConfigFits, ChunksFit, In, Running
  <2>9. Follows(w, R) BY <1>1, <2>3 DEF Follows, In, Running, Between
  <2>10. QED BY <2>5, <2>8, <2>9 DEF Good, R
<1>6. QED BY <1>4, <1>5


\* A request that is sent is awaited and on its way.
LEMMA SendFields ==
  ASSUME NEW w \in RequestType, NEW k \in Kinds, w.sends = <<>>, w.call # 0,
         FreshID \in Nat \ {0}
  PROVE  LET r == Send(w, k) IN
         /\ r \in RequestType /\ Asking(w, k) \in Token
         /\ r.pending = w.pending \cup {Asking(w, k)} /\ r.sends = <<Asking(w, k)>>
         /\ r.phase = w.phase /\ r.cancel = w.cancel /\ r.failed = w.failed /\ r.err = w.err
         /\ r.closed = w.closed /\ r.header = w.header /\ r.logged = w.logged
         /\ r.requests = w.requests /\ r.attempts = w.attempts /\ r.try = w.try
         /\ r.call = w.call
<1>1. Asking(w, k) \in Token BY DEF Asking, Token, RequestType
<1>2. Send(w, k) = [w EXCEPT !.pending = @ \cup {Asking(w, k)}, !.sends = Append(@, Asking(w, k))]
  BY DEF Send, Asking
<1>3. Append(w.sends, Asking(w, k)) = <<Asking(w, k)>> OBVIOUS
<1>4. <<Asking(w, k)>> \in Seq(Token) BY <1>1
<1> HIDE DEF Asking
<1>5. w.pending \cup {Asking(w, k)} \in SUBSET Token BY <1>1 DEF RequestType
<1>6. ASSUME NEW P \in SUBSET Token, NEW S \in Seq(Token)
      PROVE  LET r == [w EXCEPT !.pending = P, !.sends = S] IN
             /\ r \in RequestType /\ r.pending = P /\ r.sends = S
             /\ r.phase = w.phase /\ r.cancel = w.cancel /\ r.failed = w.failed /\ r.err = w.err
             /\ r.closed = w.closed /\ r.header = w.header /\ r.logged = w.logged
             /\ r.requests = w.requests /\ r.attempts = w.attempts /\ r.try = w.try
             /\ r.call = w.call
  BY DEF RequestType
<1> DEFINE P == w.pending \cup {Asking(w, k)}
           S == <<Asking(w, k)>>
<1>7. P \in SUBSET Token /\ S \in Seq(Token) /\ Send(w, k) = [w EXCEPT !.pending = P, !.sends = S]
  BY <1>2, <1>3, <1>4, <1>5
<1> HIDE DEF P, S
<1>8. LET r == Send(w, k) IN
      /\ r \in RequestType /\ r.pending = P /\ r.sends = S
      /\ r.phase = w.phase /\ r.cancel = w.cancel /\ r.failed = w.failed /\ r.err = w.err
      /\ r.closed = w.closed /\ r.header = w.header /\ r.logged = w.logged
      /\ r.requests = w.requests /\ r.attempts = w.attempts /\ r.try = w.try
      /\ r.call = w.call
  <2>1. LET r == [w EXCEPT !.pending = P, !.sends = S] IN
        /\ r \in RequestType /\ r.pending = P /\ r.sends = S
        /\ r.phase = w.phase /\ r.cancel = w.cancel /\ r.failed = w.failed /\ r.err = w.err
        /\ r.closed = w.closed /\ r.header = w.header /\ r.logged = w.logged
        /\ r.requests = w.requests /\ r.attempts = w.attempts /\ r.try = w.try
        /\ r.call = w.call
    BY <1>6, <1>7
  <2>2. QED BY <1>7, <2>1
<1>9. QED BY <1>1, <1>8 DEF P, S

\* The fields that change when an attempt moves to another phase, or fails.
LEMMA PhaseFields ==
  ASSUME NEW w \in RequestType,
         NEW st \in {"opening", "committingHeader", "committingContext", "checking", "reading",
                     "committingChunk", "closing", "committingMessage"},
         NEW r, r = [w EXCEPT !.try.st = st]
  PROVE  /\ r \in RequestType /\ r.try.st = st
         /\ r.pending = w.pending /\ r.sends = w.sends
         /\ r.phase = w.phase /\ r.cancel = w.cancel /\ r.failed = w.failed /\ r.err = w.err
         /\ r.closed = w.closed /\ r.header = w.header /\ r.logged = w.logged
         /\ r.requests = w.requests /\ r.attempts = w.attempts /\ r.call = w.call
         /\ r.try.first = w.try.first /\ r.try.base = w.try.base /\ r.try.config = w.try.config
         /\ r.try.context = w.try.context /\ r.try.header = w.try.header
         /\ r.try.closed = w.try.closed /\ r.try.failed = w.try.failed
         /\ r.try.chunks = w.try.chunks /\ r.try.pending = w.try.pending
         /\ r.try.last = w.try.last
BY DEF RequestType, AttemptType

\* Failing an attempt changes nothing but its verdict.
LEMMA FailureFields ==
  ASSUME NEW w \in RequestType
  PROVE  LET r == [w EXCEPT !.try.failed = TRUE] IN
         /\ r \in RequestType /\ r.try.failed = TRUE
         /\ r.pending = w.pending /\ r.sends = w.sends
         /\ r.phase = w.phase /\ r.cancel = w.cancel /\ r.failed = w.failed /\ r.err = w.err
         /\ r.closed = w.closed /\ r.header = w.header /\ r.logged = w.logged
         /\ r.requests = w.requests /\ r.attempts = w.attempts /\ r.call = w.call
         /\ r.try.st = w.try.st
         /\ r.try.first = w.try.first /\ r.try.base = w.try.base /\ r.try.config = w.try.config
         /\ r.try.context = w.try.context /\ r.try.header = w.try.header
         /\ r.try.closed = w.try.closed
         /\ r.try.chunks = w.try.chunks /\ r.try.pending = w.try.pending
         /\ r.try.last = w.try.last
BY DEF RequestType, AttemptType

\* What holds of the log whatever phase the attempt is in.
Recorded(w, entries) ==
  EntriesFit(w, entries) /\ HeaderFits(w, entries) /\ ChunksFit(w, entries) /\ MessageFits(w, entries)

\* Asking for the close of a stream leaves what was recorded as it is.
LEMMA Closes ==
  ASSUME NEW w, Between(w), NEW entries, Recorded(w, entries), FreshID \in Nat \ {0}
  PROVE  Good(w, CloseStream(w), entries)
<1> DEFINE c == [w EXCEPT !.try.st = "closing"]
           R == CloseStream(w)
<1>0. w \in RequestType BY DEF Between
<1>1. /\ c \in RequestType /\ c.try.st = "closing"
      /\ c.pending = w.pending /\ c.sends = <<>>
      /\ c.phase = w.phase /\ c.cancel = w.cancel /\ c.failed = w.failed /\ c.err = w.err
      /\ c.closed = w.closed /\ c.header = w.header /\ c.logged = w.logged
      /\ c.requests = w.requests /\ c.attempts = w.attempts /\ c.call = w.call
      /\ c.try.first = w.try.first /\ c.try.header = w.try.header
      /\ c.try.closed = w.try.closed /\ c.try.failed = w.try.failed
      /\ c.try.chunks = w.try.chunks /\ c.try.pending = w.try.pending
      /\ c.try.last = w.try.last
  <2>1. c = [w EXCEPT !.try.st = "closing"] OBVIOUS
  <2>2. w.sends = <<>> BY DEF Between
  <2> HIDE DEF c
  <2> QED BY <1>0, <2>1, <2>2, PhaseFields
<1>2. R = IF w.call = 0 THEN c ELSE Send(c, "close") BY DEF CloseStream
<1>3. Asking(c, "close") = Asking(w, "close") BY <1>1 DEF Asking
<1> HIDE DEF c, R
<1>4. /\ R \in RequestType /\ R.try = c.try
      /\ R.phase = w.phase /\ R.failed = w.failed /\ R.err = w.err /\ R.closed = w.closed
      /\ R.header = w.header /\ R.logged = w.logged
      /\ R.requests = w.requests /\ R.attempts = w.attempts /\ R.call = w.call
      /\ \/ R.sends = <<>> /\ R.pending = w.pending
         \/ /\ R.sends = <<Asking(w, "close")>> /\ R.pending = w.pending \cup {Asking(w, "close")}
  <2>1. CASE w.call = 0 BY <1>1, <1>2, <2>1
  <2>2. CASE w.call # 0
    <3>1. "close" \in Kinds BY DEF Kinds
    <3>2. QED BY <1>1, <1>2, <1>3, <2>2, <3>1, SendFields
  <2>3. QED BY <2>1, <2>2
<1>5. CallOK(R) /\ OutcomeOK(R)
  BY <1>1, <1>4 DEF CallOK, OutcomeOK, Between, In, Running, Streaming
<1>6. PendingOK(R)
  <2>1. IsFiniteSet(R.pending) BY <1>4, FS_AddElement DEF Between
  <2>2. ASSUME NEW p \in R.pending, p.k # "cancel"
        PROVE  p = Asking(w, "close") /\ p.k = "close" /\ p.call = R.call
    BY <1>4, <2>2 DEF Between, Asking
  <2>3. QED BY <1>1, <1>4, <2>1, <2>2 DEF PendingOK, Between, Running
<1>7. LogFits(R, entries)
  BY <1>1, <1>4 DEF LogFits, Recorded, EntriesFit, HeaderFits, ConfigFits, ChunksFit, MessageFits,
                    In, Running
<1>8. Follows(w, R) BY <1>1, <1>4 DEF Follows, In
<1>9. QED BY <1>4, <1>5, <1>6, <1>7, <1>8 DEF Good, RequestOK, R

\* However an attempt fails, it ends or its stream is closed.
LEMMA Failure ==
  ASSUME NEW w, Between(w), NEW entries, FreshID \in Nat \ {0},
         EntriesFit(w, entries), HeaderFits(w, entries), MessageFits(w, entries)
  PROVE  Good(w, FailAttempt(w), entries)
<1> DEFINE f == [w EXCEPT !.try.failed = TRUE]
<1>0. w \in RequestType BY DEF Between
<1>1. /\ f \in RequestType /\ f.try.failed = TRUE
      /\ f.pending = w.pending /\ f.sends = w.sends
      /\ f.phase = w.phase /\ f.cancel = w.cancel /\ f.failed = w.failed /\ f.err = w.err
      /\ f.closed = w.closed /\ f.header = w.header /\ f.logged = w.logged
      /\ f.requests = w.requests /\ f.attempts = w.attempts /\ f.call = w.call
      /\ f.try.first = w.try.first /\ f.try.header = w.try.header
      /\ f.try.closed = w.try.closed /\ f.try.pending = w.try.pending
      /\ f.try.last = w.try.last
  BY <1>0, FailureFields
<1>2. FailAttempt(w) = IF w.try.closed THEN CompleteAttempt(f, TRUE) ELSE CloseStream(f)
  BY DEF FailAttempt
<1> HIDE DEF f
<1>3. Between(f) BY <1>1 DEF Between, Running
<1>4. Recorded(f, entries) /\ MayComplete(f, TRUE, entries)
  BY <1>1 DEF Recorded, EntriesFit, HeaderFits, ChunksFit, MessageFits, MayComplete, Running
<1>5. \A x : Follows(f, x) => Follows(w, x)
  BY <1>1 DEF Follows, Asking
<1>6. CASE w.try.closed
  <2>1. Good(f, CompleteAttempt(f, TRUE), entries) BY <1>3, <1>4, Completion DEF Recorded
  <2>2. QED BY <1>2, <1>5, <1>6, <2>1 DEF Good
<1>7. CASE ~w.try.closed
  <2>1. Good(f, CloseStream(f), entries) BY <1>3, <1>4, Closes
  <2>2. QED BY <1>2, <1>5, <1>7, <2>1 DEF Good
<1>8. QED BY <1>6, <1>7


\* Moving a request to another phase disturbs nothing that was recorded.
LEMMA Moves ==
  ASSUME NEW w, Between(w), NEW entries, Recorded(w, entries),
         NEW st \in {"opening", "committingHeader", "committingContext", "checking", "reading",
                     "committingChunk", "closing", "committingMessage"}
  PROVE  LET r == [w EXCEPT !.try.st = st] IN
         /\ Between(r) /\ Recorded(r, entries) /\ \A x : Follows(r, x) => Follows(w, x)
<1> DEFINE r == [w EXCEPT !.try.st = st]
<1>0. w \in RequestType BY DEF Between
<1>1. /\ r \in RequestType /\ r.try.st = st
      /\ r.pending = w.pending /\ r.sends = w.sends
      /\ r.phase = w.phase /\ r.cancel = w.cancel /\ r.failed = w.failed /\ r.err = w.err
      /\ r.closed = w.closed /\ r.header = w.header /\ r.logged = w.logged
      /\ r.requests = w.requests /\ r.attempts = w.attempts /\ r.call = w.call
      /\ r.try.first = w.try.first /\ r.try.header = w.try.header
      /\ r.try.closed = w.try.closed /\ r.try.failed = w.try.failed
      /\ r.try.chunks = w.try.chunks /\ r.try.pending = w.try.pending
      /\ r.try.last = w.try.last
  BY <1>0 DEF RequestType, AttemptType
<1> HIDE DEF r
<1>2. Between(r) BY <1>1 DEF Between, Running
<1>3. Recorded(r, entries)
  BY <1>1 DEF Recorded, EntriesFit, HeaderFits, ChunksFit, MessageFits, Running
<1>4. \A x : Follows(r, x) => Follows(w, x) BY <1>1 DEF Follows, Asking
<1>5. QED BY <1>2, <1>3, <1>4 DEF r

\* A request that waits for nothing but the Session is as its phase requires.
LEMMA Waits ==
  ASSUME NEW w, Between(w), NEW entries, Recorded(w, entries), ConfigFits(w, entries),
         w.try.st \in {"committingHeader", "committingContext", "checking", "committingChunk"},
         w.call = w.attempts,
         w.try.st = "committingChunk" => w.try.last # "error" /\ w.try.pending # "none"
  PROVE  Good(w, w, entries)
<1>1. CallOK(w) BY DEF CallOK, Between, In, Running, Streaming
<1>2. OutcomeOK(w) BY DEF OutcomeOK, Between, In, Running
<1>3. PendingOK(w) BY DEF PendingOK, Between
<1>4. Follows(w, w) BY DEF Follows, Between, In
<1>5. QED BY <1>1, <1>2, <1>3, <1>4 DEF Good, RequestOK, LogFits, Recorded, Between

\* The next chunk is asked for when the log describes the request.
LEMMA Reading ==
  ASSUME NEW w, Between(w), NEW entries, Recorded(w, entries), FreshID \in Nat \ {0},
         w.call = w.attempts, HeaderWritten(entries),
         LatestOf(entries, "header") = w.try.config, LatestOf(entries, "context") = w.try.config
  PROVE  Good(w, ReadChunk(w), entries)
<1> DEFINE c == [w EXCEPT !.try.st = "reading"]
           R == Send(c, "read")
<1>0. w \in RequestType /\ w.call # 0 BY DEF Between, RequestType
<1>1. /\ c \in RequestType /\ c.try.st = "reading"
      /\ c.pending = w.pending /\ c.sends = <<>>
      /\ c.phase = w.phase /\ c.cancel = w.cancel /\ c.failed = w.failed /\ c.err = w.err
      /\ c.closed = w.closed /\ c.header = w.header /\ c.logged = w.logged
      /\ c.requests = w.requests /\ c.attempts = w.attempts /\ c.call = w.call
      /\ c.try.first = w.try.first /\ c.try.header = w.try.header
      /\ c.try.closed = w.try.closed /\ c.try.failed = w.try.failed
      /\ c.try.chunks = w.try.chunks /\ c.try.pending = w.try.pending
      /\ c.try.last = w.try.last /\ c.try.config = w.try.config
  <2>1. c = [w EXCEPT !.try.st = "reading"] OBVIOUS
  <2>2. w.sends = <<>> BY DEF Between
  <2> HIDE DEF c
  <2> QED BY <1>0, <2>1, <2>2, PhaseFields
<1>2. Between(c) /\ Recorded(c, entries) /\ \A x : Follows(c, x) => Follows(w, x) BY Moves
<1>3. Good(c, FailAttempt(c), entries) BY <1>2, Failure DEF Recorded
<1>4. ReadChunk(w) = IF c.cancel THEN FailAttempt(c) ELSE R BY DEF ReadChunk, Proceed
<1>5. "read" \in Kinds BY DEF Kinds
<1> HIDE DEF c, R
<1>6. /\ R \in RequestType /\ Asking(c, "read") \in Token
      /\ R.pending = c.pending \cup {Asking(c, "read")} /\ R.sends = <<Asking(c, "read")>>
      /\ R.phase = c.phase /\ R.cancel = c.cancel /\ R.failed = c.failed /\ R.err = c.err
      /\ R.closed = c.closed /\ R.header = c.header /\ R.logged = c.logged
      /\ R.requests = c.requests /\ R.attempts = c.attempts /\ R.try = c.try
      /\ R.call = c.call
  BY <1>0, <1>1, <1>5, SendFields DEF R
<1>7. CallOK(R) /\ OutcomeOK(R)
  BY <1>0, <1>1, <1>2, <1>6 DEF CallOK, OutcomeOK, Between, In, Running, Streaming
<1>8. PendingOK(R)
  <2>1. IsFiniteSet(R.pending) BY <1>2, <1>6, FS_AddElement DEF Between
  <2>2. ASSUME NEW p \in R.pending, p.k # "cancel"
        PROVE  p = Asking(c, "read") /\ p.k = "read" /\ p.call = R.call
    BY <1>2, <1>6, <2>2 DEF Between, Asking
  <2>3. QED BY <1>1, <1>2, <1>6, <2>1, <2>2 DEF PendingOK, Between, Running
<1>9. LogFits(R, entries)
  <2>1. ConfigFits(R, entries) BY <1>1, <1>6 DEF ConfigFits, In
  <2>2. Recorded(R, entries)
    BY <1>2, <1>6 DEF Recorded, EntriesFit, HeaderFits, ChunksFit, MessageFits, Running
  <2>3. QED BY <2>1, <2>2 DEF LogFits, Recorded
<1>10. Follows(c, R) BY <1>1, <1>6 DEF Follows, In
<1>11. Good(c, R, entries) BY <1>6, <1>7, <1>8, <1>9, <1>10 DEF Good, RequestOK
<1>12. QED BY <1>2, <1>3, <1>4, <1>11 DEF Good

\* With the header in the log, the context comes next, or the check.
LEMMA Headed ==
  ASSUME NEW w, Between(w), NEW entries, Recorded(w, entries), FreshID \in Nat \ {0},
         w.call = w.attempts, HeaderWritten(entries),
         LatestOf(entries, "header") = w.try.config,
         ~w.try.context => LatestOf(entries, "context") = w.try.config
  PROVE  Good(w, AfterHeader(w), entries)
<1> DEFINE st == IF w.try.context THEN "committingContext" ELSE "checking"
           c == [w EXCEPT !.try.st = st, !.try.context = FALSE]
<1>0. w \in RequestType /\ st \in {"committingContext", "checking"} BY DEF Between
<1> HIDE DEF st
<1>1. /\ c \in RequestType /\ c.try.st = st
      /\ c.pending = w.pending /\ c.sends = w.sends
      /\ c.phase = w.phase /\ c.cancel = w.cancel /\ c.failed = w.failed /\ c.err = w.err
      /\ c.closed = w.closed /\ c.header = w.header /\ c.logged = w.logged
      /\ c.requests = w.requests /\ c.attempts = w.attempts /\ c.call = w.call
      /\ c.try.first = w.try.first /\ c.try.header = w.try.header
      /\ c.try.closed = w.try.closed /\ c.try.failed = w.try.failed
      /\ c.try.chunks = w.try.chunks /\ c.try.pending = w.try.pending
      /\ c.try.last = w.try.last /\ c.try.config = w.try.config
  BY <1>0 DEF RequestType, AttemptType
<1>2. AfterHeader(w) = IF c.cancel THEN FailAttempt(c) ELSE c BY DEF AfterHeader, Proceed, st
<1> HIDE DEF c
<1>3. Between(c) BY <1>1 DEF Between, Running
<1>4. Recorded(c, entries)
  BY <1>1 DEF Recorded, EntriesFit, HeaderFits, ChunksFit, MessageFits, Running
<1>5. ConfigFits(c, entries) BY <1>1 DEF ConfigFits, In, st
<1>6. Good(c, c, entries)
  <2>1. /\ c.try.st \in {"committingHeader", "committingContext", "checking", "committingChunk"}
        /\ c.call = c.attempts /\ c.try.st # "committingChunk"
    BY <1>0, <1>1
  <2>2. QED BY <1>3, <1>4, <1>5, <2>1, Waits
<1>7. Good(c, FailAttempt(c), entries) BY <1>3, <1>4, Failure DEF Recorded
<1>8. \A x : Follows(c, x) => Follows(w, x) BY <1>1 DEF Follows, Asking
<1>9. QED BY <1>2, <1>6, <1>7, <1>8 DEF Good


-----------------------------------------------------------------------------
(* The answers.                                                            *)

\* A generation that started: its facts are in the log, or next to be recorded.
LEMMA Starts ==
  ASSUME NEW w, Between(w), Recorded(w, log), FreshID \in Nat \ {0},
         NEW config \in Configs,
         w.call = w.attempts, w.try.st = "opening", ConfigFits(w, log)
  PROVE  Good(w, Started(w, config), log)
<1> DEFINE baseline == SubSeq(log, 1, w.try.base)
           context == LatestOf(baseline, "context") # config
           r == [w EXCEPT !.try.config = config, !.try.context = context]
           n == [r EXCEPT !.try.st = "committingHeader"]
<1>0. w \in RequestType /\ context \in BOOLEAN /\ config \in ConfigNames BY DEF Between, ConfigNames
<1>1. \A kind \in {"header", "context"} : LatestOf(baseline, kind) = LatestOf(log, kind)
  BY DEF ConfigFits, In, Between
<1> HIDE DEF context, baseline
<1>2. /\ r \in RequestType /\ r.try.st = w.try.st
      /\ r.try.config = config /\ r.try.context = context
      /\ r.pending = w.pending /\ r.sends = w.sends
      /\ r.phase = w.phase /\ r.cancel = w.cancel /\ r.failed = w.failed /\ r.err = w.err
      /\ r.closed = w.closed /\ r.header = w.header /\ r.logged = w.logged
      /\ r.requests = w.requests /\ r.attempts = w.attempts /\ r.call = w.call
      /\ r.try.first = w.try.first /\ r.try.header = w.try.header
      /\ r.try.closed = w.try.closed /\ r.try.failed = w.try.failed
      /\ r.try.chunks = w.try.chunks /\ r.try.pending = w.try.pending
      /\ r.try.last = w.try.last
  BY <1>0 DEF RequestType, AttemptType
<1>3. Started(w, config) = IF w.try.first \/ LatestOf(baseline, "header") # config
                           THEN (IF n.cancel THEN FailAttempt(n) ELSE n) ELSE AfterHeader(r)
  BY DEF Started, Proceed, baseline, context
<1> HIDE DEF r
<1>4. Between(r) BY <1>2 DEF Between, Running
<1>5. Recorded(r, log) BY <1>2 DEF Recorded, EntriesFit, HeaderFits, ChunksFit, MessageFits, Running
<1>6. \A x : Follows(r, x) => Follows(w, x) BY <1>2 DEF Follows, Asking
<1>7. ~context => LatestOf(log, "context") = config BY <1>1 DEF context
<1>8. CASE w.try.first \/ LatestOf(baseline, "header") # config
  <2>1. /\ n.try.st = "committingHeader" /\ n.call = r.call /\ n.attempts = r.attempts
        /\ n.try.config = r.try.config /\ n.try.context = r.try.context
    BY <1>2 DEF RequestType, AttemptType
  <2>2. Between(n) /\ Recorded(n, log) /\ \A x : Follows(n, x) => Follows(r, x)
    BY <1>4, <1>5, Moves
  <2> HIDE DEF n
  <2>3. ConfigFits(n, log) BY <1>2, <1>7, <2>1 DEF ConfigFits, In
  <2>4. Good(n, n, log)
    <3>1. /\ n.try.st \in {"committingHeader", "committingContext", "checking", "committingChunk"}
          /\ n.call = n.attempts /\ n.try.st # "committingChunk"
      BY <1>2, <2>1
    <3>2. QED BY <2>2, <2>3, <3>1, Waits
  <2>5. Good(n, FailAttempt(n), log) BY <2>2, Failure DEF Recorded
  <2>6. QED BY <1>3, <1>6, <1>8, <2>2, <2>4, <2>5 DEF Good
<1>9. CASE ~(w.try.first \/ LatestOf(baseline, "header") # config)
  <2>1. HeaderWritten(log) BY <1>9 DEF Recorded, HeaderFits, Between
  <2>2. LatestOf(log, "header") = r.try.config BY <1>1, <1>2, <1>9
  <2>3. r.call = r.attempts BY <1>2
  <2>4. ~r.try.context => LatestOf(log, "context") = r.try.config BY <1>2, <1>7
  <2>5. Good(r, AfterHeader(r), log) BY <1>4, <1>5, <2>1, <2>2, <2>3, <2>4, Headed
  <2>6. QED BY <1>3, <1>6, <1>9, <2>5 DEF Good
<1>10. QED BY <1>8, <1>9

\* A chunk that arrived is next to be recorded.
Arrived(w, value) == [w EXCEPT !.try.st = "committingChunk", !.try.pending = value]

\* A chunk that arrived waits to be committed.
LEMMA ArrivedFields ==
  ASSUME NEW w \in RequestType, NEW value \in Chunks
  PROVE  LET r == Arrived(w, value) IN
         /\ r \in RequestType /\ r.try.st = "committingChunk" /\ r.try.pending = value
         /\ r.pending = w.pending /\ r.sends = w.sends
         /\ r.phase = w.phase /\ r.cancel = w.cancel /\ r.failed = w.failed /\ r.err = w.err
         /\ r.closed = w.closed /\ r.header = w.header /\ r.logged = w.logged
         /\ r.requests = w.requests /\ r.attempts = w.attempts /\ r.call = w.call
         /\ r.try.first = w.try.first /\ r.try.config = w.try.config
         /\ r.try.header = w.try.header
         /\ r.try.closed = w.try.closed /\ r.try.failed = w.try.failed
         /\ r.try.chunks = w.try.chunks /\ r.try.last = w.try.last
BY DEF RequestType, AttemptType, Arrived

\* A chunk is committed before the next one is asked for.
LEMMA Arrives ==
  ASSUME NEW w, Between(w), NEW entries, Recorded(w, entries), FreshID \in Nat \ {0},
         NEW value \in Chunks,
         w.call = w.attempts, w.try.st = "reading", ConfigFits(w, entries), w.try.last # "error"
  PROVE  Good(Arrived(w, value), ChunkArrived(w, value), entries)
<1> DEFINE n == Arrived(w, value)
<1>0. w \in RequestType BY DEF Between
<1>1. /\ n \in RequestType /\ n.try.st = "committingChunk" /\ n.try.pending = value
      /\ n.pending = w.pending /\ n.sends = w.sends
      /\ n.phase = w.phase /\ n.cancel = w.cancel /\ n.failed = w.failed /\ n.err = w.err
      /\ n.closed = w.closed /\ n.header = w.header /\ n.logged = w.logged
      /\ n.requests = w.requests /\ n.attempts = w.attempts /\ n.call = w.call
      /\ n.try.first = w.try.first /\ n.try.config = w.try.config
      /\ n.try.header = w.try.header
      /\ n.try.closed = w.try.closed /\ n.try.failed = w.try.failed
      /\ n.try.chunks = w.try.chunks /\ n.try.last = w.try.last
  BY <1>0, ArrivedFields
<1>2. ChunkArrived(w, value) = IF n.cancel THEN FailAttempt(n) ELSE n
  BY DEF ChunkArrived, Proceed, Arrived
<1> HIDE DEF n
<1>3. Between(n) BY <1>1 DEF Between, Running
<1>4. Recorded(n, entries)
  BY <1>1 DEF Recorded, EntriesFit, HeaderFits, ChunksFit, MessageFits, Running
<1>5. ConfigFits(n, entries) BY <1>1 DEF ConfigFits, In, Running
<1>6. Good(n, n, entries)
  <2>1. /\ n.try.st \in {"committingHeader", "committingContext", "checking", "committingChunk"}
        /\ n.call = n.attempts /\ n.try.last # "error" /\ n.try.pending # "none"
    BY <1>1 DEF Chunks
  <2>2. QED BY <1>3, <1>4, <1>5, <2>1, Waits
<1>7. Good(n, FailAttempt(n), entries) BY <1>3, <1>4, Failure DEF Recorded
<1>8. QED BY <1>2, <1>6, <1>7 DEF n

\* At the end of a stream its close is asked for.
LEMMA Ends ==
  ASSUME NEW w, Between(w), NEW entries, Recorded(w, entries), FreshID \in Nat \ {0}
  PROVE  Good(w, StreamEnded(w), entries)
<1> DEFINE f == [w EXCEPT !.try.failed = @ \/ w.cancel]
<1>0. w \in RequestType BY DEF Between
<1>1. /\ f \in RequestType /\ f.try.failed = (w.try.failed \/ w.cancel)
      /\ f.pending = w.pending /\ f.sends = w.sends
      /\ f.phase = w.phase /\ f.cancel = w.cancel /\ f.failed = w.failed /\ f.err = w.err
      /\ f.closed = w.closed /\ f.header = w.header /\ f.logged = w.logged
      /\ f.requests = w.requests /\ f.attempts = w.attempts /\ f.call = w.call
      /\ f.try.first = w.try.first /\ f.try.header = w.try.header
      /\ f.try.closed = w.try.closed /\ f.try.pending = w.try.pending
      /\ f.try.last = w.try.last /\ f.try.chunks = w.try.chunks
  BY <1>0 DEF RequestType, AttemptType
<1>2. StreamEnded(w) = CloseStream(f) BY DEF StreamEnded
<1> HIDE DEF f
<1>3. Between(f) BY <1>1 DEF Between, Running
<1>4. Recorded(f, entries)
  <2>1. ChunksFit(f, entries)
    <3>1. f.try.failed \/ (~f.try.failed /\ ~w.try.failed) BY <1>1
    <3>2. QED BY <1>1, <3>1 DEF Recorded, ChunksFit, Running
  <2>2. EntriesFit(f, entries) /\ HeaderFits(f, entries) /\ MessageFits(f, entries)
    BY <1>1 DEF Recorded, EntriesFit, HeaderFits, MessageFits, Running
  <2>3. QED BY <2>1, <2>2 DEF Recorded
<1>5. \A x : Follows(f, x) => Follows(w, x) BY <1>1 DEF Follows, Asking
<1>6. Good(f, CloseStream(f), entries) BY <1>3, <1>4, Closes
<1>7. QED BY <1>2, <1>5, <1>6 DEF Good

\* A confirmed close: the Grain forgets the call.
Released(w) == [w EXCEPT !.try.closed = TRUE, !.call = 0]

\* A confirmed close gives the call up.
LEMMA ReleasedFields ==
  ASSUME NEW w \in RequestType
  PROVE  LET r == Released(w) IN
         /\ r \in RequestType /\ r.try.closed = TRUE /\ r.call = 0 /\ r.try.st = w.try.st
         /\ r.pending = w.pending /\ r.sends = w.sends
         /\ r.phase = w.phase /\ r.cancel = w.cancel /\ r.failed = w.failed /\ r.err = w.err
         /\ r.closed = w.closed /\ r.header = w.header /\ r.logged = w.logged
         /\ r.requests = w.requests /\ r.attempts = w.attempts
         /\ r.try.first = w.try.first /\ r.try.config = w.try.config
         /\ r.try.header = w.try.header /\ r.try.failed = w.try.failed
         /\ r.try.chunks = w.try.chunks /\ r.try.last = w.try.last
         /\ r.try.pending = w.try.pending
BY DEF RequestType, AttemptType, Released

\* After its close a request commits its message, fails, or recovers.
LEMMA Releases ==
  ASSUME NEW w, Between(w), NEW entries, Recorded(w, entries), FreshID \in Nat \ {0},
         NEW x \in Closed(w)
  PROVE  Good(Released(w), x, entries)
<1> DEFINE d == Released(w)
           m == [d EXCEPT !.try.st = "committingMessage"]
<1>0. w \in RequestType BY DEF Between
<1>1. /\ d \in RequestType /\ d.try.closed = TRUE /\ d.call = 0 /\ d.try.st = w.try.st
      /\ d.pending = w.pending /\ d.sends = w.sends
      /\ d.phase = w.phase /\ d.cancel = w.cancel /\ d.failed = w.failed /\ d.err = w.err
      /\ d.closed = w.closed /\ d.header = w.header /\ d.logged = w.logged
      /\ d.requests = w.requests /\ d.attempts = w.attempts
      /\ d.try.first = w.try.first /\ d.try.config = w.try.config
      /\ d.try.header = w.try.header /\ d.try.failed = w.try.failed
      /\ d.try.chunks = w.try.chunks /\ d.try.last = w.try.last
      /\ d.try.pending = w.try.pending
  BY <1>0, ReleasedFields
<1>2. \/ x = CompleteAttempt(d, TRUE)
      \/ x = CompleteAttempt(d, FALSE) /\ ~d.try.failed /\ ~d.cancel /\ d.try.last = "error"
      \/ x = m /\ ~d.try.failed /\ ~d.cancel /\ d.try.last # "error"
  BY DEF Closed, Released
<1> HIDE DEF d
<1>3. Between(d) BY <1>1 DEF Between, Running
<1>4. Recorded(d, entries)
  BY <1>1 DEF Recorded, EntriesFit, HeaderFits, ChunksFit, MessageFits, Running
<1>5. CASE x = CompleteAttempt(d, TRUE)
  <2>1. MayComplete(d, TRUE, entries) BY <1>4 DEF MayComplete, Recorded
  <2>2. QED BY <1>3, <1>4, <1>5, <2>1, Completion DEF Recorded, d
<1>6. CASE x = CompleteAttempt(d, FALSE) /\ ~d.try.failed /\ ~d.cancel /\ d.try.last = "error"
  <2>1. MayComplete(d, FALSE, entries) BY <1>1, <1>3, <1>4, <1>6 DEF MayComplete, Recorded, Between
  <2>2. QED BY <1>3, <1>4, <1>6, <2>1, Completion DEF Recorded, d
<1>7. CASE x = m /\ ~d.try.failed /\ ~d.cancel /\ d.try.last # "error"
  <2>1. /\ m \in RequestType /\ m.try.st = "committingMessage" /\ m.call = 0
        /\ m.try.closed = TRUE /\ m.try.failed = FALSE /\ m.try.last # "error"
        /\ m.phase = d.phase
    <3>1. m = [d EXCEPT !.try.st = "committingMessage"] OBVIOUS
    <3> HIDE DEF m
    <3> QED BY <1>1, <1>7, <3>1, PhaseFields
  <2>2. Between(m) /\ Recorded(m, entries) /\ \A y : Follows(m, y) => Follows(d, y)
    BY <1>3, <1>4, Moves
  <2> HIDE DEF m
  <2>3. CallOK(m) BY <2>1, <2>2 DEF CallOK, In, Running, Streaming, Between
  <2>4. OutcomeOK(m) BY <1>7, <2>1, <2>2 DEF OutcomeOK, In, Running, Between
  <2>5. PendingOK(m) BY <2>2 DEF PendingOK, Between
  <2>6. ConfigFits(m, entries) BY <2>1 DEF ConfigFits, In
  <2>7. Follows(m, m) BY <2>1, <2>2 DEF Follows, Between, In
  <2>8. QED BY <1>7, <2>1, <2>2, <2>3, <2>4, <2>5, <2>6, <2>7 DEF Good, RequestOK, LogFits, Recorded, d
<1>8. QED BY <1>2, <1>5, <1>6, <1>7


-----------------------------------------------------------------------------
(* The log grows.                                                          *)

\* What one more entry leaves as it was.
LEMMA LogAppends ==
  ASSUME NEW w \in RequestType, NEW entries \in Seq(EntryType), NEW e \in EntryType,
         e.a <= w.attempts, e.r <= w.requests
  PROVE  /\ EntriesFit(w, entries) => EntriesFit(w, Append(entries, e))
         /\ HeaderWritten(entries) \/ (e.k = "header" /\ e.a # 0) => HeaderWritten(Append(entries, e))
         /\ HeaderFits(w, entries) => HeaderFits(w, Append(entries, e))
         /\ e.k # "chunk" /\ ChunksFit(w, entries) => ChunksFit(w, Append(entries, e))
         /\ e.k # "message" /\ MessageFits(w, entries) => MessageFits(w, Append(entries, e))
<1> DEFINE more == Append(entries, e)
<1>1. /\ more \in Seq(EntryType) /\ Len(more) = Len(entries) + 1 /\ Len(entries) \in Nat
      /\ DOMAIN entries = 1 .. Len(entries) /\ DOMAIN more = 1 .. Len(entries) + 1
      /\ \A i \in 1 .. Len(entries) : more[i] = entries[i]
      /\ more[Len(entries) + 1] = e
  BY AppendKeeps
<1> HIDE DEF more
<1>2. \A i \in DOMAIN more : i \in DOMAIN entries \/ i = Len(entries) + 1 BY <1>1
<1>3. DOMAIN entries \subseteq DOMAIN more /\ Len(entries) + 1 \in DOMAIN more BY <1>1
<1>4. EntriesFit(w, entries) => EntriesFit(w, more) BY <1>1, <1>2, <1>3 DEF EntriesFit
<1>5. HeaderWritten(entries) \/ (e.k = "header" /\ e.a # 0) => HeaderWritten(more)
  BY <1>1, <1>3 DEF HeaderWritten
<1>6. HeaderFits(w, entries) => HeaderFits(w, more) BY <1>5 DEF HeaderFits
<1>7. ASSUME e.k # "chunk", ChunksFit(w, entries) PROVE ChunksFit(w, more)
  <2>1. SUFFICES ASSUME Running(w) /\ ~w.try.failed
                 PROVE  LET src == w.try.chunks IN
                        /\ ToSet(src) = {j \in DOMAIN more : more[j].k = "chunk"
                                                               /\ more[j].a = w.attempts}
                        /\ \A n \in DOMAIN src :
                             /\ more[src[n]].v[1] = n
                             /\ more[src[n]].v[2] = "error" => w.try.last = "error"
                        /\ \A n \in 1..(Len(src) - 1) : src[n] < src[n + 1]
    BY DEF ChunksFit
  <2> DEFINE src == w.try.chunks
  <2>2. /\ ToSet(src) = {j \in DOMAIN entries : entries[j].k = "chunk"
                                                  /\ entries[j].a = w.attempts}
        /\ \A n \in DOMAIN src :
             /\ entries[src[n]].v[1] = n
             /\ entries[src[n]].v[2] = "error" => w.try.last = "error"
        /\ \A n \in 1..(Len(src) - 1) : src[n] < src[n + 1]
    BY <1>7, <2>1 DEF ChunksFit
  <2> HIDE DEF src
  <2>3. {j \in DOMAIN more : more[j].k = "chunk" /\ more[j].a = w.attempts}
          = {j \in DOMAIN entries : entries[j].k = "chunk" /\ entries[j].a = w.attempts}
    BY <1>1, <1>2, <1>3, <1>7
  <2>4. \A n \in DOMAIN src : src[n] \in DOMAIN entries BY <2>2 DEF ToSet
  <2>5. \A n \in DOMAIN src : more[src[n]] = entries[src[n]] BY <1>1, <2>4
  <2>6. QED BY <2>2, <2>3, <2>5 DEF src
<1>8. ASSUME e.k # "message", MessageFits(w, entries) PROVE MessageFits(w, more)
  BY <1>1, <1>2, <1>3, <1>8 DEF MessageFits
<1>9. QED BY <1>4, <1>5, <1>6, <1>7, <1>8 DEF more

\* What may be appended to a log that tells what was asked and answered.
MayAppend(e) ==
  /\ e \in EntryType
  /\ e.k = "chunk" =>
       /\ LatestOf(log, "header") = e.c /\ LatestOf(log, "context") = e.c /\ HeaderWritten(log)
  /\ e.k \in {"chunk", "message"} =>
       \A i \in DOMAIN log : log[i].k = "message" => log[i].a # e.a /\ log[i].r < e.r
  /\ e.k = "message" =>
       /\ ToSet(e.v) = {j \in DOMAIN log : log[j].k = "chunk" /\ log[j].a = e.a}
       /\ \A n \in DOMAIN e.v : log[e.v[n]].v[1] = n /\ log[e.v[n]].v[2] # "error"
       /\ \A n \in 1..(Len(e.v) - 1) : e.v[n] < e.v[n + 1]

\* An entry that may be appended breaks nothing that was recorded.
LEMMA HistoryGrows ==
  ASSUME LogOK, History, NEW e, MayAppend(e), log' = Append(log, e)
  PROVE  LogOK' /\ History'
<1>0. e \in EntryType /\ log \in Seq(EntryType) BY DEF MayAppend, LogOK
<1>1. /\ log' \in Seq(EntryType) /\ Len(log') = Len(log) + 1 /\ Len(log) \in Nat
      /\ DOMAIN log = 1 .. Len(log) /\ DOMAIN log' = 1 .. Len(log) + 1
      /\ \A i \in 1 .. Len(log) : log'[i] = log[i]
      /\ log'[Len(log) + 1] = e
      /\ \A n \in 0 .. Len(log) : SubSeq(log', 1, n) = SubSeq(log, 1, n)
  BY <1>0, AppendKeeps
<1>2. \A i \in DOMAIN log' : i \in DOMAIN log \/ i = Len(log) + 1 BY <1>1
<1>3. /\ DOMAIN log \subseteq DOMAIN log' /\ Len(log) + 1 \in DOMAIN log'
      /\ \A i \in DOMAIN log : log'[i] = log[i] /\ i < Len(log) + 1
  BY <1>1
<1>4. RequestIsRecorded'
  <2>1. SUFFICES ASSUME NEW i \in DOMAIN log', log'[i].k = "chunk"
                 PROVE  /\ \A kind \in {"header", "context"} :
                             LatestOf(SubSeq(log', 1, i), kind) = log'[i].c
                        /\ \E j \in DOMAIN log' : log'[j].k = "header" /\ j < i /\ log'[j].a # 0
    BY DEF RequestIsRecorded, Positions
  <2>2. CASE i \in DOMAIN log
    <3>1. SubSeq(log', 1, i) = SubSeq(log, 1, i) BY <1>1, <2>2
    <3>2. /\ \A kind \in {"header", "context"} : LatestOf(SubSeq(log, 1, i), kind) = log[i].c
          /\ \E j \in DOMAIN log : log[j].k = "header" /\ j < i /\ log[j].a # 0
      BY <1>3, <2>1, <2>2 DEF History, RequestIsRecorded, Positions
    <3>3. QED BY <1>3, <2>2, <3>1, <3>2
  <2>3. CASE i = Len(log) + 1
    <3>1. log'[i] = e /\ e.k = "chunk" BY <1>1, <2>1, <2>3
    <3>2. SubSeq(log', 1, i) = log' BY <1>1, <2>3, SubSeqFull
    <3>3. \A kind \in {"header", "context"} : LatestOf(log', kind) = LatestOf(log, kind)
      BY <1>0, <3>1, LatestOfAppend
    <3>4. \E j \in DOMAIN log : log[j].k = "header" /\ log[j].a # 0
      BY <3>1 DEF MayAppend, HeaderWritten
    <3>5. QED BY <1>3, <2>3, <3>1, <3>2, <3>3, <3>4 DEF MayAppend
  <2>4. QED BY <1>2, <2>2, <2>3
<1>5. OneMessagePerRequest'
  <2>1. SUFFICES ASSUME NEW i \in DOMAIN log', log'[i].k = "message",
                        NEW j \in DOMAIN log', j > i, log'[j].k \in {"chunk", "message"}
                 PROVE  log'[j].r > log'[i].r
    BY DEF OneMessagePerRequest, Positions
  <2>2. i \in DOMAIN log /\ i \in Int BY <1>1, <2>1
  <2>3. CASE j \in DOMAIN log
    BY <1>3, <2>1, <2>2, <2>3 DEF History, OneMessagePerRequest, Positions
  <2>4. CASE j = Len(log) + 1
    <3>1. log'[j] = e /\ log'[i] = log[i] BY <1>1, <1>3, <2>2, <2>4
    <3>2. log[i].r < e.r BY <2>1, <2>2, <3>1 DEF MayAppend
    <3>3. log[i].r \in Nat /\ e.r \in Nat
      <4>1. log[i] \in EntryType BY <1>0, <1>1, <2>2, ElementOfSeq
      <4>2. QED BY <1>0, <4>1 DEF EntryType
    <3>4. QED BY <3>1, <3>2, <3>3
  <2>5. QED BY <1>2, <2>3, <2>4
<1>6. MessageIsWhatStreamed'
  <2>1. SUFFICES ASSUME NEW i \in DOMAIN log', log'[i].k = "message"
                 PROVE  LET src == log'[i].v IN
                        /\ ToSet(src) = {j \in DOMAIN log' : log'[j].k = "chunk"
                                                               /\ log'[j].a = log'[i].a}
                        /\ \A n \in DOMAIN src : log'[src[n]].v[1] = n /\ log'[src[n]].v[2] # "error"
                        /\ \A n \in 1..(Len(src) - 1) : src[n] < src[n + 1]
    BY DEF MessageIsWhatStreamed, Positions
  <2> DEFINE src == log'[i].v
             a == log'[i].a
  <2>2. /\ ToSet(src) = {j \in DOMAIN log : log[j].k = "chunk" /\ log[j].a = a}
        /\ \A n \in DOMAIN src : log[src[n]].v[1] = n /\ log[src[n]].v[2] # "error"
        /\ \A n \in 1..(Len(src) - 1) : src[n] < src[n + 1]
    <3>1. CASE i \in DOMAIN log
      <4>1. log'[i] = log[i] BY <1>3, <3>1
      <4>2. /\ ToSet(log[i].v) = {j \in DOMAIN log : log[j].k = "chunk" /\ log[j].a = log[i].a}
            /\ \A n \in DOMAIN log[i].v :
                 log[log[i].v[n]].v[1] = n /\ log[log[i].v[n]].v[2] # "error"
            /\ \A n \in 1..(Len(log[i].v) - 1) : log[i].v[n] < log[i].v[n + 1]
        BY <2>1, <3>1, <4>1 DEF History, MessageIsWhatStreamed, Positions
      <4>3. QED BY <4>1, <4>2
    <3>2. CASE i = Len(log) + 1
      <4>1. log'[i] = e BY <1>1, <3>2
      <4>2. QED BY <2>1, <4>1 DEF MayAppend
    <3>3. QED BY <1>2, <3>1, <3>2
  <2>3. e.k = "chunk" => e.a # a
    <3>1. CASE i \in DOMAIN log BY <1>3, <2>1, <3>1 DEF MayAppend
    <3>2. CASE i = Len(log) + 1 BY <1>1, <2>1, <3>2
    <3>3. QED BY <1>2, <3>1, <3>2
  <2> HIDE DEF src, a
  <2>4. {j \in DOMAIN log' : log'[j].k = "chunk" /\ log'[j].a = a}
          = {j \in DOMAIN log : log[j].k = "chunk" /\ log[j].a = a}
    BY <1>1, <1>2, <1>3, <2>3
  <2>5. \A n \in DOMAIN src : src[n] \in DOMAIN log BY <2>2 DEF ToSet
  <2>6. \A n \in DOMAIN src : log'[src[n]] = log[src[n]] BY <1>3, <2>5
  <2>7. ToSet(src) = {j \in DOMAIN log' : log'[j].k = "chunk" /\ log'[j].a = a}
    BY <2>2, <2>4, Zenon
  <2>8. \A n \in DOMAIN src : log'[src[n]].v[1] = n /\ log'[src[n]].v[2] # "error"
    BY <2>2, <2>6, Zenon
  <2>9. QED BY <2>2, <2>7, <2>8, Zenon DEF src, a
<1>7. QED BY <1>1, <1>4, <1>5, <1>6 DEF LogOK, History


-----------------------------------------------------------------------------
(* Commits.                                                                *)

\* A request that waits for the Session, or for the hook, waits for no answer.
LEMMA Quiet ==
  ASSUME NEW w, RequestOK(w), w.sends = <<>>, Running(w),
         w.try.st \notin {"opening", "reading", "closing"}
  PROVE  Between(w)
BY DEF RequestOK, CallOK, OutcomeOK, PendingOK, Between, In, Token, Kinds, RequestType

\* What is proposed to the Session may be appended to the log as it is.
LEMMA Drafts ==
  ASSUME RequestOK(agent), LogOK, LogFits(agent, log), Committing
  PROVE  LET e == Draft(agent) IN
         /\ MayAppend(e) /\ e.a = agent.attempts /\ e.r = agent.requests /\ e.c = agent.try.config
         /\ e.a # 0
         /\ agent.try.st = "committingHeader" => e.k = "header"
         /\ agent.try.st = "committingContext" => e.k = "context"
         /\ agent.try.st = "committingChunk" =>
              e.k = "chunk" /\ e.v = <<Len(agent.try.chunks) + 1, agent.try.pending>>
         /\ agent.try.st = "committingMessage" => e.k = "message" /\ e.v = agent.try.chunks
<1> DEFINE e == Draft(agent)
<1>0. agent \in RequestType /\ Running(agent)
  BY DEF RequestOK, Committing, At, Active, Running
<1>1. /\ agent.attempts \in Nat /\ agent.requests \in Nat /\ agent.try.config \in ConfigNames
      /\ agent.try.chunks \in Seq(Nat) /\ agent.try.pending \in Chunks \cup {"none"}
      /\ agent.attempts # 0 /\ Len(agent.try.chunks) \in Nat
  <2>1. agent.attempts # 0 BY <1>0 DEF RequestOK, CallOK
  <2>2. /\ agent.attempts \in Nat /\ agent.requests \in Nat /\ agent.try.config \in ConfigNames
        /\ agent.try.chunks \in Seq(Nat) /\ agent.try.pending \in Chunks \cup {"none"}
    BY <1>0 DEF RequestType, AttemptType
  <2>3. QED BY <2>1, <2>2, LenProperties
<1>2. \A i \in DOMAIN log :
        log[i].k = "message" => log[i].a # agent.attempts /\ log[i].r # agent.requests
  BY <1>0 DEF LogFits, MessageFits, Running
<1>3. \A i \in DOMAIN log : log[i].r \in Nat /\ log[i].r <= agent.requests
  <2>1. \A i \in DOMAIN log : log[i] \in EntryType BY ElementOfSeq, LenProperties DEF LogOK
  <2>2. QED BY <2>1 DEF EntryType, LogFits, EntriesFit
<1>4. \A i \in DOMAIN log :
        log[i].k = "message" => log[i].a # agent.attempts /\ log[i].r < agent.requests
  BY <1>1, <1>2, <1>3
<1>5. /\ \A k, v : Entry(agent, k, v).k = k /\ Entry(agent, k, v).v = v
      /\ \A k, v : Entry(agent, k, v).a = agent.attempts /\ Entry(agent, k, v).r = agent.requests
      /\ \A k, v : Entry(agent, k, v).c = agent.try.config
  BY DEF Entry
<1>6. ASSUME NEW k \in {"header", "context", "chunk", "message", "surface"},
             NEW v \in Seq(Nat) \cup (Nat \X Chunks)
      PROVE  Entry(agent, k, v) \in EntryType
  BY <1>1 DEF Entry, EntryType
<1>7. <<>> \in Seq(Nat) \cup (Nat \X Chunks) BY EmptySeq
<1>8. CASE agent.try.st = "committingHeader"
  <2>1. e = Entry(agent, "header", <<>>) BY <1>8 DEF Draft
  <2>2. e \in EntryType BY <1>6, <1>7, <2>1
  <2>3. QED BY <1>1, <1>5, <1>8, <2>1, <2>2 DEF MayAppend
<1>9. CASE agent.try.st = "committingContext"
  <2>1. e = Entry(agent, "context", <<>>) BY <1>9 DEF Draft
  <2>2. e \in EntryType BY <1>6, <1>7, <2>1
  <2>3. QED BY <1>1, <1>5, <1>9, <2>1, <2>2 DEF MayAppend
<1>10. CASE agent.try.st = "committingChunk" /\ agent.try.pending \in Chunks
  <2>1. e = Entry(agent, "chunk", <<Len(agent.try.chunks) + 1, agent.try.pending>>)
    BY <1>10 DEF Draft
  <2>2. <<Len(agent.try.chunks) + 1, agent.try.pending>> \in Seq(Nat) \cup (Nat \X Chunks)
    BY <1>1, <1>10
  <2>3. e \in EntryType BY <1>6, <2>1, <2>2
  <2>4. /\ LatestOf(log, "header") = agent.try.config /\ HeaderWritten(log)
        /\ LatestOf(log, "context") = agent.try.config
    BY <1>0, <1>10 DEF LogFits, ConfigFits, In
  <2>5. e.k = "chunk" /\ e.a = agent.attempts /\ e.r = agent.requests /\ e.c = agent.try.config
    BY <1>5, <2>1
  <2>6. MayAppend(e) BY <1>4, <2>3, <2>4, <2>5 DEF MayAppend
  <2>7. e.v = <<Len(agent.try.chunks) + 1, agent.try.pending>> BY <1>5, <2>1
  <2>8. QED BY <1>1, <1>10, <2>5, <2>6, <2>7
<1>11. CASE agent.try.st = "committingMessage"
  <2>1. e = Entry(agent, "message", agent.try.chunks) BY <1>11 DEF Draft
  <2>2. e \in EntryType BY <1>1, <1>6, <2>1
  <2>3. e.k = "message" /\ e.a = agent.attempts /\ e.r = agent.requests /\ e.v = agent.try.chunks
        /\ e.c = agent.try.config
    BY <1>5, <2>1
  <2>4. ~agent.try.failed /\ agent.try.last # "error"
    BY <1>0, <1>11 DEF RequestOK, OutcomeOK, In
  <2> DEFINE src == agent.try.chunks
  <2>5. /\ ToSet(src) = {j \in DOMAIN log : log[j].k = "chunk" /\ log[j].a = agent.attempts}
        /\ \A n \in DOMAIN src : log[src[n]].v[1] = n /\ log[src[n]].v[2] # "error"
        /\ \A n \in 1..(Len(src) - 1) : src[n] < src[n + 1]
    BY <1>0, <2>4 DEF LogFits, ChunksFit
  <2>6. MayAppend(e) BY <1>4, <2>2, <2>3, <2>5 DEF MayAppend
  <2>7. QED BY <1>1, <1>11, <2>3, <2>6
<1>12. agent.try.st = "committingChunk" => agent.try.pending \in Chunks
  BY <1>0, <1>1 DEF RequestOK, OutcomeOK, In
<1>13. QED BY <1>8, <1>9, <1>10, <1>11, <1>12 DEF Committing, At


\* A commit that fails, or whose acknowledgement is lost, fails the attempt.
LEMMA CommitFailure ==
  ASSUME RequestOK(agent), agent.sends = <<>>, LogOK, LogFits(agent, log), Committing,
         FreshID \in Nat \ {0}, NEW entries \in {log, Append(log, Draft(agent))}
  PROVE  Good(agent, FailAttempt(agent), entries)
<1> DEFINE e == Draft(agent)
<1>0. /\ Running(agent) /\ agent \in RequestType
      /\ agent.try.st \in {"committingHeader", "committingContext", "committingChunk",
                           "committingMessage"}
  BY DEF Committing, At, Active, Running, RequestOK
<1>1. Between(agent)
  <2>1. agent.try.st \notin {"opening", "reading", "closing"} BY <1>0
  <2>2. QED BY <1>0, <2>1, Quiet
<1>2. /\ MayAppend(e) /\ e.a = agent.attempts /\ e.r = agent.requests
      /\ agent.try.st = "committingHeader" => e.k = "header"
      /\ agent.try.st = "committingContext" => e.k = "context"
      /\ agent.try.st = "committingChunk" => e.k = "chunk"
      /\ agent.try.st = "committingMessage" => e.k = "message"
  BY Drafts
<1> HIDE DEF e
<1>3. /\ EntriesFit(agent, log) /\ HeaderFits(agent, log) /\ MessageFits(agent, log)
      /\ log \in Seq(EntryType) /\ e \in EntryType
  BY <1>2 DEF LogFits, LogOK, MayAppend
<1>4. CASE entries = log BY <1>1, <1>3, <1>4, Failure
<1>5. CASE entries = Append(log, e)
  <2>1. agent.attempts \in Nat /\ agent.requests \in Nat BY <1>0 DEF RequestType
  <2>2. /\ EntriesFit(agent, entries) /\ HeaderFits(agent, entries)
        /\ e.k # "message" => MessageFits(agent, entries)
    BY <1>0, <1>2, <1>3, <1>5, <2>1, LogAppends
  <2>3. CASE agent.try.st # "committingMessage"
    <3>1. e.k # "message" BY <1>0, <1>2, <2>3
    <3>2. QED BY <1>1, <2>2, <3>1, Failure
  <2>4. CASE agent.try.st = "committingMessage"
    <3> DEFINE f == [agent EXCEPT !.try.failed = TRUE]
    <3>1. /\ f \in RequestType /\ f.try.failed = TRUE
          /\ f.pending = agent.pending /\ f.sends = agent.sends
          /\ f.phase = agent.phase /\ f.cancel = agent.cancel /\ f.failed = agent.failed
          /\ f.closed = agent.closed /\ f.header = agent.header /\ f.logged = agent.logged
          /\ f.requests = agent.requests /\ f.attempts = agent.attempts /\ f.call = agent.call
          /\ f.try.first = agent.try.first /\ f.try.header = agent.try.header
          /\ f.try.closed = agent.try.closed /\ f.try.pending = agent.try.pending
          /\ f.try.last = agent.try.last
      BY <1>0, FailureFields
    <3>2. agent.try.closed /\ agent.try.last # "error"
      BY <1>0, <2>4 DEF RequestOK, OutcomeOK, In
    <3>3. FailAttempt(agent) = CompleteAttempt(f, TRUE) BY <3>2 DEF FailAttempt
    <3> HIDE DEF f
    <3>4. Between(f) BY <1>1, <3>1 DEF Between, Running
    <3>5. EntriesFit(f, entries) /\ HeaderFits(f, entries)
      BY <2>2, <3>1 DEF EntriesFit, HeaderFits, Running
    <3>6. Len(log) + 1 \in DOMAIN entries /\ entries[Len(log) + 1] = e
      BY <1>3, <1>5, AppendKeeps
    <3>7. MayComplete(f, TRUE, entries) BY <1>2, <2>4, <3>1, <3>2, <3>6 DEF MayComplete
    <3>8. Good(f, CompleteAttempt(f, TRUE), entries) BY <3>4, <3>5, <3>7, Completion
    <3>9. \A x : Follows(f, x) => Follows(agent, x) BY <3>1 DEF Follows, Asking
    <3>10. QED BY <3>3, <3>8, <3>9 DEF Good
  <2>5. QED BY <2>3, <2>4
<1>6. QED BY <1>4, <1>5 DEF e

\* The attempt counts the chunk that was committed at this position.
Counted(w, at) ==
  [w EXCEPT !.try.chunks = Append(@, at), !.try.last = w.try.pending, !.try.pending = "none"]

\* An acknowledged chunk is counted.
LEMMA CountedFields ==
  ASSUME NEW w \in RequestType, NEW at \in Nat
  PROVE  LET r == Counted(w, at) IN
         /\ r \in RequestType /\ r.try.chunks = Append(w.try.chunks, at)
         /\ r.try.last = w.try.pending /\ r.try.pending = "none" /\ r.try.st = w.try.st
         /\ r.pending = w.pending /\ r.sends = w.sends
         /\ r.phase = w.phase /\ r.cancel = w.cancel /\ r.failed = w.failed /\ r.err = w.err
         /\ r.closed = w.closed /\ r.header = w.header /\ r.logged = w.logged
         /\ r.requests = w.requests /\ r.attempts = w.attempts /\ r.call = w.call
         /\ r.try.first = w.try.first /\ r.try.config = w.try.config
         /\ r.try.header = w.try.header /\ r.try.failed = w.try.failed
         /\ r.try.closed = w.try.closed
<1>1. ASSUME NEW s \in Seq(Nat)
      PROVE  LET r == [w EXCEPT !.try.chunks = s, !.try.last = w.try.pending, !.try.pending = "none"] IN
             /\ r \in RequestType /\ r.try.chunks = s
             /\ r.try.last = w.try.pending /\ r.try.pending = "none" /\ r.try.st = w.try.st
             /\ r.pending = w.pending /\ r.sends = w.sends
             /\ r.phase = w.phase /\ r.cancel = w.cancel /\ r.failed = w.failed /\ r.err = w.err
             /\ r.closed = w.closed /\ r.header = w.header /\ r.logged = w.logged
             /\ r.requests = w.requests /\ r.attempts = w.attempts /\ r.call = w.call
             /\ r.try.first = w.try.first /\ r.try.config = w.try.config
             /\ r.try.header = w.try.header /\ r.try.failed = w.try.failed
             /\ r.try.closed = w.try.closed
  BY DEF RequestType, AttemptType
<1> DEFINE s == Append(w.try.chunks, at)
<1>2. s \in Seq(Nat) BY DEF RequestType, AttemptType
<1>3. Counted(w, at) = [w EXCEPT !.try.chunks = s, !.try.last = w.try.pending, !.try.pending = "none"]
  BY DEF Counted
<1> HIDE DEF s
<1>4. LET r == [w EXCEPT !.try.chunks = s, !.try.last = w.try.pending, !.try.pending = "none"] IN
      /\ r \in RequestType /\ r.try.chunks = s
      /\ r.try.last = w.try.pending /\ r.try.pending = "none" /\ r.try.st = w.try.st
      /\ r.pending = w.pending /\ r.sends = w.sends
      /\ r.phase = w.phase /\ r.cancel = w.cancel /\ r.failed = w.failed /\ r.err = w.err
      /\ r.closed = w.closed /\ r.header = w.header /\ r.logged = w.logged
      /\ r.requests = w.requests /\ r.attempts = w.attempts /\ r.call = w.call
      /\ r.try.first = w.try.first /\ r.try.config = w.try.config
      /\ r.try.header = w.try.header /\ r.try.failed = w.try.failed
      /\ r.try.closed = w.try.closed
  BY <1>1, <1>2
<1>5. QED BY <1>3, <1>4 DEF s

\* With its chunk counted, an attempt still knows every chunk it committed.
LEMMA Counts ==
  ASSUME NEW w \in RequestType, NEW entries \in Seq(EntryType), NEW e \in EntryType,
         e.k = "chunk", e.a = w.attempts, e.v = <<Len(w.try.chunks) + 1, w.try.pending>>,
         w.try.last # "error", ChunksFit(w, entries)
  PROVE  ChunksFit(Counted(w, Len(entries) + 1), Append(entries, e))
<1> DEFINE at == Len(entries) + 1
           more == Append(entries, e)
           r == Counted(w, at)
           src == w.try.chunks
           s == Append(src, at)
<1>1. /\ more \in Seq(EntryType) /\ Len(more) = Len(entries) + 1 /\ Len(entries) \in Nat
      /\ DOMAIN entries = 1 .. Len(entries) /\ DOMAIN more = 1 .. Len(entries) + 1
      /\ \A i \in 1 .. Len(entries) : more[i] = entries[i]
      /\ more[at] = e
  BY AppendKeeps
<1>2. src \in Seq(Nat) BY DEF RequestType, AttemptType
<1>3. /\ s \in Seq(Nat) /\ Len(src) \in Nat
      /\ DOMAIN src = 1 .. Len(src) /\ DOMAIN s = 1 .. Len(src) + 1 /\ Len(s) = Len(src) + 1
      /\ \A n \in 1 .. Len(src) : s[n] = src[n]
      /\ s[Len(src) + 1] = at
  BY <1>1, <1>2, AppendKeeps
<1>4. /\ r.try.chunks = s /\ r.try.last = w.try.pending /\ r.try.failed = w.try.failed
      /\ r.phase = w.phase /\ r.attempts = w.attempts
  BY <1>1, CountedFields
<1> HIDE DEF r, s, src, more, at
<1>5. SUFFICES ASSUME Running(w) /\ ~w.try.failed
               PROVE  /\ ToSet(s) = {j \in DOMAIN more : more[j].k = "chunk" /\ more[j].a = w.attempts}
                      /\ \A n \in DOMAIN s :
                           /\ more[s[n]].v[1] = n
                           /\ more[s[n]].v[2] = "error" => w.try.pending = "error"
                      /\ \A n \in 1..(Len(s) - 1) : s[n] < s[n + 1]
  BY <1>4 DEF ChunksFit, Running, r, more, at
<1>6. /\ ToSet(src) = {j \in DOMAIN entries : entries[j].k = "chunk" /\ entries[j].a = w.attempts}
      /\ \A n \in DOMAIN src :
           /\ entries[src[n]].v[1] = n
           /\ entries[src[n]].v[2] = "error" => w.try.last = "error"
      /\ \A n \in 1..(Len(src) - 1) : src[n] < src[n + 1]
  BY <1>5 DEF ChunksFit, src
<1>7. at = Len(entries) + 1 BY DEF at
<1>8. \A j \in DOMAIN more : j \in DOMAIN entries \/ j = at BY <1>1, <1>7
<1>9. DOMAIN entries \subseteq DOMAIN more /\ at \in DOMAIN more
      /\ \A j \in DOMAIN entries : j < at /\ more[j] = entries[j]
  BY <1>1, <1>7
<1>10. ToSet(s) = ToSet(src) \cup {at}
  <2>1. DOMAIN s = DOMAIN src \cup {Len(src) + 1} BY <1>3
  <2>2. \A n \in DOMAIN src : s[n] = src[n] BY <1>3
  <2>3. ASSUME NEW n \in DOMAIN s PROVE s[n] \in ToSet(src) \cup {at}
    BY <1>3, <2>1, <2>2 DEF ToSet
  <2>4. ASSUME NEW n \in DOMAIN src PROVE src[n] \in ToSet(s)
    BY <2>1, <2>2 DEF ToSet
  <2>5. at \in ToSet(s) BY <1>3, <2>1 DEF ToSet
  <2>6. ToSet(s) \subseteq ToSet(src) \cup {at} BY <2>3 DEF ToSet
  <2>7. ToSet(src) \subseteq ToSet(s) BY <2>4 DEF ToSet
  <2>8. QED BY <2>5, <2>6, <2>7
<1>11. {j \in DOMAIN more : more[j].k = "chunk" /\ more[j].a = w.attempts}
         = {j \in DOMAIN entries : entries[j].k = "chunk" /\ entries[j].a = w.attempts} \cup {at}
  BY <1>1, <1>8, <1>9
<1>12. \A n \in DOMAIN src : src[n] \in DOMAIN entries /\ src[n] < at
  <2>1. \A n \in DOMAIN src : src[n] \in DOMAIN entries BY <1>6 DEF ToSet
  <2>2. QED BY <1>9, <2>1
<1>13. ASSUME NEW n \in DOMAIN s
       PROVE  /\ more[s[n]].v[1] = n
              /\ more[s[n]].v[2] = "error" => w.try.pending = "error"
  <2>1. CASE n \in DOMAIN src
    <3>1. more[s[n]] = entries[src[n]] BY <1>3, <1>9, <1>12, <2>1
    <3>2. QED BY <1>6, <2>1, <3>1
  <2>2. CASE n = Len(src) + 1
    <3>1. more[s[n]] = e BY <1>1, <1>3, <2>2
    <3>2. e.v[1] = Len(src) + 1 /\ e.v[2] = w.try.pending BY DEF src
    <3>3. QED BY <2>2, <3>1, <3>2
  <2>3. QED BY <1>3, <2>1, <2>2
<1>14. ASSUME NEW n \in 1..(Len(s) - 1) PROVE s[n] < s[n + 1]
  <2>1. n \in 1 .. Len(src) BY <1>3
  <2>2. CASE n = Len(src) BY <1>3, <1>12, <2>1, <2>2
  <2>3. CASE n # Len(src)
    <3>0. Len(src) \in Nat BY <1>3
    <3>1. n + 1 \in 1 .. Len(src) /\ n \in 1 .. (Len(src) - 1) BY <2>1, <2>3, <3>0
    <3>2. QED BY <1>3, <1>6, <2>1, <3>1
  <2>4. QED BY <2>2, <2>3
<1>15. QED BY <1>6, <1>10, <1>11, <1>13, <1>14


\* What a commit answers: the request it is answered to, and what becomes of it.
Acknowledged(at) ==
  IF agent.try.st = "committingChunk" /\ agent.try.pending # "bad" THEN Counted(agent, at) ELSE agent

\* An acknowledged commit moves the attempt to its next phase.
LEMMA Commits ==
  ASSUME RequestOK(agent), agent.sends = <<>>, LogOK, LogFits(agent, log), Committing,
         FreshID \in Nat \ {0}
  PROVE  Good(Acknowledged(Len(log) + 1), Committed(agent, Len(log) + 1), Append(log, Draft(agent)))
<1> DEFINE e == Draft(agent)
           at == Len(log) + 1
           more == Append(log, e)
<1>0. /\ Running(agent) /\ agent \in RequestType
      /\ agent.try.st \in {"committingHeader", "committingContext", "committingChunk",
                           "committingMessage"}
      /\ agent.cancel \in BOOLEAN
  BY DEF Committing, At, Active, Running, RequestOK, RequestType
<1>1. Between(agent)
  <2>1. agent.try.st \notin {"opening", "reading", "closing"} BY <1>0
  <2>2. QED BY <1>0, <2>1, Quiet
<1>2. /\ MayAppend(e) /\ e.a = agent.attempts /\ e.r = agent.requests /\ e.c = agent.try.config
      /\ e.a # 0
      /\ agent.try.st = "committingHeader" => e.k = "header"
      /\ agent.try.st = "committingContext" => e.k = "context"
      /\ agent.try.st = "committingChunk" =>
           e.k = "chunk" /\ e.v = <<Len(agent.try.chunks) + 1, agent.try.pending>>
      /\ agent.try.st = "committingMessage" => e.k = "message" /\ e.v = agent.try.chunks
  BY Drafts
<1> HIDE DEF e
<1>3. /\ Recorded(agent, log) /\ ConfigFits(agent, log)
      /\ log \in Seq(EntryType) /\ e \in EntryType /\ Len(log) \in Nat
  BY <1>2, LenProperties DEF LogFits, LogOK, MayAppend, Recorded
<1>4. /\ agent.attempts \in Nat /\ agent.requests \in Nat
      /\ e.a <= agent.attempts /\ e.r <= agent.requests
  BY <1>0, <1>2 DEF RequestType
<1>5. /\ EntriesFit(agent, more) /\ HeaderFits(agent, more)
      /\ HeaderWritten(log) \/ (e.k = "header" /\ e.a # 0) => HeaderWritten(more)
      /\ e.k # "chunk" => ChunksFit(agent, more)
      /\ e.k # "message" => MessageFits(agent, more)
  BY <1>0, <1>3, <1>4, LogAppends DEF Recorded
<1>6. \A kind : LatestOf(more, kind) = IF e.k = kind THEN e.c ELSE LatestOf(log, kind)
  BY <1>3, LatestOfAppend
<1> HIDE DEF more
<1>7. agent.try.st \in {"committingHeader", "committingContext", "committingChunk"} =>
        agent.call = agent.attempts
  BY <1>0 DEF RequestOK, CallOK, In, Streaming
<1>8. CASE agent.try.st = "committingHeader"
  <2> DEFINE h == [agent EXCEPT !.try.header = TRUE]
  <2>1. /\ h \in RequestType /\ h.try.header = TRUE
        /\ h.pending = agent.pending /\ h.sends = agent.sends
        /\ h.phase = agent.phase /\ h.cancel = agent.cancel /\ h.failed = agent.failed
        /\ h.err = agent.err
        /\ h.closed = agent.closed /\ h.header = agent.header /\ h.logged = agent.logged
        /\ h.requests = agent.requests /\ h.attempts = agent.attempts /\ h.call = agent.call
        /\ h.try.first = agent.try.first /\ h.try.config = agent.try.config
        /\ h.try.context = agent.try.context
        /\ h.try.closed = agent.try.closed /\ h.try.failed = agent.try.failed
        /\ h.try.chunks = agent.try.chunks /\ h.try.pending = agent.try.pending
        /\ h.try.last = agent.try.last
    BY <1>0 DEF RequestType, AttemptType
  <2>2. Committed(agent, at) = AfterHeader(h) /\ Acknowledged(at) = agent
    BY <1>8 DEF Committed, Acknowledged
  <2> HIDE DEF h
  <2>3. HeaderWritten(more) BY <1>2, <1>5, <1>8
  <2>4. Between(h) BY <1>1, <2>1 DEF Between, Running
  <2>5. e.k = "header" BY <1>2, <1>8
  <2>6. EntriesFit(h, more) /\ HeaderFits(h, more)
    BY <1>5, <2>1, <2>3 DEF EntriesFit, HeaderFits, Running
  <2>7. ChunksFit(h, more) /\ MessageFits(h, more)
    BY <1>5, <2>1, <2>5 DEF ChunksFit, MessageFits, Running
  <2>8. LatestOf(more, "header") = h.try.config BY <1>2, <1>6, <2>1, <2>5
  <2>9. ~h.try.context => LatestOf(more, "context") = h.try.config
    BY <1>0, <1>3, <1>6, <1>8, <2>1, <2>5 DEF ConfigFits, In
  <2>10. h.call = h.attempts BY <1>7, <1>8, <2>1
  <2>11. Good(h, AfterHeader(h), more)
    BY <2>3, <2>4, <2>6, <2>7, <2>8, <2>9, <2>10, Headed DEF Recorded
  <2>12. \A x : Follows(h, x) => Follows(agent, x) BY <2>1 DEF Follows, Asking
  <2>13. QED BY <2>2, <2>11, <2>12 DEF Good, e, more
<1>9. CASE agent.try.st = "committingContext"
  <2> DEFINE n == [agent EXCEPT !.try.st = "checking"]
  <2>1. e.k = "context" BY <1>2, <1>9
  <2>2. Recorded(agent, more) BY <1>5, <2>1 DEF Recorded
  <2>3. /\ n.try.st = "checking" /\ n.call = agent.call /\ n.attempts = agent.attempts
        /\ n.try.config = agent.try.config
    BY <1>0 DEF RequestType, AttemptType
  <2>4. Between(n) /\ Recorded(n, more) /\ \A x : Follows(n, x) => Follows(agent, x)
    BY <1>1, <2>2, Moves
  <2>5. Committed(agent, at) = (IF n.cancel THEN FailAttempt(n) ELSE n) /\ Acknowledged(at) = agent
    BY <1>9 DEF Committed, Acknowledged, Proceed
  <2> HIDE DEF n
  <2>6. /\ LatestOf(more, "context") = agent.try.config
        /\ LatestOf(more, "header") = agent.try.config /\ HeaderWritten(more)
    BY <1>0, <1>2, <1>3, <1>5, <1>6, <1>9, <2>1 DEF ConfigFits, In
  <2>7. ConfigFits(n, more) BY <2>3, <2>6 DEF ConfigFits, In
  <2>8. Good(n, n, more)
    <3>1. /\ n.try.st \in {"committingHeader", "committingContext", "checking", "committingChunk"}
          /\ n.call = n.attempts /\ n.try.st # "committingChunk"
      BY <1>7, <1>9, <2>3
    <3>2. QED BY <2>4, <2>7, <3>1, Waits
  <2>9. Good(n, FailAttempt(n), more) BY <2>4, Failure DEF Recorded
  <2>10. QED BY <2>4, <2>5, <2>8, <2>9 DEF Good, e, more
<1>10. CASE agent.try.st = "committingChunk"
  <2>1. e.k = "chunk" /\ e.v = <<Len(agent.try.chunks) + 1, agent.try.pending>> BY <1>2, <1>10
  <2>2. CASE agent.try.pending = "bad"
    <3>1. Committed(agent, at) = FailAttempt(agent) /\ Acknowledged(at) = agent
      BY <1>10, <2>2 DEF Committed, Acknowledged
    <3>2. Good(agent, FailAttempt(agent), more) BY <1>1, <1>5, <2>1, Failure
    <3>3. QED BY <3>1, <3>2 DEF e, more
  <2>3. CASE agent.try.pending # "bad"
    <3> DEFINE n == Counted(agent, at)
    <3>1. Committed(agent, at) = ReadChunk(n) /\ Acknowledged(at) = n
      BY <1>10, <2>3 DEF Committed, Acknowledged, Counted
    <3>0. at \in Nat BY <1>3
    <3>2. /\ n \in RequestType /\ n.try.chunks = Append(agent.try.chunks, at)
          /\ n.try.last = agent.try.pending /\ n.try.pending = "none"
          /\ n.pending = agent.pending /\ n.sends = agent.sends
          /\ n.phase = agent.phase /\ n.cancel = agent.cancel /\ n.failed = agent.failed
          /\ n.err = agent.err
          /\ n.closed = agent.closed /\ n.header = agent.header /\ n.logged = agent.logged
          /\ n.requests = agent.requests /\ n.attempts = agent.attempts /\ n.call = agent.call
          /\ n.try.first = agent.try.first /\ n.try.config = agent.try.config
          /\ n.try.header = agent.try.header /\ n.try.failed = agent.try.failed
          /\ n.try.closed = agent.try.closed
      BY <1>0, <3>0, CountedFields, ZenonT(30)
    <3>3. agent.try.last # "error" BY <1>0, <1>10 DEF RequestOK, OutcomeOK, In
    <3>4. ChunksFit(n, more)
      BY <1>0, <1>2, <1>3, <2>1, <3>3, Counts DEF Recorded, more
    <3> HIDE DEF n
    <3>5. Between(n) BY <1>1, <3>2 DEF Between, Running
    <3>6. EntriesFit(n, more) /\ HeaderFits(n, more) /\ MessageFits(n, more)
      BY <1>5, <2>1, <3>2 DEF EntriesFit, HeaderFits, MessageFits, Running
    <3>7. /\ LatestOf(more, "context") = n.try.config
          /\ LatestOf(more, "header") = n.try.config /\ HeaderWritten(more)
      BY <1>0, <1>3, <1>5, <1>6, <1>10, <2>1, <3>2 DEF ConfigFits, In
    <3>8. n.call = n.attempts BY <1>7, <1>10, <3>2
    <3>9. Good(n, ReadChunk(n), more) BY <3>4, <3>5, <3>6, <3>7, <3>8, Reading DEF Recorded
    <3>10. QED BY <3>1, <3>9 DEF e, more
  <2>4. QED BY <2>2, <2>3
<1>11. CASE agent.try.st = "committingMessage"
  <2>1. Committed(agent, at) = CompleteAttempt(agent, agent.cancel) /\ Acknowledged(at) = agent
    BY <1>11 DEF Committed, Acknowledged
  <2>2. agent.phase = "running" /\ agent.try.closed /\ agent.try.last # "error"
    BY <1>0, <1>11 DEF RequestOK, OutcomeOK, In
  <2>3. at \in DOMAIN more /\ more[at] = e BY <1>3, AppendKeeps DEF more
  <2>4. MayComplete(agent, agent.cancel, more) BY <1>2, <1>11, <2>2, <2>3 DEF MayComplete
  <2>5. Good(agent, CompleteAttempt(agent, agent.cancel), more)
    BY <1>0, <1>1, <1>5, <2>4, Completion
  <2>6. QED BY <2>1, <2>5 DEF e, more
<1>12. QED BY <1>0, <1>8, <1>9, <1>10, <1>11


----------------------------------------------------------------------------
(* A step of the Grain leaves the Worker as it was.                        *)

\* The next request is sent under a fresh identity, and a generation is asked
\* for only when no call is held.
Sent(w) ==
  \/ w.sends = <<>> /\ w.pending \subseteq agent.pending
  \/ \E k \in Kinds :
       /\ w.call # 0 /\ w.sends = <<Asking(w, k)>>
       /\ w.pending \subseteq agent.pending \cup {Asking(w, k)}
       /\ k = "start" => /\ agent.call = 0 /\ w.call > LastOpened(agent)
                         /\ w.try.last # "error" /\ w.try.pending # "error"

\* A call is given up only when there is nothing left of it.
Held(w) ==
  /\ w.call = agent.call \/ (w.call = 0 /\ ~Live(agent.call)) \/ agent.call = 0
  /\ LastOpened(agent) <= LastOpened(w) /\ w.attempts <= spent.of.attempts

\* What is left of a stream whose failed finish is known.
Over(w) ==
  /\ w.call # 0 /\ (w.try.last = "error" \/ w.try.pending = "error") => Exhausted(w.call)
  /\ w.try.last = "error" =>
       agent.try.last = "error" \/ \A p \in w.pending \cap agent.pending : p.k = "cancel"

\* The mail a step starts from, and the step.
Undelivered(M) ==
  /\ M \in Seq(Token) /\ ToSet(M) \subseteq ToSet(mail)
  /\ \A i, j \in DOMAIN M : M[i].k = "start" /\ M[j].k = "start" => i = j
Turns(w, M) ==
  /\ agent' = [w EXCEPT !.sends = <<>>] /\ mail' = M \o w.sends
  /\ replies' \subseteq replies /\ calls' = calls
  /\ spent' \in SpentType /\ spent'.of = spent.of

\* A new request's identity is nobody's.
LEMMA FreshToken ==
  ASSUME RequestOK(agent), WorkerFits
  PROVE  FreshID \in Nat \ {0} /\ \A t \in Tokens : t.id # FreshID
<1>1. FreshID \in Nat \ {0} /\ FreshID \notin Used
  <2>1. spent.of.attempts \in Nat BY SettingsAssumption DEF WorkerFits, BoundsOK, SpentType
  <2>2. QED BY <2>1, FreshIdentity DEF RequestOK, PendingOK, WorkerFits, RepliesOK
<1>2. \A t \in ToSet(mail) : t.id \in Used BY DEF Used, ToSet
<1>3. \A t \in Tokens : t.id \in Used
  <2> SUFFICES ASSUME NEW t \in Tokens PROVE t.id \in Used OBVIOUS
  <2>1. CASE t \in agent.pending BY <2>1 DEF Used
  <2>2. CASE t \in ToSet(mail) BY <1>2, <2>2
  <2>3. CASE t \in {TokenOf(r) : r \in replies} BY <2>3 DEF Used, TokenOf
  <2>4. CASE t \in {[k |-> calls[c].task.k, call |-> c, id |-> calls[c].task.id] : c \in Working}
    BY <2>4 DEF Used, Working
  <2>5. CASE t \in {[k |-> "close", call |-> c, id |-> calls[c].closing] : c \in Closing}
    BY <2>5 DEF Used, Closing
  <2>6. QED BY <2>1, <2>2, <2>3, <2>4, <2>5 DEF Tokens
<1>4. QED BY <1>1, <1>3

\* Handing the sends over changes nothing else of the request.
LEMMA DeliveredFields ==
  ASSUME NEW w \in RequestType
  PROVE  LET r == [w EXCEPT !.sends = <<>>] IN
         /\ r \in RequestType /\ r.sends = <<>>
         /\ r.phase = w.phase /\ r.cancel = w.cancel /\ r.failed = w.failed
         /\ r.err = w.err /\ r.closed = w.closed /\ r.header = w.header
         /\ r.logged = w.logged /\ r.requests = w.requests
         /\ r.attempts = w.attempts /\ r.try = w.try /\ r.call = w.call
         /\ r.pending = w.pending
<1>1. <<>> \in Seq(Token) OBVIOUS
<1>2. QED BY <1>1 DEF RequestType

\* The state after it, seen from the state before.
LEMMA AgentStep ==
  ASSUME RequestOK(agent), WorkerFits, NEW M, Undelivered(M),
         NEW w, RequestOK(w), LogFits(w, log'), Sent(w), Held(w), Over(w), Turns(w, M)
  PROVE  RequestFits'
<1>1. w \in RequestType /\ agent \in RequestType BY DEF RequestOK
<1>2. /\ agent' = [w EXCEPT !.sends = <<>>] /\ mail' = M \o w.sends
      /\ replies' \subseteq replies /\ calls' = calls
      /\ spent' \in SpentType /\ spent'.of = spent.of
  BY DEF Turns
<1>3. /\ M \in Seq(Token) /\ ToSet(M) \subseteq ToSet(mail)
      /\ \A i, j \in DOMAIN M : M[i].k = "start" /\ M[j].k = "start" => i = j
  BY DEF Undelivered
<1> USE <1>2, <1>3
<1>4. /\ agent' \in RequestType /\ agent'.sends = <<>>
      /\ agent'.phase = w.phase /\ agent'.cancel = w.cancel /\ agent'.failed = w.failed
      /\ agent'.err = w.err /\ agent'.closed = w.closed /\ agent'.header = w.header
      /\ agent'.logged = w.logged /\ agent'.requests = w.requests
      /\ agent'.attempts = w.attempts /\ agent'.try = w.try /\ agent'.call = w.call
      /\ agent'.pending = w.pending
  BY <1>1, DeliveredFields
<1>5. RequestOK(agent')
  BY <1>4 DEF RequestOK, CallOK, OutcomeOK, PendingOK, In, Running, Streaming
<1>6. LogFits(agent', log')
  BY <1>4 DEF LogFits, EntriesFit, HeaderFits, ConfigFits, ChunksFit, MessageFits, In, Running
<1>7. LastOpened(agent') = LastOpened(w) BY <1>4 DEF LastOpened, In, Running
<1>8. /\ FreshID \in Nat \ {0} /\ \A t \in Tokens : t.id # FreshID BY FreshToken
<1>9. /\ w.call \in Nat /\ w.attempts \in Nat /\ agent.attempts \in Nat /\ agent.call \in Nat
      /\ w.call <= LastOpened(w) /\ LastOpened(w) \in Int /\ LastOpened(agent) \in Int
  BY <1>1 DEF RequestOK, CallOK, LastOpened, In, RequestType
<1> DEFINE new == {Asking(w, k) : k \in {q \in Kinds : w.sends = <<Asking(w, q)>>}}
<1>10. \A t \in new : t.id = FreshID /\ t.call = w.call /\ t.k \in Kinds
  <2>1. \A t \in new : \E k \in Kinds : t = Asking(w, k) OBVIOUS
  <2> HIDE DEF new
  <2>2. \A k \in Kinds : /\ Asking(w, k).k = k /\ Asking(w, k).call = w.call
                         /\ Asking(w, k).id = FreshID
    BY DEF Asking
  <2>3. QED BY <2>1, <2>2
<1>11. /\ mail' \in Seq(Token)
       /\ ToSet(mail') \subseteq ToSet(mail) \cup new
       /\ \A i \in DOMAIN mail' : mail'[i] \in ToSet(mail) \cup new
       /\ w.pending \subseteq agent.pending \cup new
       /\ \A t \in new : t \in Token
       /\ \A t \in new : t.k = "start" => /\ agent.call = 0 /\ w.call > LastOpened(agent)
                                          /\ w.try.last # "error" /\ w.try.pending # "error"
  <2>1. CASE w.sends = <<>>
    <3>1. mail' = M BY <2>1
    <3>2. \A i \in DOMAIN M : M[i] \in ToSet(M) BY DEF ToSet
    <3>3. \A q : w.sends # <<Asking(w, q)>> BY <2>1
    <3>4. new = {} BY <3>3
    <3>5. w.pending \subseteq agent.pending BY <3>3, <2>1 DEF Sent
    <3> HIDE DEF new
    <3>6. QED BY <3>1, <3>2, <3>4, <3>5
  <2>2. CASE w.sends # <<>>
    <3>1. PICK k \in Kinds :
            /\ w.call # 0 /\ w.sends = <<Asking(w, k)>>
            /\ w.pending \subseteq agent.pending \cup {Asking(w, k)}
            /\ k = "start" => /\ agent.call = 0 /\ w.call > LastOpened(agent)
                              /\ w.try.last # "error" /\ w.try.pending # "error"
      BY <2>2 DEF Sent
    <3> DEFINE x == Asking(w, k)
    <3>2. x.k = k /\ \A q : w.sends = <<Asking(w, q)>> => q = k BY <3>1 DEF Asking
    <3>3. new = {x} BY <3>1, <3>2
    <3>4. x \in Token BY <1>1, <1>8, <3>1 DEF Asking, Token, RequestType
    <3> HIDE DEF x, new
    <3>5. w.sends = <<x>> /\ w.pending \subseteq agent.pending \cup {x} BY <3>1 DEF x
    <3>6. mail' = Append(M, x) BY <3>4, <3>5
    <3>7. /\ mail' \in Seq(Token) /\ DOMAIN M = 1..Len(M) /\ DOMAIN mail' = 1..Len(M) + 1
          /\ Len(M) \in Nat
          /\ \A i \in 1..Len(M) : mail'[i] = M[i]
          /\ mail'[Len(M) + 1] = x
      BY <3>4, <3>6, AppendKeeps
    <3>8. \A i \in DOMAIN mail' : i \in DOMAIN M \/ i = Len(M) + 1 BY <3>7
    <3>9. \A i \in DOMAIN M : M[i] \in ToSet(mail) BY DEF ToSet
    <3>10. \A i \in DOMAIN mail' : mail'[i] \in ToSet(mail) \cup {x} BY <3>7, <3>8, <3>9
    <3>11. ToSet(mail') \subseteq ToSet(mail) \cup {x} BY <3>10 DEF ToSet
    <3>12. QED BY <3>1, <3>2, <3>3, <3>4, <3>5, <3>7, <3>10, <3>11
  <2>3. QED BY <2>1, <2>2
<1>12. \A i, j \in DOMAIN mail' : mail'[i].k = "start" /\ mail'[j].k = "start" => i = j
  <2>1. CASE w.sends = <<>> BY <2>1
  <2>2. CASE w.sends # <<>>
    <3>1. PICK k \in Kinds :
            /\ w.call # 0 /\ w.sends = <<Asking(w, k)>>
            /\ k = "start" => agent.call = 0
      BY <2>2 DEF Sent
    <3> DEFINE x == Asking(w, k)
    <3>2. x.k = k /\ x \in Token BY <1>1, <1>8, <3>1 DEF Asking, Token, RequestType
    <3> HIDE DEF x
    <3>3. w.sends = <<x>> BY <3>1 DEF x
    <3>4. mail' = Append(M, x) BY <3>2, <3>3
    <3>5. /\ DOMAIN M = 1..Len(M) /\ DOMAIN mail' = 1..Len(M) + 1 /\ Len(M) \in Nat
          /\ \A i \in 1..Len(M) : mail'[i] = M[i]
          /\ mail'[Len(M) + 1] = x
      BY <3>2, <3>4, AppendKeeps
    <3>6. \A i \in DOMAIN mail' : i \in DOMAIN M \/ i = Len(M) + 1 BY <3>5
    <3>7. ASSUME k = "start", NEW i \in DOMAIN M, M[i].k = "start" PROVE FALSE
      <4>1. PICK n \in DOMAIN mail : M[i] = mail[n]
        BY DEF ToSet
      <4>2. mail[n].call = agent.call BY <3>7, <4>1 DEF WorkerFits, StreamsFit
      <4>3. mail[n] \in Token BY DEF WorkerFits
      <4>4. QED BY <3>1, <3>7, <4>2, <4>3 DEF Token
    <3>8. QED BY <3>2, <3>5, <3>6, <3>7
  <2>3. QED BY <2>1, <2>2
<1> HIDE DEF new
<1>13. BoundsOK' BY <1>4 DEF WorkerFits, BoundsOK, Held
<1>14. Calls' = Calls BY DEF Calls
<1>15. mail' \in Seq(Token) /\ (calls \in [Calls -> InvocationType])' /\ RepliesOK'
  <2>1. IsFiniteSet(replies') BY FS_Subset DEF WorkerFits, RepliesOK
  <2>2. RepliesOK' BY <2>1 DEF WorkerFits, RepliesOK
  <2>3. QED BY <1>11, <1>14, <2>2 DEF WorkerFits
<1>16. Tokens' \subseteq Tokens \cup new
  <2>1. Working' = Working /\ Closing' = Closing BY <1>14 DEF Working, Closing
  <2>2. {TokenOf(r) : r \in replies'} \subseteq {TokenOf(r) : r \in replies} OBVIOUS
  <2>3. QED BY <1>4, <1>11, <2>1, <2>2 DEF Tokens
<1>17. TokensFit'
  <2>1. Tokens' \subseteq Token BY <1>11, <1>16 DEF WorkerFits, TokensFit
  <2>2. \A s, t \in new : s = t
    <3>1. \A k, q \in Kinds : <<Asking(w, k)>> = <<Asking(w, q)>> => Asking(w, k) = Asking(w, q)
      OBVIOUS
    <3>2. QED BY <3>1 DEF new
  <2>3. \A s, t \in Tokens' : s.id = t.id => s = t
    BY <1>8, <1>10, <1>16, <2>2 DEF WorkerFits, TokensFit
  <2>4. \A t \in Tokens' : t.call <= LastOpened(agent')
    <3> SUFFICES ASSUME NEW t \in Tokens' PROVE t.call <= LastOpened(w) BY <1>7
    <3>1. CASE t \in Tokens
      <4>1. t.call <= LastOpened(agent) /\ t.call \in Nat BY <3>1 DEF WorkerFits, TokensFit, Token
      <4>2. QED BY <1>9, <4>1 DEF Held
    <3>2. CASE t \in new BY <1>9, <1>10, <3>2
    <3>3. QED BY <1>16, <3>1, <3>2
  <2>5. QED BY <2>1, <2>3, <2>4 DEF TokensFit
<1>18. \A i \in DOMAIN mail' : mail'[i].k = "start" =>
         \/ \E n \in DOMAIN mail : mail[n] = mail'[i] /\ mail[n].k = "start"
         \/ /\ mail'[i].call = w.call /\ agent.call = 0 /\ w.call > LastOpened(agent)
            /\ w.try.last # "error" /\ w.try.pending # "error"
  <2>1. \A t \in ToSet(mail) : \E n \in DOMAIN mail : mail[n] = t BY DEF ToSet
  <2>2. QED BY <1>10, <1>11, <2>1
<1>19. \A c : Asked(c)' => Asked(c) \/ (c = w.call /\ agent.call = 0 /\ c > LastOpened(agent)
                                          /\ w.try.last # "error" /\ w.try.pending # "error")
  BY <1>18 DEF Asked
<1>20. \A c : Live(c)' => Live(c) \/ (c = w.call /\ c > LastOpened(agent))
  BY <1>18 DEF Live
<1>21. \A r \in replies : r.call \in Nat \ {0} /\ r.call <= LastOpened(agent)
  <2>1. \A r \in replies : TokenOf(r) \in Tokens BY DEF Tokens
  <2>2. QED BY <2>1 DEF WorkerFits, TokensFit, TokenOf, Token
<1>22. StreamsFit'
  <2>1. \A c \in Calls' : ~calls'[c].active => calls'[c].task = NoTask /\ calls'[c].closing = 0
    BY <1>14 DEF WorkerFits, StreamsFit
  <2>2. ASSUME NEW c \in Calls', calls'[c].active PROVE c = agent'.call /\ ~Asked(c)'
    <3>1. c \in Calls /\ calls[c].active BY <1>14, <2>2
    <3>2. c = agent.call /\ ~Asked(c) BY <3>1 DEF WorkerFits, StreamsFit
    <3>3. Live(agent.call) BY <3>1, <3>2 DEF Live
    <3>4. agent.call # 0 BY <3>1, <3>2 DEF Calls
    <3>5. QED BY <1>4, <1>19, <3>2, <3>3, <3>4 DEF Held
  <2>3. ASSUME NEW i \in DOMAIN mail', mail'[i].k = "start" PROVE mail'[i].call = agent'.call
    <3>1. CASE mail'[i].call = w.call BY <1>4, <3>1
    <3>2. CASE \E n \in DOMAIN mail : mail[n] = mail'[i] /\ mail[n].k = "start"
      <4>1. PICK n \in DOMAIN mail : mail[n] = mail'[i] /\ mail[n].k = "start" BY <3>2
      <4>2. mail[n].call = agent.call /\ mail[n] \in Token BY <4>1 DEF WorkerFits, StreamsFit
      <4>3. Live(agent.call) /\ agent.call # 0 BY <4>1, <4>2 DEF Live, Token
      <4>4. QED BY <1>4, <4>1, <4>2, <4>3 DEF Held
    <3>3. QED BY <1>18, <2>3, <3>1, <3>2
  <2>4. \A r \in replies' : r.k = "close" /\ ~r.err => ~Live(r.call)'
    <3> SUFFICES ASSUME NEW r \in replies', r.k = "close", ~r.err, Live(r.call)' PROVE FALSE
      OBVIOUS
    <3>1. ~Live(r.call) BY DEF WorkerFits, StreamsFit
    <3>2. QED BY <1>9, <1>20, <1>21, <3>1
  <2>5. QED BY <1>12, <2>1, <2>2, <2>3, <2>4 DEF StreamsFit
<1>23. FinishFits'
  <2>1. ASSUME NEW r \in replies', r.k = "read", ~r.err, r.value = "error" PROVE Exhausted(r.call)'
    <3>1. Exhausted(r.call) BY <2>1 DEF WorkerFits, FinishFits
    <3>2. QED BY <1>9, <1>19, <1>21, <3>1 DEF Exhausted
  <2>2. ASSUME agent'.call # 0, agent'.try.last = "error" \/ agent'.try.pending = "error"
        PROVE  Exhausted(agent.call)'
    <3>1. Exhausted(w.call) BY <1>4, <2>2 DEF Over
    <3>2. QED BY <1>4, <1>19, <2>2, <3>1 DEF Exhausted
  <2>3. ASSUME NEW p \in agent'.pending, NEW r \in replies',
               p.id = r.id, r.k = "read", ~r.err, agent'.try.last = "error"
        PROVE  r.value = "end"
    <3>1. TokenOf(r) \in Tokens /\ TokenOf(r).id = r.id /\ TokenOf(r).k = "read"
      BY <2>3 DEF Tokens, TokenOf
    <3>2. p \notin new BY <1>8, <1>10, <2>3, <3>1
    <3>3. p \in agent.pending BY <1>4, <1>11, <3>2
    <3>4. p \in Tokens BY <3>3 DEF Tokens
    <3>5. p.k = "read" BY <2>3, <3>1, <3>4 DEF WorkerFits, TokensFit
    <3>6. agent.try.last = "error" BY <1>4, <2>3, <3>3, <3>5 DEF Over
    <3>7. QED BY <2>3, <3>3, <3>6 DEF WorkerFits, FinishFits
  <2>4. QED BY <2>1, <2>2, <2>3 DEF FinishFits
<1>24. WorkerFits' BY <1>13, <1>15, <1>17, <1>22, <1>23 DEF WorkerFits
<1>25. QED BY <1>4, <1>5, <1>6, <1>24 DEF RequestFits


\* A handler that keeps to the attempt: what it was given is the request it found,
\* short of an answered message.
LEMMA Handled ==
  ASSUME RequestFits, NEW M, Undelivered(M), NEW v, NEW w, Turns(w, M), Good(v, w, log'),
         v.attempts = agent.attempts, v.pending \subseteq agent.pending,
         v.call = agent.call \/ (v.call = 0 /\ ~Live(agent.call)),
         \A p \in v.pending : p.k = "cancel",
         v.call # 0 /\ (v.try.last = "error" \/ v.try.pending = "error") => Exhausted(v.call)
  PROVE  RequestFits'
<1>1. /\ RequestOK(w) /\ LogFits(w, log') /\ Follows(v, w)
      /\ RequestOK(agent) /\ WorkerFits
  BY DEF Good, RequestFits
<1>2. w \in RequestType /\ agent \in RequestType BY <1>1 DEF RequestOK
<1>3. \A k : Asking(v, k) = Asking(w, k) BY <1>1 DEF Follows, Asking
<1>4. ASSUME NEW k, w.sends = <<Asking(w, k)>> PROVE w.call # 0
  <2>1. w.sends \in Seq(Token) BY <1>2 DEF RequestType
  <2>2. Asking(w, k) \in Token BY <1>4, <2>1
  <2>3. QED BY <2>2 DEF Asking, Token
<1>5. Sent(w)
  <2>1. CASE w.sends = <<>> /\ w.pending = v.pending BY <2>1 DEF Sent
  <2>2. CASE \E k \in {"read", "close"} :
               w.sends = <<Asking(v, k)>> /\ w.pending = v.pending \cup {Asking(v, k)}
    <3>1. PICK k \in {"read", "close"} :
            w.sends = <<Asking(w, k)>> /\ w.pending = v.pending \cup {Asking(w, k)}
      BY <1>3, <2>2
    <3>2. k \in Kinds /\ k # "start" BY DEF Kinds
    <3>3. w.call # 0 BY <1>4, <3>1
    <3>4. QED BY <3>1, <3>2, <3>3 DEF Sent
  <2>3. QED BY <1>1, <2>1, <2>2 DEF Follows
<1>6. Held(w)
  <2>1. LastOpened(w) = agent.attempts BY <1>1 DEF LastOpened, Follows
  <2>2. LastOpened(agent) <= agent.attempts BY <1>2 DEF LastOpened, RequestType
  <2>3. agent.attempts <= spent.of.attempts BY <1>1 DEF WorkerFits, BoundsOK
  <2>4. QED BY <1>1, <2>1, <2>2, <2>3 DEF Held, Follows
<1>7. Over(w)
  <2>1. \A t \in agent.pending : t.id # FreshID BY <1>1, FreshToken DEF Tokens
  <2>2. \A k : Asking(v, k).id = FreshID BY DEF Asking
  <2>3. \A p \in w.pending \cap agent.pending : p.k = "cancel"
    BY <1>1, <2>1, <2>2 DEF Follows
  <2>4. w.call = v.call /\ w.try.last = v.try.last /\ w.try.pending = v.try.pending
    BY <1>1 DEF Follows
  <2>5. QED BY <2>3, <2>4 DEF Over
<1>8. QED BY <1>1, <1>5, <1>6, <1>7, AgentStep

\* The mail as it is, and short of one message.
LEMMA MailStays ==
  ASSUME WorkerFits
  PROVE  Undelivered(mail)
BY DEF WorkerFits, StreamsFit, Undelivered

\* The messages that are left when one is lost are undelivered still.
LEMMA MailShrinks ==
  ASSUME WorkerFits, NEW i \in DOMAIN mail
  PROVE  Undelivered(RemoveAt(mail, i))
<1>1. mail \in Seq(Token) /\ i \in 1..Len(mail) BY DEF WorkerFits
<1> DEFINE M == RemoveAt(mail, i)
<1>2. /\ M \in Seq(Token) /\ Len(M) = Len(mail) - 1 /\ Len(mail) \in Nat
      /\ \A n \in 1..Len(M) : M[n] = IF n < i THEN mail[n] ELSE mail[n + 1]
  <2>1. Len(mail) \in Nat BY <1>1, LenProperties
  <2>2. /\ M \in Seq(Token) /\ Len(M) = Len(mail) - 1
        /\ \A n \in 1..Len(mail) - 1 : M[n] = IF n < i THEN mail[n] ELSE mail[n + 1]
    BY <1>1, RemoveAtFacts
  <2>3. QED BY <2>1, <2>2
<1> HIDE DEF M
<1>3. DOMAIN M = 1..Len(M) /\ DOMAIN mail = 1..Len(mail) BY <1>1, <1>2
<1> DEFINE at(n) == IF n < i THEN n ELSE n + 1
<1>4. \A n \in DOMAIN M : at(n) \in DOMAIN mail /\ M[n] = mail[at(n)] BY <1>1, <1>2, <1>3
<1>5. \A n, o \in DOMAIN M : at(n) = at(o) => n = o BY <1>1, <1>2, <1>3
<1> HIDE DEF at
<1>6. ToSet(M) \subseteq ToSet(mail) BY <1>4 DEF ToSet
<1>7. \A n, o \in DOMAIN M : M[n].k = "start" /\ M[o].k = "start" => n = o
  BY <1>4, <1>5 DEF WorkerFits, StreamsFit
<1>8. QED BY <1>2, <1>6, <1>7 DEF Undelivered, M

\* A request that awaits nothing but cancellations is between two messages.
LEMMA Idle ==
  ASSUME RequestOK(agent), agent.sends = <<>>, Running(agent),
         \A p \in agent.pending : p.k = "cancel"
  PROVE  Between(agent)
BY DEF RequestOK, CallOK, OutcomeOK, PendingOK, Between, RequestType

\* One message less to wait for.
Without(p) == [agent EXCEPT !.pending = @ \ {p}]

\* Taking an answered request off the list changes nothing else.
LEMMA WithoutFields ==
  ASSUME agent \in RequestType, NEW p
  PROVE  LET r == Without(p) IN
         /\ r \in RequestType /\ r.pending = agent.pending \ {p} /\ r.sends = agent.sends
         /\ r.phase = agent.phase /\ r.cancel = agent.cancel /\ r.failed = agent.failed
         /\ r.err = agent.err /\ r.closed = agent.closed /\ r.header = agent.header
         /\ r.logged = agent.logged /\ r.requests = agent.requests
         /\ r.attempts = agent.attempts /\ r.try = agent.try /\ r.call = agent.call
BY DEF RequestType, Without

\* A request that was awaited is answered in the phase that asked it.
LEMMA Answered ==
  ASSUME RequestFits, NEW p \in agent.pending
  PROVE  /\ LogFits(Without(p), log) /\ Recorded(Without(p), log)
         /\ p.k = "cancel" => RequestOK(Without(p))
         /\ p.k # "cancel" => /\ Between(Without(p)) /\ p.call = agent.call
                              /\ \A q \in Without(p).pending : q.k = "cancel"
                              /\ p.k = "start" => agent.try.st = "opening"
                              /\ p.k = "read" => agent.try.st = "reading"
                              /\ p.k = "close" => agent.try.st = "closing"
<1> DEFINE r == Without(p)
<1>1. RequestOK(agent) /\ agent \in RequestType /\ agent.sends = <<>> /\ LogFits(agent, log)
  BY DEF RequestFits, RequestOK
<1>2. /\ r \in RequestType /\ r.pending = agent.pending \ {p} /\ r.sends = <<>>
      /\ r.phase = agent.phase /\ r.cancel = agent.cancel /\ r.failed = agent.failed
      /\ r.err = agent.err /\ r.closed = agent.closed /\ r.header = agent.header
      /\ r.logged = agent.logged /\ r.requests = agent.requests
      /\ r.attempts = agent.attempts /\ r.try = agent.try /\ r.call = agent.call
  BY <1>1, WithoutFields
<1> HIDE DEF r
<1>3. LogFits(r, log)
  BY <1>1, <1>2 DEF LogFits, EntriesFit, HeaderFits, ConfigFits, ChunksFit, MessageFits, In, Running
<1>4. IsFiniteSet(r.pending) BY <1>1, <1>2, FS_Subset DEF RequestOK, PendingOK
<1>5. RequestOK(r)
  BY <1>1, <1>2, <1>4 DEF RequestOK, CallOK, OutcomeOK, PendingOK, In, Running, Streaming
<1>6. ASSUME p.k # "cancel"
      PROVE  /\ Between(r) /\ p.call = agent.call
             /\ \A q \in r.pending : q.k = "cancel"
             /\ p.k = "start" => agent.try.st = "opening"
             /\ p.k = "read" => agent.try.st = "reading"
             /\ p.k = "close" => agent.try.st = "closing"
  <2>1. /\ Running(agent) /\ p.call = agent.call
        /\ p.k = "start" => agent.try.st = "opening"
        /\ p.k = "read" => agent.try.st = "reading"
        /\ p.k = "close" => agent.try.st = "closing"
        /\ \A q \in r.pending : q.k = "cancel"
    BY <1>1, <1>2, <1>6 DEF RequestOK, PendingOK
  <2>2. Between(r)
    BY <1>1, <1>2, <1>4, <2>1 DEF RequestOK, CallOK, OutcomeOK, Between, Running, RequestType
  <2>3. QED BY <2>1, <2>2
<1>7. Recorded(r, log) BY <1>3 DEF LogFits, Recorded
<1>8. QED BY <1>3, <1>5, <1>6, <1>7 DEF r

\* The Grain is told what became of a cancellation, and does nothing about it.
LEMMA Forgets ==
  ASSUME RequestFits, NEW p \in agent.pending, p.k = "cancel", log' = log,
         NEW M, Undelivered(M), Turns(Without(p), M)
  PROVE  RequestFits'
<1> DEFINE r == Without(p)
<1>1. RequestOK(agent) /\ agent \in RequestType /\ agent.sends = <<>> /\ WorkerFits
  BY DEF RequestFits, RequestOK
<1>2. /\ r.pending = agent.pending \ {p} /\ r.sends = <<>> /\ r.phase = agent.phase
      /\ r.attempts = agent.attempts /\ r.try = agent.try /\ r.call = agent.call
  BY <1>1, WithoutFields
<1>3. RequestOK(r) /\ LogFits(r, log') BY Answered
<1> HIDE DEF r
<1>4. Sent(r) BY <1>2 DEF Sent
<1>5. Held(r)
  BY <1>1, <1>2 DEF Held, LastOpened, In, Running, WorkerFits, BoundsOK, RequestType
<1>6. Over(r) BY <1>1, <1>2 DEF Over, WorkerFits, FinishFits
<1>7. QED BY <1>1, <1>3, <1>4, <1>5, <1>6, AgentStep DEF r


\* Anything else that is answered is handled from where the request stood.
LEMMA Resumes ==
  ASSUME RequestFits, NEW p \in agent.pending, p.k # "cancel", log' = log,
         NEW M, Undelivered(M), NEW w, Turns(w, M), Good(Without(p), w, log)
  PROVE  RequestFits'
<1> DEFINE r == Without(p)
<1>1. RequestOK(agent) /\ agent \in RequestType /\ WorkerFits BY DEF RequestFits, RequestOK
<1>2. /\ r.pending = agent.pending \ {p} /\ r.attempts = agent.attempts
      /\ r.try = agent.try /\ r.call = agent.call
  BY <1>1, WithoutFields
<1>3. \A q \in r.pending : q.k = "cancel" BY Answered
<1> HIDE DEF r
<1>4. r.call # 0 /\ (r.try.last = "error" \/ r.try.pending = "error") => Exhausted(r.call)
  BY <1>1, <1>2 DEF WorkerFits, FinishFits
<1>5. Good(r, w, log') BY DEF r
<1>6. QED BY <1>2, <1>3, <1>4, <1>5, Handled

\* A request that was refused, that expired, or that could not be sent.
LEMMA Fails ==
  ASSUME RequestFits, NEW p \in agent.pending, log' = log,
         NEW M, Undelivered(M), Turns(Failed(agent, p), M)
  PROVE  RequestFits'
<1> DEFINE r == Without(p)
<1>1. RequestOK(agent) /\ agent \in RequestType /\ WorkerFits BY DEF RequestFits, RequestOK
<1>2. p.k \in Kinds BY <1>1 DEF RequestType, Token
<1>3. FreshID \in Nat \ {0} BY <1>1, FreshToken
<1>4. Recorded(r, log) BY Answered
<1>5. CASE p.k = "cancel"
  <2>1. Failed(agent, p) = r BY <1>5 DEF Failed, Without
  <2>2. QED BY <1>5, <2>1, Forgets
<1>6. CASE p.k \in {"start", "read"}
  <2>1. Failed(agent, p) = FailAttempt(r) BY <1>6 DEF Failed, Without
  <2>2. Between(r) /\ p.k # "cancel" BY <1>6, Answered
  <2> HIDE DEF r
  <2>3. Good(r, FailAttempt(r), log) BY <1>3, <1>4, <2>2, Failure DEF Recorded
  <2>4. QED BY <2>1, <2>2, <2>3, Resumes DEF r
<1>7. CASE p.k = "close"
  <2>1. Failed(agent, p) = CompleteAttempt(r, TRUE) BY <1>7 DEF Failed, Without, CloseFailed
  <2>2. Between(r) /\ p.k # "cancel" BY <1>7, Answered
  <2> HIDE DEF r
  <2>3. MayComplete(r, TRUE, log) BY <1>4 DEF MayComplete, Recorded
  <2>4. Good(r, CompleteAttempt(r, TRUE), log) BY <1>4, <2>2, <2>3, Completion DEF Recorded
  <2>5. QED BY <2>1, <2>2, <2>4, Resumes DEF r
<1>8. QED BY <1>2, <1>5, <1>6, <1>7 DEF Kinds

\* A reply belongs to the request whose identity it carries.
LEMMA ReplyMatches ==
  ASSUME WorkerFits, NEW p \in agent.pending, NEW r \in replies, p.id = r.id
  PROVE  p.k = r.k /\ p.call = r.call
<1>1. p \in Tokens /\ TokenOf(r) \in Tokens BY DEF Tokens
<1>2. TokenOf(r) = p BY <1>1 DEF WorkerFits, TokensFit, TokenOf
<1>3. QED BY <1>2 DEF TokenOf

\* A reply is handled in the phase that asked for it.
LEMMA Accepts ==
  ASSUME RequestFits, NEW p \in agent.pending, NEW r \in replies, p.id = r.id, log' = log,
         NEW w \in Accepted(agent, p, r), Turns(w, mail)
  PROVE  RequestFits'
<1> DEFINE rest == Without(p)
<1>1. RequestOK(agent) /\ agent \in RequestType /\ WorkerFits BY DEF RequestFits, RequestOK
<1>2. p.k \in Kinds /\ p.k = r.k /\ p.call = r.call
  BY <1>1, ReplyMatches DEF RequestType, Token
<1>3. FreshID \in Nat \ {0} BY <1>1, FreshToken
<1>4. Recorded(rest, log) /\ LogFits(rest, log) BY Answered
<1>5. Undelivered(mail) BY <1>1, MailStays
<1>6. /\ rest.pending = agent.pending \ {p} /\ rest.attempts = agent.attempts
      /\ rest.try = agent.try /\ rest.call = agent.call /\ rest.phase = agent.phase
  BY <1>1, WithoutFields
<1>7. CASE r.err
  <2>1. w = Failed(agent, p) BY <1>7 DEF Accepted
  <2>2. QED BY <1>5, <2>1, Fails
<1>8. CASE ~r.err /\ p.k = "cancel"
  <2>1. w = rest BY <1>8 DEF Accepted, Without
  <2>2. QED BY <1>5, <1>8, <2>1, Forgets
<1>9. CASE ~r.err /\ p.k = "start"
  <2>1. w = Started(rest, r.value) BY <1>9 DEF Accepted, Without
  <2>2. Between(rest) /\ agent.try.st = "opening" BY <1>9, Answered
  <2> HIDE DEF rest
  <2>3. r.value \in Configs BY <1>1, <1>2, <1>9 DEF WorkerFits, RepliesOK
  <2>4. rest.try.st = "opening" /\ rest.call = rest.attempts
    BY <1>1, <1>6, <2>2 DEF RequestOK, CallOK, Between, Running, In, Streaming
  <2>5. Good(rest, Started(rest, r.value), log)
    BY <1>3, <1>4, <2>2, <2>3, <2>4, Starts DEF LogFits
  <2>6. p.k # "cancel" BY <1>9
  <2>7. QED BY <1>5, <2>1, <2>5, <2>6, Resumes DEF rest
<1>10. CASE ~r.err /\ p.k = "read" /\ r.value = "end"
  <2>1. w = StreamEnded(rest) BY <1>10 DEF Accepted, Without
  <2>2. Between(rest) /\ p.k # "cancel" BY <1>10, Answered
  <2> HIDE DEF rest
  <2>3. Good(rest, StreamEnded(rest), log) BY <1>3, <1>4, <2>2, Ends
  <2>4. QED BY <1>5, <2>1, <2>2, <2>3, Resumes DEF rest
<1>11. CASE ~r.err /\ p.k = "read" /\ r.value # "end"
  <2>1. w = ChunkArrived(rest, r.value) BY <1>11 DEF Accepted, Without
  <2>2. /\ Between(rest) /\ agent.try.st = "reading" /\ p.call = agent.call
        /\ \A q \in rest.pending : q.k = "cancel"
    BY <1>11, Answered
  <2> HIDE DEF rest
  <2>3. r.value \in Chunks BY <1>1, <1>2, <1>11 DEF WorkerFits, RepliesOK
  <2>4. rest.try.st = "reading" /\ rest.call = rest.attempts
    BY <1>1, <1>6, <2>2 DEF RequestOK, CallOK, Between, Running, In, Streaming
  <2>5. rest.try.last # "error" BY <1>1, <1>2, <1>6, <1>11 DEF WorkerFits, FinishFits
  <2>6. rest \in RequestType BY <2>2 DEF Between
  <2> DEFINE v == Arrived(rest, r.value)
  <2>7. Good(v, w, log')
    BY <1>3, <1>4, <2>1, <2>2, <2>3, <2>4, <2>5, Arrives DEF LogFits
  <2>8. /\ v.pending = rest.pending /\ v.attempts = rest.attempts /\ v.call = rest.call
        /\ v.try.pending = r.value /\ v.try.last = rest.try.last
    BY <2>3, <2>6, ArrivedFields
  <2> HIDE DEF v
  <2>9. v.try.pending = "error" => Exhausted(v.call)
    <3>1. r.value = "error" => Exhausted(r.call) BY <1>1, <1>2, <1>11 DEF WorkerFits, FinishFits
    <3>2. r.call = v.call BY <1>2, <1>6, <2>2, <2>8
    <3>3. QED BY <2>8, <3>1, <3>2
  <2>10. QED BY <1>5, <1>6, <2>2, <2>5, <2>7, <2>8, <2>9, Handled
<1>12. CASE ~r.err /\ p.k = "close"
  <2>1. w \in Closed(rest) BY <1>12 DEF Accepted, Without
  <2>2. /\ Between(rest) /\ p.call = agent.call
        /\ \A q \in rest.pending : q.k = "cancel"
    BY <1>12, Answered
  <2> HIDE DEF rest
  <2>3. rest \in RequestType BY <2>2 DEF Between
  <2> DEFINE v == Released(rest)
  <2>4. Good(v, w, log') BY <1>3, <1>4, <2>1, <2>2, Releases
  <2>5. v.pending = rest.pending /\ v.attempts = rest.attempts /\ v.call = 0
    BY <2>3, ReleasedFields
  <2> HIDE DEF v
  <2>6. ~Live(agent.call) BY <1>1, <1>2, <1>12, <2>2 DEF WorkerFits, StreamsFit
  <2>7. QED BY <1>5, <1>6, <2>2, <2>4, <2>5, <2>6, Handled
<1>13. QED BY <1>2, <1>7, <1>8, <1>9, <1>10, <1>11, <1>12 DEF Kinds

\* The request stays as it is while something else happens.
LEMMA Unmoved ==
  ASSUME RequestFits, LogFits(agent, log'), agent' = agent, mail' = mail,
         replies' \subseteq replies, calls' = calls,
         spent' \in SpentType, spent'.of = spent.of
  PROVE  RequestFits'
<1>1. /\ RequestOK(agent) /\ agent \in RequestType /\ agent.sends = <<>> /\ WorkerFits
      /\ mail \in Seq(Token)
  BY DEF RequestFits, RequestOK, WorkerFits
<1>2. [agent EXCEPT !.sends = <<>>] = agent BY <1>1 DEF RequestType
<1>3. mail \o agent.sends = mail BY <1>1, ConcatEmptySeq
<1>4. Turns(agent, mail) BY <1>2, <1>3 DEF Turns
<1>5. Sent(agent) BY <1>1 DEF Sent
<1>6. Held(agent) BY <1>1 DEF Held, LastOpened, WorkerFits, BoundsOK, RequestType
<1>7. Over(agent) BY <1>1 DEF Over, WorkerFits, FinishFits
<1>8. QED BY <1>1, <1>4, <1>5, <1>6, <1>7, AgentStep, MailStays


----------------------------------------------------------------------------
(* The actions of the Grain.                                               *)

\* What was recorded stays true while nothing is added to it.
LEMMA SameHistory ==
  ASSUME LogOK, History, log' = log
  PROVE  LogOK' /\ History'
BY DEF LogOK, History, RequestIsRecorded, OneMessagePerRequest, MessageIsWhatStreamed, Positions

\* A new attempt begins with nothing recorded.
LEMMA StartFields ==
  ASSUME NEW s \in RequestType
  PROVE  LET w == StartAttempt(s) IN
         /\ w \in RequestType /\ w.attempts = s.attempts + 1 /\ w.phase = "running"
         /\ w.closed = FALSE /\ w.err = FALSE /\ w.sends = s.sends /\ w.pending = s.pending
         /\ w.call = s.call /\ w.requests = s.requests /\ w.header = s.header
         /\ w.logged = s.logged
         /\ w.try.st = "readingLog" /\ w.try.first = (~s.logged /\ ~s.header)
         /\ w.try.header = FALSE /\ w.try.closed = FALSE /\ w.try.failed = FALSE
         /\ w.try.chunks = <<>> /\ w.try.pending = "none" /\ w.try.last = "none"
<1> DEFINE n == [NewTry EXCEPT !.st = "readingLog", !.first = ~s.logged /\ ~s.header]
           a == s.attempts + 1
           w == [s EXCEPT !.attempts = a, !.phase = "running", !.closed = FALSE,
                          !.err = FALSE, !.try = n]
<1>1. <<>> \in Seq(Nat) OBVIOUS
<1>2. NewTry \in AttemptType BY <1>1 DEF NewTry, AttemptType, Chunks, ConfigNames
<1>3. /\ n \in AttemptType /\ n.st = "readingLog" /\ n.first = (~s.logged /\ ~s.header)
      /\ n.header = FALSE /\ n.closed = FALSE /\ n.failed = FALSE
      /\ n.chunks = <<>> /\ n.pending = "none" /\ n.last = "none"
  <2> DEFINE f == ~s.logged /\ ~s.header
  <2>1. f \in BOOLEAN BY DEF RequestType
  <2>2. /\ NewTry.header = FALSE /\ NewTry.closed = FALSE /\ NewTry.failed = FALSE
        /\ NewTry.chunks = <<>> /\ NewTry.pending = "none" /\ NewTry.last = "none"
    BY DEF NewTry
  <2>3. n = [NewTry EXCEPT !.st = "readingLog", !.first = f] OBVIOUS
  <2> HIDE DEF f, n
  <2>4. /\ n \in AttemptType /\ n.st = "readingLog" /\ n.first = f
        /\ n.header = FALSE /\ n.closed = FALSE /\ n.failed = FALSE
        /\ n.chunks = <<>> /\ n.pending = "none" /\ n.last = "none"
    BY <1>2, <2>1, <2>2, <2>3 DEF AttemptType
  <2>5. QED BY <2>4 DEF f
<1>4. StartAttempt(s) = w BY DEF StartAttempt
<1>5. a \in Nat BY DEF RequestType
<1> HIDE DEF n, a
<1>6. /\ w \in RequestType /\ w.attempts = a /\ w.phase = "running"
      /\ w.closed = FALSE /\ w.err = FALSE /\ w.sends = s.sends /\ w.pending = s.pending
      /\ w.call = s.call /\ w.requests = s.requests /\ w.header = s.header
      /\ w.logged = s.logged /\ w.try = n
  BY <1>3, <1>5 DEF RequestType
<1> HIDE DEF w
<1>7. QED BY <1>3, <1>4, <1>6 DEF a

\* The request a further attempt is made for: the same one, or the next.
Restarts(s) ==
  /\ s.sends = <<>> /\ s.pending = agent.pending /\ s.call = agent.call
  /\ s.attempts = agent.attempts /\ s.logged = agent.logged /\ (s.header => agent.header)
  /\ s.attempts < spent.of.attempts
  /\ \/ s.requests > agent.requests
     \/ s.requests = agent.requests /\ agent.phase = "recovering"

\* The next attempt starts when the call of the last one is released.
LEMMA Starting ==
  ASSUME RequestFits, LogOK, log' = log, ~Running(agent), agent.closed,
         NEW s \in RequestType, Restarts(s), Turns(StartAttempt(s), mail)
  PROVE  RequestFits'
<1> DEFINE w == StartAttempt(s)
<1>1. /\ RequestOK(agent) /\ agent \in RequestType /\ LogFits(agent, log) /\ WorkerFits
  BY DEF RequestFits, RequestOK
<1>2. \A i \in DOMAIN log : log[i].a \in Nat /\ log[i].r \in Nat
  <2>1. \A i \in DOMAIN log : log[i] \in EntryType BY DEF LogOK
  <2>2. QED BY <2>1 DEF EntryType
<1>3. /\ w \in RequestType /\ w.attempts = s.attempts + 1 /\ w.phase = "running"
      /\ w.closed = FALSE /\ w.err = FALSE /\ w.sends = s.sends /\ w.pending = s.pending
      /\ w.call = s.call /\ w.requests = s.requests /\ w.header = s.header /\ w.logged = s.logged
      /\ w.try.st = "readingLog" /\ w.try.first = (~s.logged /\ ~s.header)
      /\ w.try.header = FALSE /\ w.try.closed = FALSE /\ w.try.failed = FALSE
      /\ w.try.chunks = <<>> /\ w.try.pending = "none" /\ w.try.last = "none"
  BY StartFields
<1> HIDE DEF w
<1>4. /\ s.sends = <<>> /\ s.pending = agent.pending /\ s.call = agent.call
      /\ s.attempts = agent.attempts /\ s.logged = agent.logged /\ (s.header => agent.header)
      /\ s.attempts < spent.of.attempts
      /\ \/ s.requests > agent.requests
         \/ s.requests = agent.requests /\ agent.phase = "recovering"
  BY DEF Restarts
<1>5. /\ agent.call = 0 /\ \A p \in agent.pending : p.k = "cancel"
      /\ agent.attempts \in Nat /\ agent.requests \in Nat /\ s.requests \in Nat
  BY <1>1, <1>4 DEF RequestOK, CallOK, PendingOK, RequestType
<1>6. RequestOK(w)
  BY <1>1, <1>3, <1>4, <1>5 DEF RequestOK, CallOK, OutcomeOK, PendingOK, In, Running, Streaming
<1>7. LogFits(w, log)
  <2>0. \A i \in DOMAIN log : log[i].a <= agent.attempts /\ log[i].r <= agent.requests
    BY <1>1 DEF LogFits, EntriesFit
  <2>1. EntriesFit(w, log) BY <1>2, <1>3, <1>4, <1>5, <2>0 DEF EntriesFit
  <2>2. HeaderFits(w, log) BY <1>1, <1>3, <1>4 DEF LogFits, HeaderFits, RequestType
  <2>3. ConfigFits(w, log) BY <1>3, <1>4 DEF ConfigFits, In
  <2>4. \A i \in DOMAIN log : log[i].a # w.attempts BY <1>2, <1>3, <1>4, <1>5, <2>0
  <2>5. ChunksFit(w, log)
    <3>1. ToSet(<<>>) = {} /\ Len(<<>>) = 0 /\ DOMAIN <<>> = {} BY DEF ToSet
    <3>2. QED BY <1>3, <1>4, <2>4, <3>1 DEF ChunksFit
  <2>6. \A i \in DOMAIN log : log[i].k = "message" => log[i].r # w.requests
    <3>1. CASE s.requests > agent.requests BY <1>2, <1>3, <1>4, <1>5, <2>0, <3>1
    <3>2. CASE s.requests = agent.requests /\ agent.phase = "recovering"
      BY <1>1, <1>3, <1>4, <3>2 DEF LogFits, MessageFits
    <3>3. QED BY <1>4, <3>1, <3>2
  <2>7. MessageFits(w, log) BY <1>3, <1>4, <2>4, <2>6 DEF MessageFits
  <2>8. QED BY <2>1, <2>2, <2>3, <2>5, <2>7 DEF LogFits
<1>8. Sent(w) BY <1>3, <1>4 DEF Sent
<1>9. Held(w)
  <2>1. LastOpened(w) = agent.attempts BY <1>3, <1>4, <1>5 DEF LastOpened, In, Running
  <2>2. LastOpened(agent) = agent.attempts BY DEF LastOpened, In
  <2>3. spent.of.attempts \in Nat BY <1>1, SettingsAssumption DEF WorkerFits, BoundsOK, SpentType
  <2>4. QED BY <1>3, <1>4, <1>5, <2>1, <2>2, <2>3 DEF Held
<1>10. Over(w) BY <1>3, <1>4, <1>5 DEF Over
<1>11. QED BY <1>1, <1>6, <1>7, <1>8, <1>9, <1>10, AgentStep, MailStays DEF w


\* The bounded events are counted.
LEMMA Spending ==
  ASSUME spent \in SpentType,
         \/ spent' = spent \/ \E happens \in BOOLEAN : Fault(happens)
         \/ spent' = [spent EXCEPT !.timeouts = @ + 1]
         \/ spent' = [spent EXCEPT !.cancels = @ + 1]
         \/ spent' = [spent EXCEPT !.others = @ + 1]
  PROVE  spent' \in SpentType /\ spent'.of = spent.of
BY DEF SpentType, Fault

\* An action of the Grain that leaves the Worker as it is.
LEMMA Becoming ==
  ASSUME RequestFits, UNCHANGED <<calls, replies>>, NEW w, Becomes(w),
         spent' \in SpentType, spent'.of = spent.of
  PROVE  Turns(w, mail) /\ Undelivered(mail) /\ FreshID \in Nat \ {0}
BY MailStays, FreshToken DEF Becomes, Turns, RequestFits

\* A new request may start: the last one is over and its call released.
LEMMA StartRequestKeeps ==
  ASSUME RequestFits, LogOK, StartRequest
  PROVE  RequestFits'
<1> DEFINE s == [agent EXCEPT !.requests = @ + 1, !.cancel = FALSE, !.failed = FALSE,
                              !.header = FALSE]
<1>1. agent \in RequestType /\ RequestOK(agent) /\ spent \in SpentType
  BY DEF RequestFits, RequestOK, WorkerFits, BoundsOK
<1>2. /\ s \in RequestType /\ s.requests = agent.requests + 1 /\ s.header = FALSE
      /\ s.sends = agent.sends /\ s.pending = agent.pending /\ s.call = agent.call
      /\ s.attempts = agent.attempts /\ s.logged = agent.logged
  <2> DEFINE n == agent.requests + 1
  <2>1. n \in Nat BY <1>1 DEF RequestType
  <2>2. s = [agent EXCEPT !.requests = n, !.cancel = FALSE, !.failed = FALSE, !.header = FALSE]
    OBVIOUS
  <2> HIDE DEF n
  <2>3. /\ s \in RequestType /\ s.requests = n /\ s.header = FALSE
        /\ s.sends = agent.sends /\ s.pending = agent.pending /\ s.call = agent.call
        /\ s.attempts = agent.attempts /\ s.logged = agent.logged
    BY <1>1, <2>1, <2>2 DEF RequestType
  <2>4. QED BY <2>3 DEF n
<1>3. Becomes(StartAttempt(s)) /\ spent' = spent /\ log' = log BY DEF StartRequest
<1> HIDE DEF s
<1>4. ~Running(agent) /\ agent.closed BY <1>1 DEF StartRequest, Running, RequestOK, CallOK
<1>5. agent.attempts < spent.of.attempts BY DEF StartRequest
<1>6. s.requests > agent.requests BY <1>1, <1>2 DEF RequestType
<1>7. agent.sends = <<>> BY DEF RequestFits
<1>8. Restarts(s) BY <1>2, <1>5, <1>6, <1>7 DEF Restarts
<1>9. Turns(StartAttempt(s), mail) BY <1>1, <1>3, Becoming DEF StartRequest
<1>10. QED BY <1>2, <1>3, <1>4, <1>8, <1>9, Starting

\* The RequestError hook's answer starts another attempt or ends the request.
LEMMA RecoveryKeeps ==
  ASSUME RequestFits, LogOK, RecoveryResolved
  PROVE  RequestFits'
<1>1. /\ agent \in RequestType /\ RequestOK(agent) /\ spent \in SpentType /\ agent.sends = <<>>
      /\ WorkerFits /\ LogFits(agent, log)
  BY DEF RequestFits, RequestOK, WorkerFits, BoundsOK
<1>2. agent.phase = "recovering" /\ spent' = spent /\ log' = log /\ UNCHANGED <<calls, replies>>
  BY DEF RecoveryResolved
<1>3. agent.closed BY <1>1, <1>2 DEF RequestOK, CallOK
<1>4. CASE Becomes(Finish(agent, TRUE))
  <2> DEFINE w == Finish(agent, TRUE)
  <2>1. /\ w \in RequestType /\ w.phase = "done" /\ w.err = TRUE
        /\ w.logged = (agent.logged \/ agent.header)
        /\ w.header = agent.header /\ w.closed = agent.closed
        /\ w.requests = agent.requests /\ w.attempts = agent.attempts
        /\ w.call = agent.call /\ w.pending = agent.pending /\ w.sends = agent.sends
        /\ w.try = agent.try
    BY <1>1, FinishFields
  <2>2. Turns(w, mail) BY <1>1, <1>2, <1>4, Becoming
  <2> HIDE DEF w
  <2>3. RequestOK(w)
    BY <1>1, <1>2, <1>3, <2>1 DEF RequestOK, CallOK, OutcomeOK, PendingOK, In, Running, Streaming
  <2>4. LogFits(w, log)
    BY <1>1, <1>2, <1>3, <2>1
       DEF LogFits, EntriesFit, HeaderFits, ConfigFits, ChunksFit, MessageFits, In, Running
  <2>5. Sent(w) BY <1>1, <2>1 DEF Sent
  <2>6. Held(w) BY <1>1, <1>2, <2>1 DEF Held, LastOpened, In, Running, WorkerFits, BoundsOK, RequestType
  <2>7. Over(w) BY <1>1, <2>1 DEF Over, WorkerFits, FinishFits
  <2>8. QED BY <1>1, <1>2, <2>2, <2>3, <2>4, <2>5, <2>6, <2>7, AgentStep, MailStays
<1>5. CASE Becomes(StartAttempt([agent EXCEPT !.failed = FALSE]))
           /\ agent.attempts < spent.of.attempts
  <2> DEFINE s == [agent EXCEPT !.failed = FALSE]
  <2>1. /\ s \in RequestType /\ s.requests = agent.requests /\ s.header = agent.header
        /\ s.sends = agent.sends /\ s.pending = agent.pending /\ s.call = agent.call
        /\ s.attempts = agent.attempts /\ s.logged = agent.logged
    BY <1>1 DEF RequestType
  <2>2. Becomes(StartAttempt(s)) BY <1>5
  <2> HIDE DEF s
  <2>3. Restarts(s) BY <1>1, <1>2, <1>5, <2>1 DEF Restarts
  <2>4. Turns(StartAttempt(s), mail) BY <1>1, <1>2, <2>2, Becoming
  <2>5. ~Running(agent) BY <1>2 DEF Running
  <2>6. QED BY <1>2, <1>3, <2>1, <2>3, <2>4, <2>5, Starting
<1>6. QED BY <1>4, <1>5 DEF RecoveryResolved

\* A log has a length and a number of surface entries.
LEMMA SurfaceType ==
  ASSUME NEW entries \in Seq(EntryType)
  PROVE  Len(entries) \in Nat /\ Surface(entries) \in Nat
<1> DEFINE seen == {i \in DOMAIN entries : entries[i].k \in {"surface", "message"}}
<1>1. Len(entries) \in Nat /\ DOMAIN entries = 1 .. Len(entries) BY LenProperties
<1>2. IsFiniteSet(DOMAIN entries) BY <1>1, FS_Interval
<1>3. IsFiniteSet(seen) BY <1>2, FS_Subset
<1>4. Cardinality(seen) \in Nat BY <1>3, FS_CardinalityType
<1>5. QED BY <1>1, <1>4 DEF Surface

\* The log is read, and the generation is asked for.
LEMMA ReadLogKeeps ==
  ASSUME RequestFits, LogOK, ReadLog
  PROVE  RequestFits'
<1> DEFINE read == [agent EXCEPT !.try.st = "opening", !.try.base = Len(log),
                                 !.try.surface = Surface(log)]
           asked == [read EXCEPT !.call = agent.attempts]
<1>1. /\ agent \in RequestType /\ RequestOK(agent) /\ spent \in SpentType /\ agent.sends = <<>>
      /\ WorkerFits /\ LogFits(agent, log)
  BY DEF RequestFits, RequestOK, WorkerFits, BoundsOK
<1>2. /\ Running(agent) /\ agent.try.st = "readingLog" /\ spent' = spent /\ log' = log
      /\ UNCHANGED <<calls, replies>>
      /\ Becomes(Proceed(read, Send(asked, "start")))
  BY DEF ReadLog, At, Active, Running
<1>3. /\ agent.call = 0 /\ ~agent.closed /\ agent.attempts \in Nat \ {0}
      /\ ~agent.try.closed /\ agent.try.last = "none" /\ agent.try.pending = "none"
  BY <1>1, <1>2 DEF RequestOK, CallOK, OutcomeOK, In, RequestType
<1>4. Between(agent) BY <1>1, <1>2, Quiet
<1>5. Len(log) \in Nat /\ Surface(log) \in Nat BY SurfaceType DEF LogOK
<1>6. /\ read \in RequestType /\ read.try.st = "opening" /\ read.try.base = Len(log)
      /\ read.pending = agent.pending /\ read.sends = agent.sends
      /\ read.phase = agent.phase /\ read.cancel = agent.cancel /\ read.failed = agent.failed
      /\ read.err = agent.err
      /\ read.closed = agent.closed /\ read.header = agent.header /\ read.logged = agent.logged
      /\ read.requests = agent.requests /\ read.attempts = agent.attempts /\ read.call = agent.call
      /\ read.try.first = agent.try.first /\ read.try.header = agent.try.header
      /\ read.try.closed = agent.try.closed /\ read.try.failed = agent.try.failed
      /\ read.try.chunks = agent.try.chunks /\ read.try.pending = agent.try.pending
      /\ read.try.last = agent.try.last
  BY <1>1, <1>5 DEF RequestType, AttemptType
<1> HIDE DEF read
<1>7. CASE read.cancel
  <2>1. Becomes(FailAttempt(read)) BY <1>2, <1>7 DEF Proceed
  <2>2. Between(read) BY <1>4, <1>6 DEF Between, Running
  <2>3. EntriesFit(read, log) /\ HeaderFits(read, log) /\ MessageFits(read, log)
    BY <1>1, <1>6 DEF LogFits, EntriesFit, HeaderFits, MessageFits
  <2>4. Turns(FailAttempt(read), mail) /\ Undelivered(mail) /\ FreshID \in Nat \ {0}
    BY <1>1, <1>2, <2>1, Becoming
  <2>5. Good(read, FailAttempt(read), log') BY <1>2, <2>2, <2>3, <2>4, Failure
  <2>6. \A p \in read.pending : p.k = "cancel" BY <2>2 DEF Between
  <2>7. QED BY <1>3, <1>6, <2>4, <2>5, <2>6, Handled
<1>8. CASE ~read.cancel
  <2> DEFINE w == Send(asked, "start")
  <2>1. Becomes(w) BY <1>2, <1>8 DEF Proceed
  <2>2. Turns(w, mail) /\ Undelivered(mail) /\ FreshID \in Nat \ {0}
    BY <1>1, <1>2, <2>1, Becoming
  <2>3. /\ asked \in RequestType /\ asked.call = agent.attempts
        /\ asked.pending = read.pending /\ asked.sends = read.sends
        /\ asked.phase = read.phase /\ asked.cancel = read.cancel /\ asked.failed = read.failed
        /\ asked.err = read.err
        /\ asked.closed = read.closed /\ asked.header = read.header /\ asked.logged = read.logged
        /\ asked.requests = read.requests /\ asked.attempts = read.attempts
        /\ asked.try = read.try
    BY <1>3, <1>6 DEF RequestType
  <2> HIDE DEF asked
  <2>4. asked.sends = <<>> /\ asked.call # 0 /\ "start" \in Kinds BY <1>1, <1>3, <1>6, <2>3 DEF Kinds
  <2>5. /\ w \in RequestType /\ Asking(asked, "start") \in Token
        /\ w.pending = asked.pending \cup {Asking(asked, "start")}
        /\ w.sends = <<Asking(asked, "start")>>
        /\ w.phase = asked.phase /\ w.cancel = asked.cancel /\ w.failed = asked.failed
        /\ w.err = asked.err
        /\ w.closed = asked.closed /\ w.header = asked.header /\ w.logged = asked.logged
        /\ w.requests = asked.requests /\ w.attempts = asked.attempts /\ w.try = asked.try
        /\ w.call = asked.call
    BY <2>2, <2>3, <2>4, SendFields
  <2> HIDE DEF w
  <2>6. Asking(asked, "start") = Asking(w, "start") BY <2>5 DEF Asking
  <2>7. Asking(w, "start").k = "start" /\ Asking(w, "start").call = w.call BY DEF Asking
  <2>8. RequestOK(w)
    <3>1. IsFiniteSet(w.pending)
      <4>1. IsFiniteSet(agent.pending) BY <1>4 DEF Between
      <4>2. w.pending = agent.pending \cup {Asking(asked, "start")} BY <1>6, <2>3, <2>5
      <4>3. QED BY <4>1, <4>2, FS_AddElement
    <3>2. PendingOK(w)
      BY <1>2, <1>4, <1>6, <2>3, <2>5, <2>6, <2>7, <3>1 DEF PendingOK, Between, Running
    <3>3. CallOK(w)
      BY <1>2, <1>3, <1>6, <2>3, <2>5 DEF CallOK, In, Running
    <3>4. OutcomeOK(w) BY <1>2, <1>3, <1>4, <1>6, <2>3, <2>5 DEF OutcomeOK, In, Running, Between
    <3>5. QED BY <2>5, <3>2, <3>3, <3>4 DEF RequestOK
  <2>9. LogFits(w, log)
    <3>1. EntriesFit(w, log) /\ HeaderFits(w, log) /\ ChunksFit(w, log) /\ MessageFits(w, log)
      BY <1>1, <1>2, <1>6, <2>3, <2>5
         DEF LogFits, EntriesFit, HeaderFits, ChunksFit, MessageFits, Running
    <3>2. SubSeq(log, 1, Len(log)) = log BY SubSeqFull DEF LogOK
    <3>3. w.try.st = "opening" /\ w.try.base = Len(log) /\ Len(log) <= Len(log)
      BY <1>5, <1>6, <2>3, <2>5
    <3>4. ConfigFits(w, log) BY <3>2, <3>3 DEF ConfigFits, In
    <3>5. QED BY <3>1, <3>4 DEF LogFits
  <2>10. LastOpened(agent) = agent.attempts - 1 BY <1>2 DEF LastOpened, In
  <2>11. LastOpened(w) = w.attempts BY <1>6, <2>3, <2>5 DEF LastOpened, In
  <2>12. w.call > LastOpened(agent) BY <1>3, <2>3, <2>5, <2>10
  <2>13. Sent(w)
    BY <1>3, <1>6, <2>3, <2>4, <2>5, <2>6, <2>12 DEF Sent
  <2>14. Held(w)
    BY <1>1, <1>3, <1>6, <2>3, <2>5, <2>10, <2>11 DEF Held, WorkerFits, BoundsOK
  <2>15. Over(w) BY <1>3, <1>6, <2>3, <2>5 DEF Over
  <2>16. QED BY <1>1, <1>2, <2>2, <2>8, <2>9, <2>13, <2>14, <2>15, AgentStep
<1>9. QED BY <1>7, <1>8


\* A handler the Session calls, or the wake of the Agent: it starts from the request
\* itself, or from its next phase.
LEMMA Proceeds ==
  ASSUME RequestFits, UNCHANGED <<calls, replies>>, NEW v, NEW w, Becomes(w), Good(v, w, log'),
         spent' \in SpentType, spent'.of = spent.of,
         v.attempts = agent.attempts, v.pending = agent.pending, v.call = agent.call,
         \A p \in agent.pending : p.k = "cancel",
         v.try.last = "error" \/ v.try.pending = "error" =>
           agent.try.last = "error" \/ agent.try.pending = "error"
  PROVE  RequestFits'
<1>1. Turns(w, mail) /\ Undelivered(mail) BY Becoming
<1>2. v.call # 0 /\ (v.try.last = "error" \/ v.try.pending = "error") => Exhausted(v.call)
  BY DEF RequestFits, WorkerFits, FinishFits
<1>3. QED BY <1>1, <1>2, Handled

\* The request is read from, or it fails because the log has moved on.
LEMMA CheckRequestKeeps ==
  ASSUME RequestFits, CheckRequest
  PROVE  RequestFits'
<1>1. /\ agent \in RequestType /\ RequestOK(agent) /\ spent \in SpentType /\ agent.sends = <<>>
      /\ WorkerFits /\ LogFits(agent, log)
  BY DEF RequestFits, RequestOK, WorkerFits, BoundsOK
<1>2. /\ Running(agent) /\ agent.try.st = "checking" /\ spent' = spent /\ log' = log
      /\ UNCHANGED <<calls, replies>>
  BY DEF CheckRequest, At, Active, Running
<1>3. Between(agent) BY <1>1, <1>2, Quiet
<1>4. \A p \in agent.pending : p.k = "cancel" BY <1>3 DEF Between
<1>5. FreshID \in Nat \ {0} BY <1>1, FreshToken
<1>6. PICK w \in {ReadChunk(agent), FailAttempt(agent)} : Becomes(w) BY DEF CheckRequest
<1>7. Good(agent, ReadChunk(agent), log)
  <2>1. /\ HeaderWritten(log) /\ LatestOf(log, "header") = agent.try.config
        /\ LatestOf(log, "context") = agent.try.config
    BY <1>1, <1>2 DEF LogFits, ConfigFits, In
  <2>2. agent.call = agent.attempts BY <1>1, <1>2 DEF RequestOK, CallOK, In, Streaming
  <2>3. Recorded(agent, log) BY <1>1 DEF LogFits, Recorded
  <2>4. QED BY <1>3, <1>5, <2>1, <2>2, <2>3, Reading
<1>8. Good(agent, FailAttempt(agent), log) BY <1>1, <1>3, <1>5, Failure DEF LogFits
<1>9. Good(agent, w, log') BY <1>2, <1>6, <1>7, <1>8
<1>10. QED BY <1>1, <1>2, <1>4, <1>6, <1>9, Proceeds

\* A failed read of the log fails the attempt.
LEMMA ReadFailsKeeps ==
  ASSUME RequestFits, ReadFails
  PROVE  RequestFits'
<1>1. /\ agent \in RequestType /\ RequestOK(agent) /\ spent \in SpentType /\ agent.sends = <<>>
      /\ WorkerFits /\ LogFits(agent, log)
  BY DEF RequestFits, RequestOK, WorkerFits, BoundsOK
<1>2. /\ Running(agent) /\ agent.try.st \in {"readingLog", "checking"} /\ log' = log
      /\ UNCHANGED <<calls, replies>> /\ Fault(TRUE) /\ Becomes(FailAttempt(agent))
  BY DEF ReadFails, At, Active, Running
<1>3. spent' \in SpentType /\ spent'.of = spent.of BY <1>1, <1>2, Spending
<1>4. Between(agent) BY <1>1, <1>2, Quiet
<1>5. \A p \in agent.pending : p.k = "cancel" BY <1>4 DEF Between
<1>6. FreshID \in Nat \ {0} BY <1>1, FreshToken
<1>7. Good(agent, FailAttempt(agent), log') BY <1>1, <1>2, <1>4, <1>6, Failure DEF LogFits
<1>8. QED BY <1>2, <1>3, <1>5, <1>7, Proceeds

\* A phase that commits awaits nobody but the Session.
LEMMA Commitment ==
  ASSUME RequestOK(agent), agent.sends = <<>>, Committing
  PROVE  /\ Between(agent) /\ \A p \in agent.pending : p.k = "cancel"
         /\ agent.try.st \in {"committingHeader", "committingContext", "committingChunk",
                              "committingMessage"}
<1>1. /\ Running(agent)
      /\ agent.try.st \in {"committingHeader", "committingContext", "committingChunk",
                           "committingMessage"}
  BY DEF Committing, At, Active, Running
<1>2. Between(agent) BY <1>1, Quiet
<1>3. QED BY <1>1, <1>2 DEF Between

\* A commit appends the draft and moves the attempt on.
LEMMA CommitsKeep ==
  ASSUME RequestFits, LogOK, History, SessionCommits
  PROVE  RequestFits' /\ LogOK' /\ History'
<1> DEFINE v == Acknowledged(Len(log) + 1)
           w == Committed(agent, Len(log) + 1)
<1>1. /\ agent \in RequestType /\ RequestOK(agent) /\ spent \in SpentType /\ agent.sends = <<>>
      /\ WorkerFits /\ LogFits(agent, log)
  BY DEF RequestFits, RequestOK, WorkerFits, BoundsOK
<1>2. /\ Committing /\ log' = Append(log, Draft(agent)) /\ Becomes(w) /\ spent' = spent
      /\ UNCHANGED <<calls, replies>>
  BY DEF SessionCommits
<1>3. \A p \in agent.pending : p.k = "cancel" BY <1>1, <1>2, Commitment
<1>4. FreshID \in Nat \ {0} BY <1>1, FreshToken
<1>5. Good(v, w, log') BY <1>1, <1>2, <1>4, Commits
<1>6. Len(log) + 1 \in Nat BY LenProperties DEF LogOK
<1>7. /\ v.attempts = agent.attempts /\ v.pending = agent.pending /\ v.call = agent.call
      /\ v.try.last = "error" \/ v.try.pending = "error" =>
           agent.try.last = "error" \/ agent.try.pending = "error"
  <2> DEFINE at == Len(log) + 1
             n == Counted(agent, at)
  <2>0. at \in Nat BY <1>6
  <2> HIDE DEF at
  <2>1. /\ n.try.last = agent.try.pending /\ n.try.pending = "none"
        /\ n.pending = agent.pending /\ n.attempts = agent.attempts /\ n.call = agent.call
    BY <1>1, <2>0, CountedFields
  <2>2. v = n \/ v = agent BY DEF Acknowledged, at
  <2> HIDE DEF n, v
  <2>3. QED BY <2>1, <2>2
<1> HIDE DEF v, w
<1>8. RequestFits' BY <1>1, <1>2, <1>3, <1>5, <1>7, Proceeds
<1>9. MayAppend(Draft(agent)) BY <1>1, <1>2, Drafts
<1>10. LogOK' /\ History' BY <1>2, <1>9, HistoryGrows
<1>11. QED BY <1>8, <1>10

\* A commit whose acknowledgement is lost may be in the log all the same.
LEMMA CommitFailsKeeps ==
  ASSUME RequestFits, LogOK, History, CommitFails
  PROVE  RequestFits' /\ LogOK' /\ History'
<1>1. /\ agent \in RequestType /\ RequestOK(agent) /\ spent \in SpentType /\ agent.sends = <<>>
      /\ WorkerFits /\ LogFits(agent, log)
  BY DEF RequestFits, RequestOK, WorkerFits, BoundsOK
<1>2. /\ Committing /\ log' \in {log, Append(log, Draft(agent))} /\ Becomes(FailAttempt(agent))
      /\ Fault(TRUE) /\ UNCHANGED <<calls, replies>>
  BY DEF CommitFails
<1>3. \A p \in agent.pending : p.k = "cancel" BY <1>1, <1>2, Commitment
<1>4. FreshID \in Nat \ {0} BY <1>1, FreshToken
<1>5. Good(agent, FailAttempt(agent), log') BY <1>1, <1>2, <1>4, CommitFailure
<1>6. spent' \in SpentType /\ spent'.of = spent.of BY <1>1, <1>2, Spending
<1>7. RequestFits' BY <1>2, <1>3, <1>5, <1>6, Proceeds
<1>8. CASE log' = log BY <1>7, <1>8, SameHistory
<1>9. CASE log' = Append(log, Draft(agent))
  <2>1. MayAppend(Draft(agent)) BY <1>1, <1>2, Drafts
  <2>2. LogOK' /\ History' BY <1>9, <2>1, HistoryGrows
  <2>3. QED BY <1>7, <2>2
<1>10. QED BY <1>2, <1>8, <1>9


\* Without a call there is nothing to close.
LEMMA NothingToCloseKeeps ==
  ASSUME RequestFits, NothingToClose
  PROVE  RequestFits'
<1>1. /\ agent \in RequestType /\ RequestOK(agent) /\ spent \in SpentType /\ agent.sends = <<>>
      /\ WorkerFits /\ LogFits(agent, log)
  BY DEF RequestFits, RequestOK, WorkerFits, BoundsOK
<1>2. /\ Running(agent) /\ agent.call = 0 /\ spent' = spent /\ log' = log
      /\ UNCHANGED <<calls, replies>>
  BY DEF NothingToClose, At, Active, Running
<1>3. PICK w \in Closed(agent) : Becomes(w) BY DEF NothingToClose
<1>4. \A p \in agent.pending : p.k = "cancel"
  <2>1. \A p \in agent.pending : p.call # 0 BY <1>1 DEF RequestType, Token
  <2>2. QED BY <1>1, <1>2, <2>1 DEF RequestOK, PendingOK
<1>5. Between(agent) BY <1>1, <1>2, <1>4, Idle
<1>6. FreshID \in Nat \ {0} BY <1>1, FreshToken
<1> DEFINE v == Released(agent)
<1>7. Recorded(agent, log) BY <1>1 DEF LogFits, Recorded
<1>8. Good(v, w, log') BY <1>2, <1>3, <1>5, <1>6, <1>7, Releases
<1>9. /\ v.pending = agent.pending /\ v.attempts = agent.attempts /\ v.call = 0
      /\ v.try.last = agent.try.last /\ v.try.pending = agent.try.pending
  BY <1>1, ReleasedFields
<1> HIDE DEF v
<1>10. QED BY <1>1, <1>2, <1>3, <1>4, <1>8, <1>9, Proceeds

\* A retained close is asked for again.
LEMMA RetryCloseKeeps ==
  ASSUME RequestFits, RetryClose
  PROVE  RequestFits'
<1> DEFINE v == [agent EXCEPT !.phase = "retryingClose"]
<1>1. /\ agent \in RequestType /\ RequestOK(agent) /\ spent \in SpentType /\ agent.sends = <<>>
      /\ WorkerFits /\ LogFits(agent, log)
  BY DEF RequestFits, RequestOK, WorkerFits, BoundsOK
<1>2. /\ agent.phase = "done" /\ ~agent.closed /\ spent' = spent /\ log' = log
      /\ UNCHANGED <<calls, replies>> /\ Becomes(CloseStream(v))
  BY DEF RetryClose
<1>3. /\ v \in RequestType /\ v.phase = "retryingClose"
      /\ v.pending = agent.pending /\ v.sends = agent.sends /\ v.failed = agent.failed
      /\ v.closed = agent.closed /\ v.header = agent.header /\ v.logged = agent.logged
      /\ v.requests = agent.requests /\ v.attempts = agent.attempts /\ v.call = agent.call
      /\ v.try = agent.try
  BY <1>1 DEF RequestType
<1> HIDE DEF v
<1>4. /\ agent.failed /\ agent.try.failed /\ agent.attempts >= 1
      /\ agent.call \in {0, agent.attempts} /\ (agent.try.closed => agent.call = 0)
      /\ IsFiniteSet(agent.pending) /\ \A p \in agent.pending : p.k = "cancel"
  BY <1>1, <1>2 DEF RequestOK, CallOK, OutcomeOK, PendingOK, Running
<1>5. Between(v) BY <1>1, <1>2, <1>3, <1>4 DEF Between, Running
<1>6. Recorded(v, log)
  <2>1. EntriesFit(v, log) BY <1>1, <1>3 DEF LogFits, EntriesFit
  <2>2. HeaderFits(v, log) BY <1>1, <1>3 DEF LogFits, HeaderFits
  <2>3. ChunksFit(v, log) BY <1>3, <1>4 DEF ChunksFit
  <2>4. MessageFits(v, log) BY <1>1, <1>2, <1>3 DEF LogFits, MessageFits
  <2>5. QED BY <2>1, <2>2, <2>3, <2>4 DEF Recorded
<1>7. FreshID \in Nat \ {0} BY <1>1, FreshToken
<1>8. Good(v, CloseStream(v), log') BY <1>2, <1>5, <1>6, <1>7, Closes
<1>9. QED BY <1>1, <1>2, <1>3, <1>4, <1>8, Proceeds

\* A cancellation is sent beside what is awaited.
LEMMA CancelKeeps ==
  ASSUME RequestFits, Cancel
  PROVE  RequestFits'
<1> DEFINE stopped == [agent EXCEPT !.cancel = TRUE]
<1>1. /\ agent \in RequestType /\ RequestOK(agent) /\ spent \in SpentType /\ agent.sends = <<>>
      /\ WorkerFits /\ LogFits(agent, log)
  BY DEF RequestFits, RequestOK, WorkerFits, BoundsOK
<1>2. /\ spent' = [spent EXCEPT !.cancels = @ + 1] /\ log' = log /\ UNCHANGED <<calls, replies>>
      /\ Becomes(stopped) \/ (agent.call # 0 /\ Becomes(Send(stopped, "cancel")))
  BY DEF Cancel
<1>3. spent' \in SpentType /\ spent'.of = spent.of BY <1>1, <1>2, Spending
<1>4. FreshID \in Nat \ {0} BY <1>1, FreshToken
<1>5. /\ stopped \in RequestType
      /\ stopped.pending = agent.pending /\ stopped.sends = agent.sends
      /\ stopped.phase = agent.phase /\ stopped.failed = agent.failed /\ stopped.err = agent.err
      /\ stopped.closed = agent.closed /\ stopped.header = agent.header
      /\ stopped.logged = agent.logged /\ stopped.requests = agent.requests
      /\ stopped.attempts = agent.attempts /\ stopped.call = agent.call
      /\ stopped.try = agent.try
  BY <1>1 DEF RequestType
<1> HIDE DEF stopped
<1>6. PICK w \in {stopped, Send(stopped, "cancel")} :
        Becomes(w) /\ (w = stopped \/ (agent.call # 0 /\ w = Send(stopped, "cancel")))
  BY <1>2
<1>7. /\ w \in RequestType
      /\ w.phase = agent.phase /\ w.failed = agent.failed /\ w.err = agent.err
      /\ w.closed = agent.closed /\ w.header = agent.header /\ w.logged = agent.logged
      /\ w.requests = agent.requests /\ w.attempts = agent.attempts /\ w.call = agent.call
      /\ w.try = agent.try
      /\ \/ w.sends = <<>> /\ w.pending = agent.pending
         \/ /\ w.call # 0 /\ w.sends = <<Asking(w, "cancel")>>
            /\ w.pending = agent.pending \cup {Asking(w, "cancel")}
  <2>1. CASE w = stopped BY <1>1, <1>5, <2>1
  <2>2. CASE agent.call # 0 /\ w = Send(stopped, "cancel")
    <3>1. stopped.sends = <<>> /\ stopped.call # 0 /\ "cancel" \in Kinds
      BY <1>1, <1>5, <2>2 DEF Kinds
    <3>2. LET r == Send(stopped, "cancel") IN
          /\ r \in RequestType /\ Asking(stopped, "cancel") \in Token
          /\ r.pending = stopped.pending \cup {Asking(stopped, "cancel")}
          /\ r.sends = <<Asking(stopped, "cancel")>>
          /\ r.phase = stopped.phase /\ r.cancel = stopped.cancel /\ r.failed = stopped.failed
          /\ r.err = stopped.err
          /\ r.closed = stopped.closed /\ r.header = stopped.header
          /\ r.logged = stopped.logged
          /\ r.requests = stopped.requests /\ r.attempts = stopped.attempts
          /\ r.try = stopped.try /\ r.call = stopped.call
      BY <1>4, <1>5, <3>1, SendFields
    <3>3. Asking(stopped, "cancel") = Asking(w, "cancel") BY <2>2, <3>2 DEF Asking
    <3>4. QED BY <1>5, <2>2, <3>1, <3>2, <3>3
  <2>3. QED BY <1>6, <2>1, <2>2
<1>8. Asking(w, "cancel").k = "cancel" BY DEF Asking
<1>9. RequestOK(w)
  <2>1. IsFiniteSet(w.pending) BY <1>1, <1>7, FS_AddElement DEF RequestOK, PendingOK
  <2>2. \A p \in w.pending : p.k # "cancel" => p \in agent.pending BY <1>7, <1>8
  <2>3. PendingOK(w) BY <1>1, <1>7, <2>1, <2>2 DEF RequestOK, PendingOK, Running
  <2>4. CallOK(w) /\ OutcomeOK(w)
    BY <1>1, <1>7 DEF RequestOK, CallOK, OutcomeOK, In, Running, Streaming
  <2>5. QED BY <1>7, <2>3, <2>4 DEF RequestOK
<1>10. LogFits(w, log)
  BY <1>1, <1>7 DEF LogFits, EntriesFit, HeaderFits, ConfigFits, ChunksFit, MessageFits, In, Running
<1>11. Sent(w)
  <2>1. "cancel" \in Kinds /\ "cancel" # "start" BY DEF Kinds
  <2>2. QED BY <1>7, <2>1 DEF Sent
<1>12. Held(w) BY <1>1, <1>7 DEF Held, LastOpened, In, Running, WorkerFits, BoundsOK, RequestType
<1>13. Over(w) BY <1>1, <1>7 DEF Over, WorkerFits, FinishFits
<1>14. Turns(w, mail) /\ Undelivered(mail) BY <1>2, <1>3, <1>6, Becoming
<1>15. QED BY <1>1, <1>2, <1>9, <1>10, <1>11, <1>12, <1>13, <1>14, AgentStep

\* Another owner's entry is no header, no chunk and no message.
LEMMA OtherWritesKeeps ==
  ASSUME RequestFits, LogOK, History, OtherWrites
  PROVE  RequestFits' /\ LogOK' /\ History'
<1> DEFINE e == [k |-> "surface", r |-> 0, a |-> 0, c |-> "none", v |-> <<>>]
<1>1. /\ agent \in RequestType /\ RequestOK(agent) /\ spent \in SpentType
      /\ LogFits(agent, log) /\ log \in Seq(EntryType)
  BY DEF RequestFits, RequestOK, WorkerFits, BoundsOK, LogOK
<1>2. /\ spent' = [spent EXCEPT !.others = @ + 1] /\ log' = Append(log, e)
      /\ UNCHANGED <<agent, mail, calls, replies>>
  BY DEF OtherWrites
<1>3. spent' \in SpentType /\ spent'.of = spent.of BY <1>1, <1>2, Spending
<1>4. /\ e \in EntryType /\ e.k = "surface" /\ e.a = 0 /\ e.r = 0
  <2>1. <<>> \in Seq(Nat) OBVIOUS
  <2>2. QED BY <2>1 DEF EntryType, ConfigNames
<1> HIDE DEF e
<1>5. MayAppend(e) BY <1>4 DEF MayAppend
<1>6. LogOK' /\ History' BY <1>2, <1>5, HistoryGrows
<1>7. agent.attempts \in Nat /\ agent.requests \in Nat BY <1>1 DEF RequestType
<1>8. /\ EntriesFit(agent, log') /\ HeaderFits(agent, log') /\ ChunksFit(agent, log')
      /\ MessageFits(agent, log') /\ (HeaderWritten(log) => HeaderWritten(log'))
  BY <1>1, <1>2, <1>4, <1>7, LogAppends DEF LogFits
<1>9. /\ \A kind : kind # "surface" => LatestOf(log', kind) = LatestOf(log, kind)
      /\ \A n \in 0 .. Len(log) : SubSeq(log', 1, n) = SubSeq(log, 1, n)
      /\ Len(log') = Len(log) + 1 /\ Len(log) \in Nat
  BY <1>1, <1>2, <1>4, LatestOfAppend, AppendKeeps
<1>10. ConfigFits(agent, log')
  <2>1. ASSUME In(agent, {"opening"})
        PROVE  /\ agent.try.base <= Len(log')
               /\ \A kind \in {"header", "context"} :
                    LatestOf(SubSeq(log', 1, agent.try.base), kind) = LatestOf(log', kind)
    <3>1. /\ agent.try.base <= Len(log)
          /\ \A kind \in {"header", "context"} :
               LatestOf(SubSeq(log, 1, agent.try.base), kind) = LatestOf(log, kind)
      BY <1>1, <2>1 DEF LogFits, ConfigFits
    <3>2. agent.try.base \in Nat BY <1>1 DEF RequestType, AttemptType
    <3>3. agent.try.base \in 0 .. Len(log) BY <1>9, <3>1, <3>2
    <3>4. agent.try.base <= Len(log') BY <1>9, <3>3
    <3>5. SubSeq(log', 1, agent.try.base) = SubSeq(log, 1, agent.try.base) BY <1>9, <3>3
    <3>6. \A kind \in {"header", "context"} : LatestOf(log', kind) = LatestOf(log, kind) BY <1>9
    <3>7. QED BY <3>1, <3>4, <3>5, <3>6
  <2>2. LatestOf(log', "header") = LatestOf(log, "header")
        /\ LatestOf(log', "context") = LatestOf(log, "context")
    BY <1>9
  <2>3. QED BY <1>1, <1>8, <2>1, <2>2 DEF LogFits, ConfigFits
<1>11. LogFits(agent, log') BY <1>8, <1>10 DEF LogFits
<1>12. RequestFits' BY <1>2, <1>3, <1>11, Unmoved
<1>13. QED BY <1>6, <1>12

\* A reply nobody awaits is dropped; another is handled.
LEMMA ReplyArrivesKeeps ==
  ASSUME RequestFits, ReplyArrives
  PROVE  RequestFits'
<1>1. spent \in SpentType /\ WorkerFits /\ LogFits(agent, log)
  BY DEF RequestFits, WorkerFits, BoundsOK
<1>2. PICK r \in replies :
        /\ replies' = replies \ {r}
        /\ \/ \E p \in agent.pending :
                p.id = r.id /\ \E w \in Accepted(agent, p, r) : Becomes(w)
           \/ UNCHANGED <<agent, mail>>
  BY DEF ReplyArrives
<1>3. calls' = calls /\ log' = log /\ spent' = spent BY DEF ReplyArrives
<1>4. ASSUME NEW p \in agent.pending, p.id = r.id, NEW w \in Accepted(agent, p, r), Becomes(w)
      PROVE  RequestFits'
  <2>1. Turns(w, mail) BY <1>1, <1>2, <1>3, <1>4 DEF Turns, Becomes
  <2>2. QED BY <1>3, <1>4, <2>1, Accepts
<1>5. CASE UNCHANGED <<agent, mail>> BY <1>1, <1>2, <1>3, <1>5, Unmoved
<1>6. QED BY <1>2, <1>4, <1>5

\* A request that expires fails; its reply may still come.
LEMMA RequestExpiredKeeps ==
  ASSUME RequestFits, RequestExpired
  PROVE  RequestFits'
<1>1. spent \in SpentType /\ WorkerFits BY DEF RequestFits, WorkerFits, BoundsOK
<1>2. PICK p \in agent.pending : Becomes(Failed(agent, p)) BY DEF RequestExpired
<1>3. /\ log' = log /\ UNCHANGED <<calls, replies>>
      /\ spent' = [spent EXCEPT !.timeouts = @ + 1]
  BY DEF RequestExpired
<1>4. spent' \in SpentType /\ spent'.of = spent.of BY <1>1, <1>3, Spending
<1>5. Turns(Failed(agent, p), mail) /\ Undelivered(mail) BY <1>2, <1>3, <1>4, Becoming
<1>6. QED BY <1>3, <1>5, Fails

\* A request that cannot be sent is not on its way.
LEMMA SendFailsKeeps ==
  ASSUME RequestFits, SendFails
  PROVE  RequestFits'
<1>1. spent \in SpentType /\ WorkerFits BY DEF RequestFits, WorkerFits, BoundsOK
<1>2. PICK i \in DOMAIN mail :
        /\ mail[i] \in agent.pending
        /\ agent' = [Failed(agent, mail[i]) EXCEPT !.sends = <<>>]
        /\ mail' = RemoveAt(mail, i) \o Failed(agent, mail[i]).sends
  BY DEF SendFails
<1>3. /\ log' = log /\ UNCHANGED <<calls, replies>>
      /\ spent' = [spent EXCEPT !.timeouts = @ + 1]
  BY DEF SendFails
<1>4. spent' \in SpentType /\ spent'.of = spent.of BY <1>1, <1>3, Spending
<1>5. Turns(Failed(agent, mail[i]), RemoveAt(mail, i)) BY <1>2, <1>3, <1>4 DEF Turns
<1>6. Undelivered(RemoveAt(mail, i)) BY <1>1, MailShrinks
<1>7. QED BY <1>2, <1>3, <1>5, <1>6, Fails


----------------------------------------------------------------------------
(* The Worker.                                                             *)

\* The calls anybody speaks of are calls of the Worker.
LEMMA CallsAreKnown ==
  ASSUME RequestFits
  PROVE  /\ \A t \in Tokens : t \in Token /\ t.call \in Calls
         /\ \A r \in replies : r.call \in Calls
         /\ agent.call # 0 => agent.call \in Calls
<1>1. /\ agent \in RequestType /\ RequestOK(agent) /\ WorkerFits /\ spent \in SpentType
      /\ agent.attempts <= spent.of.attempts
  BY DEF RequestFits, RequestOK, WorkerFits, BoundsOK
<1>2. agent.attempts \in Nat /\ spent.of.attempts \in Nat
  BY <1>1, SettingsAssumption DEF RequestType, SpentType
<1>3. LastOpened(agent) <= agent.attempts /\ LastOpened(agent) \in Int BY <1>2 DEF LastOpened
<1>4. ASSUME NEW t \in Tokens PROVE t \in Token /\ t.call \in Calls
  <2>1. t \in Token /\ t.call <= LastOpened(agent) BY <1>1 DEF WorkerFits, TokensFit
  <2>2. t.call \in Nat \ {0} BY <2>1 DEF Token
  <2>3. QED BY <1>1, <1>2, <1>3, <2>1, <2>2 DEF Calls
<1>5. \A r \in replies : TokenOf(r) \in Tokens /\ TokenOf(r).call = r.call BY DEF Tokens, TokenOf
<1>6. agent.call # 0 => agent.call \in Calls BY <1>1, <1>2 DEF RequestOK, CallOK, Calls
<1>7. QED BY <1>4, <1>5, <1>6

\* A step of the Worker: no new generation, no new identity.
LEMMA WorkerStep ==
  ASSUME RequestFits, agent' = agent, log' = log, spent' \in SpentType, spent'.of = spent.of,
         Undelivered(mail'), (calls \in [Calls -> InvocationType])', RepliesOK',
         Tokens' \subseteq Tokens,
         \A c \in Calls : ~calls'[c].active => calls'[c].task = NoTask /\ calls'[c].closing = 0,
         \A c \in Calls : Live(c)' => Live(c),
         \A c \in Calls : calls'[c].active => ~Asked(c)',
         \A c \in Calls : Exhausted(c) => Exhausted(c)',
         \A r \in replies' \ replies :
           /\ r.k = "close" /\ ~r.err => ~Live(r.call)'
           /\ r.k = "read" /\ ~r.err /\ r.value = "error" => Exhausted(r.call)'
           /\ r.k = "read" /\ ~r.err /\ agent.try.last = "error" => r.value = "end"
  PROVE  RequestFits'
<1>1. /\ RequestOK(agent) /\ agent.sends = <<>> /\ LogFits(agent, log) /\ WorkerFits
  BY DEF RequestFits
<1>2. Calls' = Calls BY DEF Calls
<1>3. /\ \A r \in replies : r.call \in Calls
      /\ agent.call # 0 => agent.call \in Calls
      /\ \A t \in Tokens : t.call \in Calls
  BY CallsAreKnown
<1>4. \A r \in replies' : TokenOf(r) \in Tokens /\ TokenOf(r).call = r.call
  BY DEF Tokens, TokenOf
<1>5. \A r \in replies' : r.call \in Calls BY <1>3, <1>4
<1>6. BoundsOK' BY <1>1 DEF WorkerFits, BoundsOK
<1>7. TokensFit' BY <1>1 DEF WorkerFits, TokensFit
<1>8. \A i \in DOMAIN mail' : \E n \in DOMAIN mail : mail'[i] = mail[n]
  BY DEF Undelivered, ToSet
<1>9. StreamsFit'
  <2>1. \A c \in Calls : calls'[c].active => c = agent.call
    <3> SUFFICES ASSUME NEW c \in Calls, calls'[c].active PROVE c = agent.call OBVIOUS
    <3>1. Live(c) BY DEF Live
    <3>2. QED BY <1>1, <3>1 DEF Live, WorkerFits, StreamsFit
  <2>2. \A i \in DOMAIN mail' : mail'[i].k = "start" => mail'[i].call = agent.call
    BY <1>1, <1>8 DEF WorkerFits, StreamsFit
  <2>3. \A i, j \in DOMAIN mail' : mail'[i].k = "start" /\ mail'[j].k = "start" => i = j
    BY DEF Undelivered
  <2>4. \A r \in replies' : r.k = "close" /\ ~r.err => ~Live(r.call)'
    <3> SUFFICES ASSUME NEW r \in replies', r.k = "close", ~r.err PROVE ~Live(r.call)' OBVIOUS
    <3>1. CASE r \notin replies BY <3>1
    <3>2. CASE r \in replies
      <4>1. ~Live(r.call) BY <1>1, <3>2 DEF WorkerFits, StreamsFit
      <4>2. QED BY <1>5, <4>1
    <3>3. QED BY <3>1, <3>2
  <2>5. QED BY <1>2, <2>1, <2>2, <2>3, <2>4 DEF StreamsFit
<1>10. FinishFits'
  <2>1. \A r \in replies' : r.k = "read" /\ ~r.err /\ r.value = "error" => Exhausted(r.call)'
    <3> SUFFICES ASSUME NEW r \in replies', r.k = "read", ~r.err, r.value = "error"
                 PROVE  Exhausted(r.call)'
      OBVIOUS
    <3>1. CASE r \notin replies BY <3>1
    <3>2. CASE r \in replies
      <4>1. Exhausted(r.call) BY <1>1, <3>2 DEF WorkerFits, FinishFits
      <4>2. QED BY <1>5, <4>1
    <3>3. QED BY <3>1, <3>2
  <2>2. ASSUME agent.call # 0, agent.try.last = "error" \/ agent.try.pending = "error"
        PROVE  Exhausted(agent.call)'
    <3>1. Exhausted(agent.call) BY <1>1, <2>2 DEF WorkerFits, FinishFits
    <3> DEFINE c == agent.call
    <3>2. c \in Calls BY <1>3, <2>2
    <3>3. c' = c OBVIOUS
    <3>4. (~calls'[c].active \/ calls'[c].over)
          /\ ~\E i \in DOMAIN mail' : mail'[i].call = c /\ mail'[i].k = "start"
      BY <3>1, <3>2 DEF Exhausted, Asked
    <3>5. QED BY <3>4 DEF Exhausted, Asked
  <2>3. \A p \in agent.pending, r \in replies' :
          p.id = r.id /\ r.k = "read" /\ ~r.err /\ agent.try.last = "error" => r.value = "end"
    <3> SUFFICES ASSUME NEW p \in agent.pending, NEW r \in replies',
                        p.id = r.id, r.k = "read", ~r.err, agent.try.last = "error"
                 PROVE  r.value = "end"
      OBVIOUS
    <3>1. CASE r \notin replies BY <3>1
    <3>2. CASE r \in replies BY <1>1, <3>2 DEF WorkerFits, FinishFits
    <3>3. QED BY <3>1, <3>2
  <2>4. QED BY <2>1, <2>2, <2>3 DEF FinishFits
<1>11. mail' \in Seq(Token) BY DEF Undelivered
<1>12. WorkerFits' BY <1>6, <1>7, <1>9, <1>10, <1>11 DEF WorkerFits
<1>13. RequestOK(agent)' /\ (agent.sends = <<>>)' /\ LogFits(agent, log)'
  BY <1>1
     DEF RequestOK, CallOK, OutcomeOK, PendingOK, LogFits, EntriesFit, HeaderFits, ConfigFits,
         ChunksFit, MessageFits
<1>14. QED BY <1>12, <1>13 DEF RequestFits

\* What is left in the mailbox once its first message is taken.
LEMMA MailDrains ==
  ASSUME RequestFits, mail # <<>>, mail' = Tail(mail)
  PROVE  /\ Undelivered(mail') /\ Head(mail) \in Token /\ Head(mail) \in ToSet(mail)
         /\ Head(mail) \in Tokens /\ Head(mail).call \in Calls
         /\ \A c : Asked(c)' => Asked(c)
         /\ Head(mail).k = "start" =>
              /\ Asked(Head(mail).call) /\ \A i \in DOMAIN mail' : mail'[i].k # "start"
<1>1. WorkerFits /\ mail \in Seq(Token) BY DEF RequestFits, WorkerFits
<1>2. Len(mail) \in Nat /\ Len(mail) # 0 BY <1>1, EmptySeq, LenProperties
<1>3. /\ DOMAIN mail = 1 .. Len(mail) /\ Head(mail) = mail[1] /\ mail' \in Seq(Token)
      /\ Len(mail') = Len(mail) - 1 /\ DOMAIN mail' = 1 .. Len(mail) - 1
      /\ \A i \in 1 .. Len(mail) - 1 : mail'[i] = mail[i + 1]
  BY <1>1, <1>2, HeadTailProperties, LenProperties
<1>4. 1 \in DOMAIN mail /\ Head(mail) \in Token BY <1>1, <1>2, <1>3
<1>5. Head(mail) \in ToSet(mail) BY <1>3, <1>4 DEF ToSet
<1>6. \A i \in DOMAIN mail' : i + 1 \in DOMAIN mail /\ i + 1 # 1 /\ mail'[i] = mail[i + 1]
  BY <1>2, <1>3
<1>7. \A i, j \in DOMAIN mail' : i + 1 = j + 1 => i = j BY <1>2, <1>3
<1>8. ToSet(mail') \subseteq ToSet(mail) BY <1>6 DEF ToSet
<1>9. Undelivered(mail') BY <1>1, <1>3, <1>6, <1>7, <1>8 DEF Undelivered, WorkerFits, StreamsFit
<1>10. Head(mail) \in Tokens BY <1>5 DEF Tokens
<1>11. \A c : Asked(c)' => Asked(c) BY <1>6 DEF Asked
<1>12. Head(mail).k = "start" => Asked(Head(mail).call) BY <1>3, <1>4 DEF Asked
<1>13. Head(mail).k = "start" => \A i \in DOMAIN mail' : mail'[i].k # "start"
  BY <1>1, <1>3, <1>4, <1>6 DEF WorkerFits, StreamsFit
<1>14. QED BY <1>4, <1>5, <1>9, <1>10, <1>11, <1>12, <1>13, CallsAreKnown


\* A request the Worker answers at once.
LEMMA Refuses ==
  ASSUME RequestFits, mail # <<>>, mail' = Tail(mail), UNCHANGED <<agent, log, spent>>,
         calls' \in [Calls -> InvocationType],
         \A c \in Calls : /\ calls'[c].active = calls[c].active /\ calls'[c].over = calls[c].over
                          /\ calls'[c].task = calls[c].task
                          /\ calls'[c].closing = calls[c].closing,
         NEW err \in BOOLEAN, err \/ Head(mail).k = "cancel",
         replies' \in {replies, replies \cup {Reply(Head(mail), err, "none")}}
  PROVE  RequestFits'
<1> DEFINE p == Head(mail)
           r == Reply(p, err, "none")
<1>1. /\ Undelivered(mail') /\ p \in Token /\ p \in Tokens /\ p.call \in Calls
      /\ \A c : Asked(c)' => Asked(c)
  BY MailDrains
<1>2. WorkerFits /\ spent \in SpentType BY DEF RequestFits, WorkerFits, BoundsOK
<1>3. /\ r \in ReplyType /\ r.k = p.k /\ r.call = p.call /\ r.id = p.id /\ r.err = err
      /\ TokenOf(r) = p
  BY <1>1 DEF Reply, ReplyType, Token, TokenOf, ConfigNames
<1>4. Calls' = Calls BY DEF Calls
<1> HIDE DEF r, p
<1>5. replies' \in {replies, replies \cup {r}} /\ (err \/ r.k = "cancel") BY <1>3 DEF r, p
<1>6. RepliesOK'
  <2>1. IsFiniteSet(replies') BY <1>2, <1>5, FS_AddElement DEF WorkerFits, RepliesOK
  <2>2. QED BY <1>2, <1>3, <1>5, <2>1 DEF WorkerFits, RepliesOK
<1>7. Tokens' \subseteq Tokens
  <2>1. {TokenOf(q) : q \in replies'} \subseteq {TokenOf(q) : q \in replies} \cup {p} BY <1>3, <1>5
  <2>2. Working' = Working /\ Closing' = Closing BY <1>4 DEF Working, Closing
  <2>3. ToSet(mail') \subseteq ToSet(mail) BY <1>1 DEF Undelivered
  <2>4. /\ {[k |-> calls'[c].task.k, call |-> c, id |-> calls'[c].task.id] : c \in Working}
             = {[k |-> calls[c].task.k, call |-> c, id |-> calls[c].task.id] : c \in Working}
        /\ {[k |-> "close", call |-> c, id |-> calls'[c].closing] : c \in Closing}
             = {[k |-> "close", call |-> c, id |-> calls[c].closing] : c \in Closing}
    BY DEF Working, Closing
  <2>5. agent' = agent OBVIOUS
  <2>6. QED BY <1>1, <2>1, <2>2, <2>3, <2>4, <2>5 DEF Tokens
<1>8. \A c \in Calls : Live(c)' => Live(c) BY <1>1 DEF Live, Asked
<1>9. \A c \in Calls : Exhausted(c) => Exhausted(c)' BY <1>1 DEF Exhausted
<1>10. \A c \in Calls : calls'[c].active => ~Asked(c)' BY <1>1, <1>2 DEF WorkerFits, StreamsFit
<1>11. \A q \in replies' \ replies : q.err \/ q.k = "cancel" BY <1>3, <1>5
<1>12. \A c \in Calls : ~calls'[c].active => calls'[c].task = NoTask /\ calls'[c].closing = 0
  BY <1>2 DEF WorkerFits, StreamsFit
<1>13. QED BY <1>1, <1>2, <1>4, <1>6, <1>7, <1>8, <1>9, <1>10, <1>11, <1>12, WorkerStep

\* A request it begins to work on.
LEMMA Undertakes ==
  ASSUME RequestFits, mail # <<>>, mail' = Tail(mail), UNCHANGED <<agent, log, spent, replies>>,
         NEW current \in InvocationType,
         calls' = [calls EXCEPT ![Head(mail).call] = current],
         current.active, calls[Head(mail).call].over => current.over \/ Asked(Head(mail).call),
         calls[Head(mail).call].active \/ Head(mail).k = "start",
         current.task # NoTask => \/ current.task = calls[Head(mail).call].task
                                  \/ current.task = [k |-> Head(mail).k, id |-> Head(mail).id],
         current.closing # 0 => \/ current.closing = calls[Head(mail).call].closing
                                \/ Head(mail).k = "close" /\ current.closing = Head(mail).id
  PROVE  RequestFits'
<1> DEFINE p == Head(mail)
           at == p.call
<1>1. /\ Undelivered(mail') /\ p \in Token /\ p \in Tokens /\ at \in Calls
      /\ \A c : Asked(c)' => Asked(c)
      /\ p.k = "start" => Asked(at) /\ \A i \in DOMAIN mail' : mail'[i].k # "start"
  BY MailDrains
<1>2. /\ WorkerFits /\ spent \in SpentType /\ calls \in [Calls -> InvocationType] /\ RepliesOK
  BY DEF RequestFits, WorkerFits, BoundsOK
<1>3. Calls' = Calls BY DEF Calls
<1>4. /\ calls' \in [Calls -> InvocationType] /\ calls'[at] = current
      /\ \A c \in Calls \ {at} : calls'[c] = calls[c]
  BY <1>1, <1>2
<1>5. p = [k |-> p.k, call |-> p.call, id |-> p.id] BY <1>1 DEF Token
<1>6. /\ current.active /\ (calls[at].over => current.over \/ Asked(at))
      /\ calls[at].active \/ p.k = "start"
      /\ current.task # NoTask => current.task = calls[at].task \/ current.task = [k |-> p.k, id |-> p.id]
      /\ current.closing # 0 =>
           current.closing = calls[at].closing \/ (p.k = "close" /\ current.closing = p.id)
  OBVIOUS
<1> HIDE DEF p, at
<1>7. RepliesOK' BY <1>2 DEF RepliesOK
<1>8. Tokens' \subseteq Tokens
  <2> SUFFICES ASSUME NEW t \in Tokens' PROVE t \in Tokens OBVIOUS
  <2>1. CASE t \in agent.pending \cup {TokenOf(r) : r \in replies} BY <2>1 DEF Tokens
  <2>2. CASE t \in ToSet(mail') BY <1>1, <2>2 DEF Undelivered, Tokens
  <2>3. CASE t \in {[k |-> calls'[c].task.k, call |-> c, id |-> calls'[c].task.id] : c \in Working'}
    <3>1. PICK c \in Calls : /\ calls'[c].task # NoTask
                             /\ t = [k |-> calls'[c].task.k, call |-> c, id |-> calls'[c].task.id]
      BY <1>3, <2>3 DEF Working
    <3>2. CASE calls'[c].task = calls[c].task BY <3>1, <3>2 DEF Tokens, Working
    <3>3. CASE calls'[c].task # calls[c].task
      <4>1. c = at BY <1>4, <3>3
      <4>2. calls'[c].task = [k |-> p.k, id |-> p.id] BY <1>4, <1>6, <3>1, <3>3, <4>1
      <4>3. t = p BY <1>5, <3>1, <4>1, <4>2 DEF at
      <4>4. QED BY <1>1, <4>3
    <3>4. QED BY <3>2, <3>3
  <2>4. CASE t \in {[k |-> "close", call |-> c, id |-> calls'[c].closing] : c \in Closing'}
    <3>1. PICK c \in Calls : /\ calls'[c].closing # 0
                             /\ t = [k |-> "close", call |-> c, id |-> calls'[c].closing]
      BY <1>3, <2>4 DEF Closing
    <3>2. CASE calls'[c].closing = calls[c].closing BY <3>1, <3>2 DEF Tokens, Closing
    <3>3. CASE calls'[c].closing # calls[c].closing
      <4>1. c = at BY <1>4, <3>3
      <4>2. p.k = "close" /\ calls'[c].closing = p.id BY <1>4, <1>6, <3>1, <3>3, <4>1
      <4>3. t = p BY <1>5, <3>1, <4>1, <4>2 DEF at
      <4>4. QED BY <1>1, <4>3
    <3>4. QED BY <3>2, <3>3
  <2>5. QED BY <2>1, <2>2, <2>3, <2>4 DEF Tokens
<1>9. \A c \in Calls : Live(c)' => Live(c)
  <2>1. \A c \in Calls : calls'[c].active => calls[c].active \/ Asked(c) BY <1>1, <1>4, <1>6
  <2>2. QED BY <1>1, <2>1 DEF Live, Asked
<1>10. \A c \in Calls : Exhausted(c) => Exhausted(c)' BY <1>1, <1>4, <1>6 DEF Exhausted
<1>11. \A c \in Calls : calls'[c].active => ~Asked(c)'
  <2>1. CASE p.k = "start" BY <1>1, <2>1 DEF Asked
  <2>2. CASE p.k # "start" BY <1>1, <1>2, <1>4, <1>6, <2>2 DEF WorkerFits, StreamsFit
  <2>3. QED BY <2>1, <2>2
<1>12. \A c \in Calls : ~calls'[c].active => calls'[c].task = NoTask /\ calls'[c].closing = 0
  BY <1>2, <1>4, <1>6 DEF WorkerFits, StreamsFit
<1>13. QED BY <1>1, <1>2, <1>3, <1>4, <1>7, <1>8, <1>9, <1>10, <1>11, <1>12, WorkerStep

\* The Worker accepts a request, or refuses it at once.
LEMMA WorkerReceivesKeeps ==
  ASSUME RequestFits, WorkerReceives
  PROVE  RequestFits'
<1> DEFINE p == Head(mail)
           at == p.call
           old == calls[at]
<1>1. /\ mail # <<>> /\ mail' = Tail(mail) /\ UNCHANGED <<agent, log, spent>>
  BY DEF WorkerReceives
<1>2. p \in Token /\ at \in Calls /\ (p.k = "start" => Asked(at)) BY <1>1, MailDrains
<1>3. calls \in [Calls -> InvocationType] BY DEF RequestFits, WorkerFits
<1>4. old \in InvocationType BY <1>2, <1>3
<1>5. p.k \in Kinds /\ p.id \in Nat \ {0} BY <1>2 DEF Token
<1>6. CASE Refuse(p)
  <2>1. UNCHANGED calls /\ replies' = replies \cup {Reply(p, TRUE, "none")} BY <1>6 DEF Refuse
  <2>2. QED BY <1>1, <1>3, <2>1, Refuses
<1>7. CASE p.k = "start"
  <2> DEFINE new == [NoInvocation EXCEPT !.active = TRUE, !.task = [k |-> "start", id |-> p.id]]
  <2>1. WorkerGenerates(p) BY <1>7 DEF WorkerReceives
  <2>2. /\ new \in InvocationType /\ new.active = TRUE /\ new.closing = 0
        /\ new.task = [k |-> p.k, id |-> p.id]
    BY <1>5, <1>7 DEF NoInvocation, InvocationType
  <2>3. calls' = [calls EXCEPT ![at] = new] /\ UNCHANGED replies BY <2>1 DEF WorkerGenerates
  <2> HIDE DEF new
  <2>4. QED BY <1>1, <1>2, <1>7, <2>2, <2>3, Undertakes
<1>8. CASE p.k = "read" /\ ~Refuse(p)
  <2> DEFINE new == [old EXCEPT !.task = [k |-> "read", id |-> p.id]]
  <2>1. WorkerReads(p) BY <1>8 DEF WorkerReceives
  <2>2. /\ new \in InvocationType /\ new.active = old.active /\ new.closing = old.closing
        /\ new.over = old.over /\ new.task = [k |-> p.k, id |-> p.id]
    BY <1>4, <1>5, <1>8 DEF InvocationType
  <2>3. /\ old.active /\ UNCHANGED replies
        /\ calls' = [calls EXCEPT ![at].task = [k |-> "read", id |-> p.id]]
    BY <1>8, <2>1 DEF WorkerReads
  <2>4. calls' = [calls EXCEPT ![at] = new] BY <1>2, <1>3, <2>3
  <2> HIDE DEF new
  <2>5. QED BY <1>1, <2>2, <2>3, <2>4, Undertakes
<1>9. CASE p.k = "cancel" /\ ~Refuse(p)
  <2>1. WorkerCancels(p) BY <1>9 DEF WorkerReceives
  <2>2. /\ calls' = [calls EXCEPT ![at].stopped = TRUE]
        /\ replies' = replies \cup {Reply(p, FALSE, "none")}
    BY <1>9, <2>1 DEF WorkerCancels
  <2> DEFINE new == [old EXCEPT !.stopped = TRUE]
  <2>3. /\ new \in InvocationType /\ new.active = old.active /\ new.closing = old.closing
        /\ new.over = old.over /\ new.task = old.task
    BY <1>4 DEF InvocationType
  <2>4. calls' = [calls EXCEPT ![at] = new] BY <1>2, <1>3, <2>2
  <2> HIDE DEF new
  <2>5. /\ calls' \in [Calls -> InvocationType]
        /\ \A c \in Calls : /\ calls'[c].active = calls[c].active /\ calls'[c].over = calls[c].over
                            /\ calls'[c].task = calls[c].task
                            /\ calls'[c].closing = calls[c].closing
    BY <1>2, <1>3, <2>3, <2>4
  <2>6. QED BY <1>1, <1>9, <2>2, <2>5, Refuses
<1>10. CASE p.k = "close" /\ ~Refuse(p)
  <2>1. WorkerCloses(p) BY <1>10 DEF WorkerReceives
  <2> DEFINE waits == [old EXCEPT !.stopped = TRUE, !.closing = p.id]
             begins == [old EXCEPT !.closing = p.id, !.task = [k |-> "close", id |-> p.id]]
             new == IF old.task # NoTask THEN waits ELSE begins
  <2>2. /\ old.active /\ UNCHANGED replies
        /\ calls' = [calls EXCEPT ![at] = IF old.task # NoTask
                                          THEN [@ EXCEPT !.stopped = TRUE, !.closing = p.id]
                                          ELSE [@ EXCEPT !.closing = p.id,
                                                         !.task = [k |-> "close", id |-> p.id]]]
    BY <1>10, <2>1 DEF WorkerCloses
  <2>3. calls' = [calls EXCEPT ![at] = new] BY <1>2, <1>3, <2>2
  <2>4. /\ waits \in InvocationType /\ waits.active = old.active /\ waits.over = old.over
        /\ waits.task = old.task /\ waits.closing = p.id
    BY <1>4, <1>5 DEF InvocationType
  <2>5. /\ begins \in InvocationType /\ begins.active = old.active /\ begins.over = old.over
        /\ begins.task = [k |-> p.k, id |-> p.id] /\ begins.closing = p.id
    BY <1>4, <1>5, <1>10 DEF InvocationType
  <2> HIDE DEF waits, begins
  <2>6. /\ new \in InvocationType /\ new.active = old.active /\ new.over = old.over
        /\ new.closing = p.id
        /\ new.task = old.task \/ new.task = [k |-> p.k, id |-> p.id]
    BY <2>4, <2>5
  <2> HIDE DEF new
  <2>7. QED BY <1>1, <1>10, <2>2, <2>3, <2>6, Undertakes
<1>11. QED BY <1>5, <1>6, <1>7, <1>8, <1>9, <1>10 DEF Kinds


\* An operation on the provider comes back.
LEMMA Completing ==
  ASSUME RequestFits, UNCHANGED <<agent, mail, log>>, spent' \in SpentType, spent'.of = spent.of,
         NEW c \in Calls, calls[c].task # NoTask,
         NEW current \in InvocationType, NEW err \in BOOLEAN,
         NEW value \in ConfigNames \cup Chunks \cup {"end"}, Completes(c, current, err, value),
         current.closing \in {0, calls[c].closing}, current.active \/ current.closing = 0,
         current.active /\ calls[c].over => current.over,
         ~err /\ calls[c].task.k = "start" => value \in Configs,
         ~err /\ calls[c].task.k = "close" => ~current.active,
         ~err /\ calls[c].task.k = "read" =>
           /\ value \in Chunks \cup {"end"}
           /\ value = "error" => current.over
           /\ value # "end" => ~calls[c].over
  PROVE  RequestFits'
<1> DEFINE task == calls[c].task
           r == [k |-> task.k, call |-> c, id |-> task.id, err |-> err, value |-> value]
           next == IF current.closing # 0 THEN [k |-> "close", id |-> current.closing] ELSE NoTask
           new == [current EXCEPT !.task = next]
           p == [k |-> task.k, call |-> c, id |-> task.id]
<1>1. /\ WorkerFits /\ spent \in SpentType /\ calls \in [Calls -> InvocationType] /\ RepliesOK
      /\ mail \in Seq(Token) /\ Undelivered(mail) /\ agent \in RequestType /\ RequestOK(agent)
  BY MailStays DEF RequestFits, RequestOK, WorkerFits, BoundsOK
<1>2. Calls' = Calls BY DEF Calls
<1>3. /\ calls' = [calls EXCEPT ![c] = new] /\ replies' = replies \cup {r}
  BY DEF Completes
<1>4. /\ task \in [k : {"start", "read", "close"}, id : Nat \ {0}] /\ calls[c].closing \in Nat
      /\ current.closing \in Nat
  BY <1>1 DEF InvocationType
<1>5. /\ c \in Working /\ p \in Tokens
      /\ calls[c].closing # 0 => [k |-> "close", call |-> c, id |-> calls[c].closing] \in Tokens
  BY DEF Working, Closing, Tokens
<1>6. p \in Token /\ p.k = task.k /\ p.call = c /\ p.id = task.id BY <1>5, CallsAreKnown
<1>7. /\ calls[c].active /\ c = agent.call /\ ~Asked(c) BY <1>1 DEF WorkerFits, StreamsFit
<1>8. /\ next \in {NoTask} \cup [k : {"start", "read", "close"}, id : Nat \ {0}]
      /\ current.closing = 0 => next = NoTask
      /\ current.closing # 0 => next = [k |-> "close", id |-> current.closing]
  BY <1>4
<1>9. /\ r \in ReplyType /\ TokenOf(r) = p /\ r.call = c /\ r.k = task.k /\ r.err = err
      /\ r.value = value /\ r.id = task.id
  BY <1>6 DEF ReplyType, Token, TokenOf
<1> HIDE DEF next
<1>10. /\ new \in InvocationType /\ new.task = next /\ new.active = current.active
       /\ new.over = current.over /\ new.closing = current.closing
  BY <1>8 DEF InvocationType
<1> HIDE DEF new, r, p, task
<1>11. /\ calls' \in [Calls -> InvocationType] /\ calls'[c] = new
       /\ \A o \in Calls \ {c} : calls'[o] = calls[o]
  BY <1>1, <1>3, <1>10
<1>12. RepliesOK'
  <2>1. IsFiniteSet(replies') BY <1>1, <1>3, FS_AddElement DEF RepliesOK
  <2>2. /\ r.k = "start" /\ ~r.err => r.value \in Configs
        /\ r.k = "read" /\ ~r.err => r.value \in Chunks \cup {"end"}
    BY <1>9 DEF task
  <2>3. QED BY <1>1, <1>3, <1>9, <2>1, <2>2 DEF RepliesOK
<1>13. Tokens' \subseteq Tokens
  <2> SUFFICES ASSUME NEW t \in Tokens' PROVE t \in Tokens OBVIOUS
  <2>1. CASE t \in agent.pending \cup ToSet(mail) BY <2>1 DEF Tokens
  <2>2. CASE t \in {TokenOf(q) : q \in replies'}
    <3>1. PICK q \in replies' : t = TokenOf(q) BY <2>2
    <3>2. CASE q \in replies BY <3>1, <3>2 DEF Tokens
    <3>3. CASE q = r BY <1>5, <1>9, <3>1, <3>3
    <3>4. QED BY <1>3, <3>2, <3>3
  <2>3. CASE t \in {[k |-> calls'[o].task.k, call |-> o, id |-> calls'[o].task.id] : o \in Working'}
    <3>1. PICK o \in Calls : /\ calls'[o].task # NoTask
                             /\ t = [k |-> calls'[o].task.k, call |-> o, id |-> calls'[o].task.id]
      BY <1>2, <2>3 DEF Working
    <3>2. CASE o # c BY <1>11, <3>1, <3>2 DEF Tokens, Working
    <3>3. CASE o = c
      <4>1. next # NoTask /\ current.closing # 0 BY <1>8, <1>10, <1>11, <3>1, <3>3
      <4>2. next = [k |-> "close", id |-> calls[c].closing] BY <1>8, <4>1
      <4>3. t = [k |-> "close", call |-> c, id |-> calls[c].closing]
        BY <1>10, <1>11, <3>1, <3>3, <4>2
      <4>4. QED BY <1>5, <4>1, <4>3
    <3>4. QED BY <3>2, <3>3
  <2>4. CASE t \in {[k |-> "close", call |-> o, id |-> calls'[o].closing] : o \in Closing'}
    <3>1. PICK o \in Calls : /\ calls'[o].closing # 0
                             /\ t = [k |-> "close", call |-> o, id |-> calls'[o].closing]
      BY <1>2, <2>4 DEF Closing
    <3>2. calls'[o].closing = calls[o].closing BY <1>10, <1>11, <3>1
    <3>3. QED BY <3>1, <3>2 DEF Tokens, Closing
  <2>5. agent' = agent /\ mail' = mail OBVIOUS
  <2>6. QED BY <2>1, <2>2, <2>3, <2>4, <2>5 DEF Tokens
<1>14. \A o \in Calls : calls'[o].active => calls[o].active BY <1>7, <1>11
<1>15. \A o \in Calls : Live(o)' => Live(o) BY <1>14 DEF Live
<1>16. \A o : Asked(o)' <=> Asked(o) BY DEF Asked
<1>17. \A o \in Calls : calls'[o].active => ~Asked(o)'
  BY <1>1, <1>14, <1>16 DEF WorkerFits, StreamsFit
<1>18. \A o \in Calls : Exhausted(o) => Exhausted(o)'
  BY <1>7, <1>10, <1>11, <1>16 DEF Exhausted
<1>19. \A o \in Calls : ~calls'[o].active => calls'[o].task = NoTask /\ calls'[o].closing = 0
  BY <1>1, <1>8, <1>10, <1>11 DEF WorkerFits, StreamsFit
<1>20. \A q \in replies' \ replies :
         /\ q.k = "close" /\ ~q.err => ~Live(q.call)'
         /\ q.k = "read" /\ ~q.err /\ q.value = "error" => Exhausted(q.call)'
         /\ q.k = "read" /\ ~q.err /\ agent.try.last = "error" => q.value = "end"
  <2> SUFFICES ASSUME NEW q \in replies' \ replies, ~q.err
               PROVE  /\ q.k = "close" => ~Live(c)'
                      /\ q.k = "read" /\ q.value = "error" => Exhausted(c)'
                      /\ q.k = "read" /\ agent.try.last = "error" => q.value = "end"
    BY <1>3, <1>9
  <2>1. q = r /\ ~err /\ q.k = task.k /\ q.value = value BY <1>3, <1>9
  <2>2. ASSUME q.k = "close" PROVE ~Live(c)'
    <3>1. ~calls'[c].active BY <1>10, <1>11, <2>1, <2>2 DEF task
    <3>2. ~\E i \in DOMAIN mail' : mail'[i].call = c /\ mail'[i].k = "start"
      BY <1>7 DEF Asked
    <3>3. QED BY <3>1, <3>2 DEF Live
  <2>3. ASSUME q.k = "read", q.value = "error" PROVE Exhausted(c)'
    <3>1. calls'[c].over BY <1>10, <1>11, <2>1, <2>3 DEF task
    <3>2. QED BY <1>7, <1>16, <3>1 DEF Exhausted
  <2>4. ASSUME q.k = "read", agent.try.last = "error" PROVE q.value = "end"
    <3>1. agent.call # 0 BY <1>6, <1>7 DEF Token
    <3>2. Exhausted(agent.call) BY <1>1, <2>4, <3>1 DEF WorkerFits, FinishFits
    <3>3. calls[c].over BY <1>7, <3>2 DEF Exhausted
    <3>4. QED BY <2>1, <2>4, <3>3 DEF task
  <2>5. QED BY <2>2, <2>3, <2>4
<1>21. Undelivered(mail') BY <1>1
<1>22. calls' \in [Calls' -> InvocationType] BY <1>2, <1>11
<1>23. QED BY <1>12, <1>13, <1>15, <1>17, <1>18, <1>19, <1>20, <1>21, <1>22, WorkerStep

\* An opening answers, and what it acquired stays with its call.
LEMMA GenerationKeeps ==
  ASSUME RequestFits, NEW c \in Calls, GenerationCompletes(c)
  PROVE  RequestFits'
<1>1. calls[c] \in InvocationType /\ spent \in SpentType
  BY DEF RequestFits, WorkerFits, BoundsOK
<1>2. calls[c].task.k = "start" /\ UNCHANGED <<agent, mail, log>> BY DEF GenerationCompletes
<1>3. calls[c].task # NoTask BY <1>2 DEF NoTask
<1>4. (calls[c].active \/ calls[c].closing = 0)
  BY <1>3 DEF RequestFits, WorkerFits, StreamsFit
<1>5. ASSUME NEW kept \in {"none", "prepared", "open"}
      PROVE  LET next == [calls[c] EXCEPT !.call = kept] IN
             /\ next \in InvocationType /\ next.active = calls[c].active
             /\ next.closing = calls[c].closing /\ next.over = calls[c].over
  BY <1>1 DEF InvocationType
<1>6. ASSUME NEW config \in Configs,
             Completes(c, [calls[c] EXCEPT !.call = "open"], FALSE, config), UNCHANGED spent
      PROVE  RequestFits'
  <2> DEFINE next == [calls[c] EXCEPT !.call = "open"]
  <2>1. /\ next \in InvocationType /\ next.active = calls[c].active
        /\ next.closing = calls[c].closing /\ next.over = calls[c].over
    BY <1>5
  <2>2. Completes(c, next, FALSE, config) BY <1>6
  <2> HIDE DEF next
  <2>3. config \in ConfigNames \cup Chunks \cup {"end"} BY DEF ConfigNames
  <2>4. QED BY <1>1, <1>2, <1>3, <1>4, <1>6, <2>1, <2>2, <2>3, Completing
<1>7. ASSUME NEW kept \in {"none", "prepared", "open"},
             Completes(c, [calls[c] EXCEPT !.call = kept], TRUE, "none"),
             Fault(~calls[c].stopped)
      PROVE  RequestFits'
  <2> DEFINE next == [calls[c] EXCEPT !.call = kept]
  <2>1. /\ next \in InvocationType /\ next.active = calls[c].active
        /\ next.closing = calls[c].closing /\ next.over = calls[c].over
    BY <1>5
  <2>2. Completes(c, next, TRUE, "none") BY <1>7
  <2> HIDE DEF next
  <2>3. "none" \in ConfigNames \cup Chunks \cup {"end"} BY DEF ConfigNames
  <2>4. (~calls[c].stopped) \in BOOLEAN BY <1>1 DEF InvocationType
  <2>5. spent' \in SpentType /\ spent'.of = spent.of BY <1>1, <1>7, <2>4, Spending
  <2>6. QED BY <1>2, <1>3, <1>4, <2>1, <2>2, <2>3, <2>5, Completing
<1>8. QED BY <1>6, <1>7 DEF GenerationCompletes

\* A read answers with a chunk, the end of the stream, or an error.
LEMMA ReadKeeps ==
  ASSUME RequestFits, NEW c \in Calls, ReadCompletes(c)
  PROVE  RequestFits'
<1> DEFINE current == calls[c]
<1>1. current \in InvocationType /\ spent \in SpentType
  BY DEF RequestFits, WorkerFits, BoundsOK
<1>2. current.task.k = "read" /\ UNCHANGED <<agent, mail, log>> BY DEF ReadCompletes
<1>3. current.task # NoTask BY <1>2 DEF NoTask
<1>4. current.active \/ current.closing = 0
  BY <1>3 DEF RequestFits, WorkerFits, StreamsFit
<1>5. "none" \in ConfigNames /\ "end" \in {"end"} BY DEF ConfigNames
<1>6. CASE /\ Completes(c, current, TRUE, "none")
           /\ UNCHANGED spent \/ Fault(~current.stopped)
  <2>1. (~current.stopped) \in BOOLEAN BY <1>1 DEF InvocationType
  <2>2. spent' \in SpentType /\ spent'.of = spent.of BY <1>1, <1>6, <2>1, Spending
  <2>3. QED BY <1>1, <1>2, <1>3, <1>4, <1>5, <1>6, <2>2, Completing
<1>7. ASSUME NEW value \in {"text", "bad", "stop", "error"}, ~current.over, UNCHANGED spent,
             Completes(c, [current EXCEPT !.pos = @ + 1, !.over = value \in {"stop", "error"}],
                       FALSE, value)
      PROVE  RequestFits'
  <2> DEFINE ended == value \in {"stop", "error"}
             pos == current.pos + 1
             next == [current EXCEPT !.pos = pos, !.over = ended]
  <2>0. pos \in Nat /\ ended \in BOOLEAN BY <1>1 DEF InvocationType
  <2>1. /\ next \in InvocationType /\ next.active = current.active
        /\ next.closing = current.closing /\ next.over = ended
    <3> HIDE DEF pos, ended
    <3>1. QED BY <1>1, <2>0 DEF InvocationType
  <2>2. Completes(c, next, FALSE, value) BY <1>7
  <2>3. value = "error" => ended OBVIOUS
  <2> HIDE DEF next, pos, ended
  <2>4. value \in Chunks BY DEF Chunks
  <2>5. QED BY <1>1, <1>2, <1>3, <1>4, <1>7, <2>1, <2>2, <2>3, <2>4, Completing
<1>8. CASE Completes(c, [current EXCEPT !.over = TRUE], FALSE, "end") /\ UNCHANGED spent
  <2> DEFINE next == [current EXCEPT !.over = TRUE]
  <2>1. /\ next \in InvocationType /\ next.active = current.active
        /\ next.closing = current.closing /\ next.over = TRUE
    BY <1>1 DEF InvocationType
  <2>2. Completes(c, next, FALSE, "end") BY <1>8
  <2> HIDE DEF next
  <2>3. QED BY <1>1, <1>2, <1>3, <1>4, <1>5, <1>8, <2>1, <2>2, Completing
<1>9. QED BY <1>6, <1>7, <1>8 DEF ReadCompletes

\* A close answers when the stream is released, or fails and keeps it.
LEMMA CloseKeeps ==
  ASSUME RequestFits, NEW c \in Calls, CloseCompletes(c)
  PROVE  RequestFits'
<1>1. calls[c] \in InvocationType /\ spent \in SpentType
  BY DEF RequestFits, WorkerFits, BoundsOK
<1>2. calls[c].task.k = "close" /\ UNCHANGED <<agent, mail, log>> BY DEF CloseCompletes
<1>3. calls[c].task # NoTask BY <1>2 DEF NoTask
<1>4. "none" \in ConfigNames BY DEF ConfigNames
<1>5. CASE Completes(c, NoInvocation, FALSE, "none") /\ UNCHANGED spent
  <2>1. /\ NoInvocation \in InvocationType /\ NoInvocation.active = FALSE
        /\ NoInvocation.closing = 0
    BY DEF NoInvocation, InvocationType
  <2>2. QED BY <1>1, <1>2, <1>3, <1>4, <1>5, <2>1, Completing
<1>6. CASE Completes(c, [calls[c] EXCEPT !.closing = 0], TRUE, "none") /\ Fault(TRUE)
  <2> DEFINE next == [calls[c] EXCEPT !.closing = 0]
  <2>1. /\ next \in InvocationType /\ next.over = calls[c].over /\ next.closing = 0
    BY <1>1 DEF InvocationType
  <2>2. Completes(c, next, TRUE, "none") BY <1>6
  <2> HIDE DEF next
  <2>3. spent' \in SpentType /\ spent'.of = spent.of BY <1>1, <1>6, Spending
  <2>4. QED BY <1>2, <1>3, <1>4, <2>1, <2>2, <2>3, Completing
<1>7. QED BY <1>5, <1>6 DEF CloseCompletes

----------------------------------------------------------------------------
(* Which step takes a call: the handlers keep the one they have, or drop   *)
(* it.                                                                     *)

HasCall(w) == "call" \in DOMAIN w
SameCall(v, w) == HasCall(w) /\ w.call = v.call

\* Neither closing, failing, reading on nor completing takes a call.
LEMMA HandlersKeepCall ==
  ASSUME NEW w, HasCall(w)
  PROVE  /\ \A failed : SameCall(w, CompleteAttempt(w, failed))
         /\ SameCall(w, CloseStream(w)) /\ SameCall(w, FailAttempt(w))
         /\ SameCall(w, ReadChunk(w)) /\ SameCall(w, AfterHeader(w))
<1> DEFINE Keeps(r) == HasCall(r) /\ r.call = w.call
<1>1. ASSUME NEW v, Keeps(v), NEW failed PROVE Keeps(CompleteAttempt(v, failed))
  <2> DEFINE r == [v EXCEPT !.try.st = "completed", !.try.failed = failed,
                            !.header = @ \/ v.try.header, !.closed = v.try.closed]
  <2>1. Keeps(r) BY <1>1 DEF HasCall
  <2>2. CompleteAttempt(v, failed) =
          IF r.phase = "retryingClose" THEN Finish(r, r.failed \/ failed)
          ELSE IF failed \/ ~r.closed \/ r.cancel THEN Finish(r, failed \/ ~r.closed)
          ELSE IF r.try.last # "error" THEN Finish(r, FALSE)
          ELSE [r EXCEPT !.phase = "recovering", !.failed = TRUE]
    BY DEF CompleteAttempt
  <2> HIDE DEF r
  <2>3. \A f : Keeps(Finish(r, f)) BY <2>1 DEF Finish, HasCall
  <2>4. Keeps([r EXCEPT !.phase = "recovering", !.failed = TRUE]) BY <2>1 DEF HasCall
  <2> HIDE DEF Keeps
  <2>5. QED BY <2>2, <2>3, <2>4
<1>2. ASSUME NEW v, Keeps(v) PROVE \A k : Keeps(Send(v, k)) BY <1>2 DEF Send, HasCall
<1>3. ASSUME NEW v, Keeps(v) PROVE \A st : Keeps([v EXCEPT !.try.st = st]) BY <1>3 DEF HasCall
<1>4. ASSUME NEW v, Keeps(v) PROVE Keeps([v EXCEPT !.try.failed = TRUE]) BY <1>4 DEF HasCall
<1>5. ASSUME NEW v, Keeps(v), NEW st
      PROVE  Keeps([v EXCEPT !.try.st = st, !.try.context = FALSE])
  BY <1>5 DEF HasCall
<1>6. Keeps(w) OBVIOUS
<1> HIDE DEF Keeps
<1>7. ASSUME NEW v, Keeps(v) PROVE Keeps(CloseStream(v))
  BY <1>2, <1>3, <1>7 DEF CloseStream
<1>8. ASSUME NEW v, Keeps(v) PROVE Keeps(FailAttempt(v))
  BY <1>1, <1>4, <1>7, <1>8 DEF FailAttempt
<1>9. Keeps(ReadChunk(w)) BY <1>2, <1>3, <1>6, <1>8 DEF ReadChunk, Proceed
<1>10. Keeps(AfterHeader(w)) BY <1>5, <1>6, <1>8 DEF AfterHeader, Proceed
<1>11. QED BY <1>1, <1>6, <1>7, <1>8, <1>9, <1>10 DEF Keeps, SameCall

\* Neither does what an attempt does about an answer.
LEMMA AnswersKeepCall ==
  ASSUME NEW w, HasCall(w)
  PROVE  /\ \A at : w.try.st \in {"committingHeader", "committingContext", "committingChunk",
                                  "committingMessage"} => SameCall(w, Committed(w, at))
         /\ \A config : SameCall(w, Started(w, config))
         /\ \A value : SameCall(w, ChunkArrived(w, value))
         /\ SameCall(w, StreamEnded(w))
<1> DEFINE Keeps(r) == HasCall(r) /\ r.call = w.call
<1>1. \A v : Keeps(v) =>
        /\ \A failed : Keeps(CompleteAttempt(v, failed))
        /\ Keeps(CloseStream(v)) /\ Keeps(FailAttempt(v))
        /\ Keeps(ReadChunk(v)) /\ Keeps(AfterHeader(v))
  BY HandlersKeepCall DEF SameCall
<1>2. \A at : /\ Keeps([w EXCEPT !.try.header = TRUE]) /\ Keeps([w EXCEPT !.try.st = "checking"])
              /\ Keeps([w EXCEPT !.try.chunks = Append(@, at), !.try.last = w.try.pending,
                                 !.try.pending = "none"])
  BY DEF HasCall
<1>3. Keeps(w) OBVIOUS
<1>4. \A v : Keeps(v) => Keeps([v EXCEPT !.try.st = "committingHeader"]) BY DEF HasCall
<1>5. \A config, x : Keeps([w EXCEPT !.try.config = config, !.try.context = x]) BY DEF HasCall
<1>6. \A value : Keeps([w EXCEPT !.try.st = "committingChunk", !.try.pending = value])
  BY DEF HasCall
<1>7. Keeps([w EXCEPT !.try.failed = @ \/ w.cancel]) BY DEF HasCall
<1> HIDE DEF Keeps
<1>8. ASSUME NEW at, w.try.st \in {"committingHeader", "committingContext", "committingChunk",
                                   "committingMessage"}
      PROVE  Keeps(Committed(w, at))
  <2>1. CASE w.try.st = "committingHeader" BY <1>1, <1>2, <2>1 DEF Committed
  <2>2. CASE w.try.st = "committingContext" BY <1>1, <1>2, <2>2 DEF Committed, Proceed
  <2>3. CASE w.try.st = "committingChunk"
    <3>1. CASE w.try.pending = "bad" BY <1>1, <1>3, <2>3, <3>1 DEF Committed
    <3>2. CASE w.try.pending # "bad" BY <1>1, <1>2, <2>3, <3>2 DEF Committed
    <3>3. QED BY <3>1, <3>2
  <2>4. CASE w.try.st = "committingMessage" BY <1>1, <1>3, <2>4 DEF Committed
  <2>5. QED BY <1>8, <2>1, <2>2, <2>3, <2>4
<1>9. ASSUME NEW config PROVE Keeps(Started(w, config))
  <2> DEFINE x == LatestOf(SubSeq(log, 1, w.try.base), "context") # config
             r == [w EXCEPT !.try.config = config, !.try.context = x]
  <2>1. Keeps(r) BY <1>5
  <2>2. \/ Started(w, config) = Proceed([r EXCEPT !.try.st = "committingHeader"],
                                        [r EXCEPT !.try.st = "committingHeader"])
        \/ Started(w, config) = AfterHeader(r)
    BY DEF Started
  <2> HIDE DEF r
  <2>3. QED BY <1>1, <1>4, <2>1, <2>2 DEF Proceed
<1>10. \A value : Keeps(ChunkArrived(w, value)) BY <1>1, <1>6 DEF ChunkArrived, Proceed
<1>11. Keeps(StreamEnded(w)) BY <1>1, <1>7 DEF StreamEnded
<1>12. QED BY <1>8, <1>9, <1>10, <1>11 DEF Keeps, SameCall

\* A stream that was closed is no longer held.
LEMMA CloseDropsCall ==
  ASSUME NEW w, HasCall(w), NEW r \in Closed(w)
  PROVE  HasCall(r) /\ r.call = 0
<1> DEFINE done == [w EXCEPT !.try.closed = TRUE, !.call = 0]
<1>1. HasCall(done) /\ done.call = 0 BY DEF HasCall
<1>2. \/ \E failed \in BOOLEAN : r = CompleteAttempt(done, failed)
      \/ r = [done EXCEPT !.try.st = "committingMessage"]
  BY DEF Closed
<1> HIDE DEF done
<1>3. \A failed : SameCall(done, CompleteAttempt(done, failed)) BY <1>1, HandlersKeepCall
<1>4. SameCall(done, [done EXCEPT !.try.st = "committingMessage"]) BY <1>1 DEF HasCall, SameCall
<1>5. QED BY <1>1, <1>2, <1>3, <1>4 DEF SameCall

\* An attempt that fails keeps its call until the close is confirmed.
LEMMA FailureKeepsCall ==
  ASSUME NEW w, HasCall(w), NEW p, p.k \in Kinds
  PROVE  SameCall(w, Failed(w, p))
<1> DEFINE rest == [w EXCEPT !.pending = @ \ {p}]
<1>1. SameCall(w, rest) BY DEF HasCall, SameCall
<1>2. Failed(w, p) \in {FailAttempt(rest), CloseFailed(rest), rest} BY DEF Failed, Kinds
<1> HIDE DEF rest
<1>3. SameCall(rest, FailAttempt(rest)) /\ SameCall(rest, CloseFailed(rest))
  BY <1>1, HandlersKeepCall DEF CloseFailed, SameCall
<1>4. QED BY <1>1, <1>2, <1>3 DEF SameCall

\* What a reply is handled with keeps the call, or drops it.
LEMMA ReplyKeepsCall ==
  ASSUME NEW w, HasCall(w), NEW p, p.k \in Kinds, NEW r, r.err \in BOOLEAN,
         NEW x \in Accepted(w, p, r)
  PROVE  HasCall(x) /\ x.call \in {w.call, 0}
<1> DEFINE rest == [w EXCEPT !.pending = @ \ {p}]
<1>1. SameCall(w, rest) BY DEF HasCall, SameCall
<1>2. \/ x = Failed(w, p) \/ x = Started(rest, r.value) \/ x = StreamEnded(rest)
      \/ x = ChunkArrived(rest, r.value) \/ x \in Closed(rest) \/ x = rest
  <2>1. CASE r.err BY <2>1 DEF Accepted
  <2>2. CASE ~r.err BY <2>2 DEF Accepted, Kinds
  <2>3. QED BY <2>1, <2>2
<1> HIDE DEF rest
<1>3. SameCall(w, Failed(w, p)) BY FailureKeepsCall
<1>4. HasCall(rest) BY <1>1 DEF SameCall, HasCall
<1>5. /\ \A config : SameCall(rest, Started(rest, config))
      /\ \A value : SameCall(rest, ChunkArrived(rest, value))
      /\ SameCall(rest, StreamEnded(rest))
  BY <1>4, AnswersKeepCall
<1>6. x \in Closed(rest) => HasCall(x) /\ x.call = 0 BY <1>4, CloseDropsCall
<1>7. QED BY <1>1, <1>2, <1>3, <1>5, <1>6 DEF SameCall


----------------------------------------------------------------------------
(* The theorems.                                                           *)

\* Before any request the log holds at most an earlier header and context.
LEMMA InitEstablishes ==
  ASSUME Init
  PROVE  CallInv
<1>1. /\ spent \in SpentType /\ spent.of \in Settings
      /\ agent = NewRequest /\ mail = <<>> /\ replies = {}
      /\ calls = [c \in Calls |-> NoInvocation]
  BY DEF Init, SpentType
<1>2. spent.of.attempts \in Nat BY <1>1, SettingsAssumption
<1>3. /\ agent \in RequestType /\ agent.sends = <<>> /\ agent.phase = "unstarted"
      /\ agent.closed = TRUE /\ agent.call = 0 /\ agent.attempts = 0 /\ agent.requests = 0
      /\ agent.pending = {} /\ agent.logged = FALSE /\ agent.header = FALSE
      /\ agent.try.header = FALSE
  <2>1. <<>> \in Seq(Nat) /\ <<>> \in Seq(Token) OBVIOUS
  <2>2. NewTry \in AttemptType /\ NewTry.header = FALSE
    BY <2>1 DEF NewTry, AttemptType, Chunks, ConfigNames
  <2>3. QED BY <1>1, <2>1, <2>2 DEF NewRequest, RequestType
<1>4. RequestOK(agent)
  <2>1. IsFiniteSet({}) BY FS_EmptySet
  <2>2. QED BY <1>3, <2>1 DEF RequestOK, CallOK, OutcomeOK, PendingOK, In, Running, Streaming
<1>5. /\ LogOK
      /\ \A i \in DOMAIN log : log[i].k \in {"header", "context"} /\ log[i].a = 0 /\ log[i].r = 0
  <2>1. CASE log = <<>> BY <2>1 DEF LogOK
  <2>2. CASE log # <<>>
    <3>1. PICK c \in Configs :
            log = <<[k |-> "header", r |-> 0, a |-> 0, c |-> c, v |-> <<>>],
                    [k |-> "context", r |-> 0, a |-> 0, c |-> c, v |-> <<>>]>>
      BY <2>2 DEF Init
    <3> DEFINE x == [k |-> "header", r |-> 0, a |-> 0, c |-> c, v |-> <<>>]
               y == [k |-> "context", r |-> 0, a |-> 0, c |-> c, v |-> <<>>]
    <3>2. <<>> \in Seq(Nat) OBVIOUS
    <3>3. /\ x \in EntryType /\ y \in EntryType
          /\ x.k = "header" /\ x.a = 0 /\ x.r = 0 /\ y.k = "context" /\ y.a = 0 /\ y.r = 0
      BY <3>2 DEF EntryType, ConfigNames
    <3> HIDE DEF x, y
    <3>4. log = <<x, y>> BY <3>1 DEF x, y
    <3>5. QED BY <3>3, <3>4 DEF LogOK
  <2>3. QED BY <2>1, <2>2
<1>6. LogFits(agent, log)
  <2>1. MessageFits(agent, log) BY <1>3, <1>5 DEF MessageFits
  <2>2. EntriesFit(agent, log) BY <1>3, <1>5 DEF EntriesFit
  <2>3. QED BY <1>3, <2>1, <2>2 DEF LogFits, HeaderFits, ConfigFits, ChunksFit, In, Running
<1>7. WorkerFits
  <2>1. BoundsOK BY <1>1, <1>2, <1>3 DEF BoundsOK
  <2>2. NoInvocation \in InvocationType BY DEF NoInvocation, InvocationType
  <2>3. calls \in [Calls -> InvocationType] BY <1>1, <2>2
  <2>4. mail \in Seq(Token) /\ DOMAIN mail = {} /\ ToSet(mail) = {} BY <1>1 DEF ToSet
  <2>5. RepliesOK BY <1>1, FS_EmptySet DEF RepliesOK
  <2>6. \A c \in Calls : /\ calls[c].active = FALSE /\ calls[c].task = NoTask
                         /\ calls[c].closing = 0
    BY <1>1 DEF NoInvocation
  <2>7. Tokens = {} BY <1>1, <1>3, <2>4, <2>6 DEF Tokens, Working, Closing
  <2>8. TokensFit BY <2>7 DEF TokensFit
  <2>9. StreamsFit BY <1>1, <2>4, <2>6 DEF StreamsFit
  <2>10. FinishFits BY <1>1, <1>3 DEF FinishFits
  <2>11. QED BY <2>1, <2>3, <2>4, <2>5, <2>8, <2>9, <2>10 DEF WorkerFits
<1>8. History
  BY <1>5 DEF History, RequestIsRecorded, OneMessagePerRequest, MessageIsWhatStreamed, Positions
<1>9. QED BY <1>3, <1>4, <1>5, <1>6, <1>7, <1>8 DEF CallInv, RequestFits

\* Every step of the request, its ports and the Worker keeps the invariant.
LEMMA NextPreserves ==
  ASSUME CallInv, [Next]_vars
  PROVE  CallInv'
<1>1. RequestFits /\ LogOK /\ History BY DEF CallInv
<1>2. ASSUME RequestFits', log' = log PROVE CallInv' BY <1>1, <1>2, SameHistory DEF CallInv
<1>3. CASE StartRequest
  <2>1. log' = log BY <1>3 DEF StartRequest
  <2>2. QED BY <1>1, <1>2, <1>3, <2>1, StartRequestKeeps
<1>4. CASE ReadLog
  <2>1. log' = log BY <1>4 DEF ReadLog
  <2>2. QED BY <1>1, <1>2, <1>4, <2>1, ReadLogKeeps
<1>5. CASE CheckRequest
  <2>1. log' = log BY <1>5 DEF CheckRequest
  <2>2. QED BY <1>1, <1>2, <1>5, <2>1, CheckRequestKeeps
<1>6. CASE SessionCommits BY <1>1, <1>6, CommitsKeep DEF CallInv
<1>7. CASE ReadFails
  <2>1. log' = log BY <1>7 DEF ReadFails
  <2>2. QED BY <1>1, <1>2, <1>7, <2>1, ReadFailsKeeps
<1>8. CASE CommitFails BY <1>1, <1>8, CommitFailsKeeps DEF CallInv
<1>9. CASE NothingToClose
  <2>1. log' = log BY <1>9 DEF NothingToClose
  <2>2. QED BY <1>1, <1>2, <1>9, <2>1, NothingToCloseKeeps
<1>10. CASE RecoveryResolved
  <2>1. log' = log BY <1>10 DEF RecoveryResolved
  <2>2. QED BY <1>1, <1>2, <1>10, <2>1, RecoveryKeeps
<1>11. CASE RetryClose
  <2>1. log' = log BY <1>11 DEF RetryClose
  <2>2. QED BY <1>1, <1>2, <1>11, <2>1, RetryCloseKeeps
<1>12. CASE Cancel
  <2>1. log' = log BY <1>12 DEF Cancel
  <2>2. QED BY <1>1, <1>2, <1>12, <2>1, CancelKeeps
<1>13. CASE OtherWrites BY <1>1, <1>13, OtherWritesKeeps DEF CallInv
<1>14. CASE ReplyArrives
  <2>1. log' = log BY <1>14 DEF ReplyArrives
  <2>2. QED BY <1>1, <1>2, <1>14, <2>1, ReplyArrivesKeeps
<1>15. CASE RequestExpired
  <2>1. log' = log BY <1>15 DEF RequestExpired
  <2>2. QED BY <1>1, <1>2, <1>15, <2>1, RequestExpiredKeeps
<1>16. CASE SendFails
  <2>1. log' = log BY <1>16 DEF SendFails
  <2>2. QED BY <1>1, <1>2, <1>16, <2>1, SendFailsKeeps
<1>17. CASE WorkerReceives
  <2>1. log' = log BY <1>17 DEF WorkerReceives
  <2>2. QED BY <1>1, <1>2, <1>17, <2>1, WorkerReceivesKeeps
<1>18. CASE TaskCompletes
  <2>1. PICK c \in Calls : GenerationCompletes(c) \/ ReadCompletes(c) \/ CloseCompletes(c)
    BY <1>18 DEF TaskCompletes
  <2>2. log' = log BY <2>1 DEF GenerationCompletes, ReadCompletes, CloseCompletes
  <2>3. RequestFits' BY <1>1, <2>1, GenerationKeeps, ReadKeeps, CloseKeeps
  <2>4. QED BY <1>2, <2>2, <2>3
<1>19. CASE UNCHANGED vars
  <2>1. /\ log' = log /\ agent' = agent /\ mail' = mail /\ replies' = replies /\ calls' = calls
        /\ spent' = spent
    BY <1>19 DEF vars
  <2>2. spent \in SpentType /\ LogFits(agent, log) BY <1>1 DEF RequestFits, WorkerFits, BoundsOK
  <2>3. RequestFits' BY <1>1, <2>1, <2>2, Unmoved
  <2>4. QED BY <1>2, <2>1, <2>3
<1>20. QED
  BY <1>3, <1>4, <1>5, <1>6, <1>7, <1>8, <1>9, <1>10, <1>11, <1>12, <1>13, <1>14, <1>15, <1>16,
     <1>17, <1>18, <1>19
     DEF Next, SessionAnswers

\* The request, the log, the messages and the Worker agree at all times
\* (modelrequest's flow, the ports of agentloop/actor, llm/actor's client and Worker).
THEOREM RequestInvariance == Spec => []CallInv
<1>1. Init => CallInv BY InitEstablishes
<1>2. CallInv /\ [Next]_vars => CallInv' BY NextPreserves
<1>3. QED BY <1>1, <1>2, PTL DEF Spec

\* A call the Grain no longer holds has no stream, and no generation of it is on its
\* way, however opening, reading, cancelling or closing it failed (modelPort.Close).
THEOREM NoStreamIsLeft == Spec => []ClosedMeansReleased
<1>1. CallInv => ClosedMeansReleased
  <2> SUFFICES ASSUME CallInv PROVE ClosedMeansReleased OBVIOUS
  <2>1. /\ agent \in RequestType /\ RequestOK(agent) /\ agent.sends = <<>> /\ WorkerFits
    BY DEF CallInv, RequestFits, RequestOK
  <2>2. \A c \in Calls : calls[c].call \in {"none", "prepared", "open"}
    BY <2>1 DEF WorkerFits, InvocationType
  <2>3. TypeOK BY <2>1, <2>2 DEF TypeOK, RequestType, AttemptType, RequestOK, CallOK
  <2>4. \A c \in Calls : c # agent.call => ~Live(c) BY <2>1 DEF Live, WorkerFits, StreamsFit
  <2>5. QED BY <2>3, <2>4 DEF ClosedMeansReleased
<1>2. QED BY <1>1, RequestInvariance, PTL

\* What was asked and what was answered is in the log, in the provider's order and once
\* each, and a request that succeeded has its message (attempt_flow.go, commitMessage).
THEOREM LogTellsTheAnswer == Spec => []AnswerIsRecorded
<1>1. CallInv => AnswerIsRecorded
  <2> SUFFICES ASSUME CallInv PROVE AnswerIsRecorded OBVIOUS
  <2>1. LogFits(agent, log) /\ History BY DEF CallInv, RequestFits
  <2>2. SuccessIsRecorded BY <2>1 DEF SuccessIsRecorded, LogFits, MessageFits, Positions
  <2>3. QED BY <2>1, <2>2 DEF AnswerIsRecorded, History
<1>2. QED BY <1>1, RequestInvariance, PTL


\* Once cancelled, a request opens no further generation: whatever is answered after
\* the cancellation, the attempt fails at its next phase (attempt_flow.go, proceed).
THEOREM CancelledOpensNothing == Spec => CancelStopsGeneration
<1>1. ASSUME CallInv, [Next]_vars PROVE agent'.call > agent.call => ~agent.cancel
  <2>1. /\ agent \in RequestType /\ agent.call \in Nat /\ HasCall(agent) /\ WorkerFits
        /\ \A p \in agent.pending : p.k \in Kinds
        /\ \A r \in replies : r.err \in BOOLEAN
    BY <1>1 DEF CallInv, RequestFits, RequestOK, RequestType, Token, HasCall, WorkerFits,
                RepliesOK, ReplyType
  <2>2. ASSUME NEW w, Becomes(w), HasCall(w), w.call \in {agent.call, 0}
        PROVE  ~(agent'.call > agent.call)
    <3>1. agent'.call \in {agent.call, 0} BY <2>2 DEF Becomes, HasCall
    <3>2. QED BY <2>1, <3>1
  <2>3. ASSUME NEW w, Becomes(w), SameCall(agent, w) PROVE ~(agent'.call > agent.call)
    BY <2>2, <2>3 DEF SameCall
  <2>4. /\ SameCall(agent, agent) /\ SameCall(agent, FailAttempt(agent))
        /\ SameCall(agent, ReadChunk(agent)) /\ SameCall(agent, CloseStream(agent))
    BY <2>1, HandlersKeepCall DEF SameCall
  <2>5. CASE StartRequest
    <3> DEFINE v == [agent EXCEPT !.requests = @ + 1, !.cancel = FALSE,
                                  !.failed = FALSE, !.header = FALSE]
    <3>1. SameCall(agent, v) BY <2>1 DEF SameCall, HasCall
    <3>2. Becomes(StartAttempt(v)) BY <2>5 DEF StartRequest
    <3> HIDE DEF v
    <3>3. SameCall(agent, StartAttempt(v)) BY <3>1 DEF StartAttempt, SameCall, HasCall
    <3>4. QED BY <2>3, <3>2, <3>3
  <2>6. CASE ReadLog
    <3> DEFINE read == [agent EXCEPT !.try.st = "opening", !.try.base = Len(log),
                                     !.try.surface = Surface(log)]
               next == Send([read EXCEPT !.call = agent.attempts], "start")
    <3>1. SameCall(agent, read) /\ read.cancel = agent.cancel
      BY <2>1 DEF SameCall, HasCall, RequestType
    <3>2. Becomes(IF read.cancel THEN FailAttempt(read) ELSE next)
      BY <2>6 DEF ReadLog, Proceed
    <3> HIDE DEF read, next
    <3>3. SameCall(agent, FailAttempt(read)) BY <3>1, HandlersKeepCall DEF SameCall
    <3>4. agent.cancel => ~(agent'.call > agent.call) BY <2>3, <3>1, <3>2, <3>3
    <3>5. QED BY <3>4
  <2>7. CASE CheckRequest \/ ReadFails \/ CommitFails
    <3>1. Becomes(ReadChunk(agent)) \/ Becomes(FailAttempt(agent))
      BY <2>7 DEF CheckRequest, ReadFails, CommitFails
    <3>2. QED BY <2>3, <2>4, <3>1
  <2>8. CASE SessionCommits
    <3>1. /\ agent.try.st \in {"committingHeader", "committingContext", "committingChunk",
                               "committingMessage"}
          /\ Becomes(Committed(agent, Len(log) + 1))
      BY <2>8 DEF SessionCommits, Committing, At
    <3>2. SameCall(agent, Committed(agent, Len(log) + 1)) BY <2>1, <3>1, AnswersKeepCall
    <3>3. QED BY <2>3, <3>1, <3>2
  <2>9. CASE NothingToClose
    <3>1. PICK w \in Closed(agent) : Becomes(w) BY <2>9 DEF NothingToClose
    <3>2. HasCall(w) /\ w.call = 0 BY <2>1, CloseDropsCall
    <3>3. QED BY <2>2, <3>1, <3>2
  <2>10. CASE RecoveryResolved
    <3>1. PICK w \in {Finish(agent, TRUE), StartAttempt([agent EXCEPT !.failed = FALSE])} :
            Becomes(w)
      BY <2>10 DEF RecoveryResolved
    <3>2. SameCall(agent, Finish(agent, TRUE)) BY <2>1 DEF Finish, SameCall, HasCall
    <3> DEFINE v == [agent EXCEPT !.failed = FALSE]
    <3>3. SameCall(agent, v) BY <2>1 DEF SameCall, HasCall
    <3> HIDE DEF v
    <3>4. SameCall(agent, StartAttempt(v)) BY <3>3 DEF StartAttempt, SameCall, HasCall
    <3>5. QED BY <2>3, <3>1, <3>2, <3>4 DEF v
  <2>11. CASE RetryClose
    <3> DEFINE v == [agent EXCEPT !.phase = "retryingClose"]
    <3>1. SameCall(agent, v) BY <2>1 DEF SameCall, HasCall
    <3>2. Becomes(CloseStream(v)) BY <2>11 DEF RetryClose
    <3> HIDE DEF v
    <3>3. SameCall(agent, CloseStream(v)) BY <3>1, HandlersKeepCall DEF SameCall
    <3>4. QED BY <2>3, <3>2, <3>3
  <2>12. CASE Cancel
    <3> DEFINE v == [agent EXCEPT !.cancel = TRUE]
    <3>1. SameCall(agent, v) BY <2>1 DEF SameCall, HasCall
    <3>2. Becomes(v) \/ Becomes(Send(v, "cancel")) BY <2>12 DEF Cancel
    <3> HIDE DEF v
    <3>3. SameCall(agent, Send(v, "cancel")) BY <3>1 DEF Send, SameCall, HasCall
    <3>4. QED BY <2>3, <3>1, <3>2, <3>3
  <2>13. CASE ReplyArrives
    <3>1. CASE agent' = agent BY <2>1, <3>1
    <3>2. CASE \E r \in replies, p \in agent.pending :
                 \E w \in Accepted(agent, p, r) : Becomes(w)
      <4>1. PICK r \in replies, p \in agent.pending :
              \E w \in Accepted(agent, p, r) : Becomes(w)
        BY <3>2
      <4>2. PICK w \in Accepted(agent, p, r) : Becomes(w) BY <4>1
      <4>3. HasCall(w) /\ w.call \in {agent.call, 0} BY <2>1, ReplyKeepsCall
      <4>4. QED BY <2>2, <4>2, <4>3
    <3>3. QED BY <2>13, <3>1, <3>2 DEF ReplyArrives
  <2>14. CASE RequestExpired
    <3>1. PICK p \in agent.pending : Becomes(Failed(agent, p)) BY <2>14 DEF RequestExpired
    <3>2. SameCall(agent, Failed(agent, p)) BY <2>1, FailureKeepsCall
    <3>3. QED BY <2>3, <3>1, <3>2
  <2>15. CASE SendFails
    <3>1. PICK p \in agent.pending : agent' = [Failed(agent, p) EXCEPT !.sends = <<>>]
      BY <2>15 DEF SendFails
    <3>2. SameCall(agent, Failed(agent, p)) BY <2>1, FailureKeepsCall
    <3>3. agent'.call = agent.call BY <3>1, <3>2 DEF SameCall, HasCall
    <3>4. QED BY <2>1, <3>3
  <2>16. CASE OtherWrites \/ WorkerReceives \/ TaskCompletes \/ UNCHANGED vars
    <3>1. agent' = agent
      BY <2>16 DEF OtherWrites, WorkerReceives, TaskCompletes, GenerationCompletes,
                   ReadCompletes, CloseCompletes, vars
    <3>2. QED BY <2>1, <3>1
  <2>17. QED
    BY <1>1, <2>5, <2>6, <2>7, <2>8, <2>9, <2>10, <2>11, <2>12, <2>13, <2>14, <2>15, <2>16
       DEF Next, SessionAnswers
<1>2. CallInv /\ [Next]_vars => [agent'.call > agent.call => ~agent.cancel]_vars BY <1>1
<1>3. QED BY <1>2, RequestInvariance, PTL DEF Spec, CancelStopsGeneration
=============================================================================
