----------------------------- MODULE McpConnection -----------------------------
(***************************************************************************)
(* One external tool server of an Agent: the Connection and its            *)
(* replaceable transports (mcpclient), and the Tool Runtime that owns the  *)
(* Connection, discovers its tools, reconnects it and closes it            *)
(* (tools/runtime/actor: connections, retries, refreshes).  A refresh, a   *)
(* reconnection and a close are tasks that wait for the network, for calls *)
(* and for each other; calls run beside a reconnection and go on, on the   *)
(* transport they began on.                                                *)
(***************************************************************************)
EXTENDS Integers, Sequences, FiniteSets, SequencesExt

CONSTANTS
  Settings   \* bounds of the behaviours, one after another:
             \*   changes  the server changes its tools
             \*   ends     subscriptions that end by themselves
             \*   retries, refreshes, calls, closes   asked for
             \*   rounds   times a call may ask its user
             \*   lates    tasks and calls that are cancelled or time out
             \*   faults   exchanges and releases that fail

VARIABLES
  server,   \* the version of the tools the server offers
  peers,    \* every transport
  conn,     \* the Connection: current and retired transports, closed, and who operates it
  runtime,  \* the Tool Runtime: its request, the news it has, the tools it applied
  task,     \* the task of the Runtime's request
  retry,    \* the task of a reconnection
  calls,    \* every call of the server's tool
  used      \* the setting, and how much of it is used

mcpVars == <<server, peers, conn, runtime, task, retry, calls, used>>

None == "none"
Setting == Settings[used.of]
Kinds == {"changes", "ends", "retries", "refreshes", "calls", "closes", "lates", "faults"}
Uses(what) == used.n[what] < Setting[what] /\ used' = [used EXCEPT !.n[what] = @ + 1]

(* Transports: live until the lifetime is cancelled, done when the          *)
(* subscription has ended, freed when the cleanup is over.                  *)
NewPeer ==
  [acked |-> FALSE, entries |-> 0, notice |-> FALSE, news |-> FALSE, live |-> TRUE, done |-> FALSE,
   failed |-> FALSE, closed |-> FALSE, freed |-> FALSE, error |-> FALSE]

NoTask == [at |-> None, saw |-> 0, late |-> FALSE, peer |-> 0]

Init ==
  /\ used \in [of : DOMAIN Settings, n : {[k \in Kinds |-> 0]}]
  /\ server = 1 /\ peers = <<[NewPeer EXCEPT !.acked = TRUE, !.entries = 1]>>
  /\ conn = [current |-> 1, retired |-> <<>>, closed |-> FALSE, busy |-> None]
  /\ runtime = [request |-> None, changed |-> FALSE, applied |-> 1, held |-> TRUE, selected |-> TRUE]
  /\ task = NoTask /\ retry = NoTask /\ calls = <<>>

Peer == peers[conn.current]
Running(p) == \E i \in DOMAIN calls : calls[i].peer = p /\ calls[i].at # "done"
Busy == \E i \in DOMAIN calls : calls[i].at # "done"
Listing(p) ==
  \/ task.at = "publish" /\ conn.current = p
  \/ retry.at = "publish" /\ retry.peer = p
Idle(p) == ~Running(p) /\ ~Listing(p)

----------------------------------------------------------------------------
(* The server and the transports (transport.go, subscription.go).          *)

Changed ==
  /\ Uses("changes") /\ server' = server + 1
  /\ peers' = [p \in DOMAIN peers |->
                 [peers[p] EXCEPT !.notice = @ \/ (peers[p].acked /\ peers[p].live)]]
  /\ UNCHANGED <<conn, runtime, task, retry, calls>>

Acknowledge(p) ==
  /\ ~peers[p].acked /\ peers[p].live /\ peers' = [peers EXCEPT ![p].acked = TRUE]
  /\ UNCHANGED <<server, conn, runtime, task, retry, calls, used>>

(* Notifications are coalesced into one token.                             *)
Notified(p) ==
  /\ peers[p].notice /\ peers[p].live
  /\ peers' = [peers EXCEPT ![p].notice = FALSE, ![p].news = TRUE]
  /\ UNCHANGED <<server, conn, runtime, task, retry, calls, used>>

Ended(p) ==
  /\ ~peers[p].done
  /\ \/ ~peers[p].live /\ UNCHANGED used
     \/ peers[p].live /\ Uses("ends")
  /\ peers' = [peers EXCEPT ![p].done = TRUE, ![p].live = FALSE, ![p].failed = @ \/ ~peers[p].closed]
  /\ UNCHANGED <<server, conn, runtime, task, retry, calls>>

(* Close starts the cleanup once; it waits for the subscription and for    *)
(* what was admitted, and an error of the SDK's stays its result.          *)
Shut(p) == [peers[p] EXCEPT !.closed = TRUE, !.live = FALSE]
Released(p) ==
  /\ peers[p].closed /\ peers[p].done /\ Idle(p) /\ ~peers[p].freed
  /\ \/ peers' = [peers EXCEPT ![p].freed = TRUE] /\ UNCHANGED used
     \/ Uses("faults") /\ peers' = [peers EXCEPT ![p].freed = TRUE, ![p].error = TRUE]
  /\ UNCHANGED <<server, conn, runtime, task, retry, calls>>

ShutAll(ps) == [p \in DOMAIN peers |-> IF p \in ps /\ ~peers[p].closed THEN Shut(p) ELSE peers[p]]
Gone(p) == peers[p].freed /\ ~peers[p].error

----------------------------------------------------------------------------
(* Connection.Reconnect (connection.go), the task of a retry.              *)

Cancelled == retry.late \/ conn.closed

RetryAsked ==
  /\ runtime.selected /\ runtime.request = None /\ retry.at = None /\ Uses("retries")
  /\ retry' = [NoTask EXCEPT !.at = "admit"]
  /\ UNCHANGED <<server, peers, conn, runtime, task, calls>>

RetryAdmit ==
  /\ retry.at = "admit"
  /\ \/ Cancelled /\ retry' = [retry EXCEPT !.at = "report"] /\ UNCHANGED conn
     \/ /\ ~Cancelled /\ conn.busy = None
        /\ conn' = [conn EXCEPT !.busy = "retry"] /\ retry' = [retry EXCEPT !.at = "open"]
  /\ UNCHANGED <<server, peers, runtime, task, calls, used>>

RetryEnds ==
  /\ retry' = [retry EXCEPT !.at = "report"] /\ conn' = [conn EXCEPT !.busy = None]

(* openTransport: subscribed and acknowledged before the tools are listed. *)
RetryOpen ==
  /\ retry.at = "open"
  /\ \/ /\ ~Cancelled /\ peers' = Append(peers, NewPeer)
        /\ retry' = [retry EXCEPT !.at = "ack", !.peer = Len(peers) + 1] /\ UNCHANGED <<conn, used>>
     \/ Cancelled /\ RetryEnds /\ UNCHANGED <<peers, used>>
     \/ Uses("faults") /\ RetryEnds /\ UNCHANGED peers
  /\ UNCHANGED <<server, runtime, task, calls>>

Undo == retry' = [retry EXCEPT !.at = "undo"] /\ peers' = [peers EXCEPT ![retry.peer] = Shut(retry.peer)]
RetryAck ==
  LET p == retry.peer
  IN /\ retry.at = "ack"
     /\ \/ peers[p].acked /\ retry' = [retry EXCEPT !.at = "list"] /\ UNCHANGED <<peers, used>>
        \/ (Cancelled \/ peers[p].done) /\ Undo /\ UNCHANGED used
        \/ Uses("lates") /\ Undo
     /\ UNCHANGED <<server, conn, runtime, task, calls>>

RetryList ==
  LET p == retry.peer
  IN /\ retry.at = "list"
     /\ \/ /\ peers[p].live /\ ~Cancelled
           /\ retry' = [retry EXCEPT !.at = "publish", !.saw = server] /\ UNCHANGED <<peers, used>>
        \/ (~peers[p].live \/ Cancelled) /\ Undo /\ UNCHANGED used
        \/ Uses("faults") /\ Undo
     /\ UNCHANGED <<server, conn, runtime, task, calls>>

RetryPublish ==
  LET p == retry.peer
  IN /\ retry.at = "publish"
     /\ IF peers[p].live /\ ~Cancelled
        THEN /\ retry' = [retry EXCEPT !.at = "select"]
             /\ peers' = [peers EXCEPT ![p].entries = retry.saw]
        ELSE Undo
     /\ UNCHANGED <<server, conn, runtime, task, calls, used>>

RetryUndone ==
  /\ retry.at = "undo" /\ peers[retry.peer].freed /\ RetryEnds
  /\ UNCHANGED <<server, peers, runtime, task, calls, used>>

(* Variant: whether the Connection was closed is not looked at.            *)
MaySelectAlways == TRUE
MaySelect == ~Cancelled
RetrySelect ==
  LET p == retry.peer
  IN /\ retry.at = "select"
     /\ IF MaySelect
        THEN /\ conn' = [conn EXCEPT !.retired = Append(@, conn.current), !.current = p]
             /\ retry' = [retry EXCEPT !.at = "drain"] /\ UNCHANGED peers
        ELSE /\ conn' = [conn EXCEPT !.retired = Append(@, p)]
             /\ retry' = [retry EXCEPT !.at = "drop"] /\ peers' = [peers EXCEPT ![p] = Shut(p)]
     /\ UNCHANGED <<server, runtime, task, calls, used>>

(* The candidate of a closed Connection is released, whoever has left.     *)
RetryDropped ==
  LET p == retry.peer
  IN /\ retry.at = "drop" /\ peers[p].freed
     /\ retry' = [retry EXCEPT !.at = "report"]
     /\ conn' = [conn EXCEPT !.busy = None,
                   !.retired = IF Gone(p) THEN SelectSeq(@, LAMBDA q : q # p) ELSE @]
     /\ UNCHANGED <<server, peers, runtime, task, calls, used>>

(* releaseRetired: a healthy transport drains its calls before it closes.  *)
Drained(p) == ~peers[p].live \/ ~Running(p)
RetryDrain ==
  /\ retry.at = "drain"
  /\ \/ /\ ~Cancelled /\ UNCHANGED <<retry, conn>>
        /\ \E p \in ToSet(conn.retired) :
             /\ ~peers[p].closed /\ Drained(p) /\ peers' = [peers EXCEPT ![p] = Shut(p)]
     \/ /\ \A p \in ToSet(conn.retired) : peers[p].freed \/ Cancelled
        /\ retry' = [retry EXCEPT !.at = "report"]
        /\ conn' = [conn EXCEPT !.busy = None, !.retired = SelectSeq(@, LAMBDA p : ~Gone(p))]
        /\ peers' = ShutAll({p \in ToSet(conn.retired) : ~peers[p].live})
  /\ UNCHANGED <<server, runtime, task, calls, used>>

RetryReported ==
  /\ retry.at = "report" /\ retry' = NoTask /\ runtime' = [runtime EXCEPT !.changed = TRUE]
  /\ UNCHANGED <<server, peers, conn, task, calls, used>>

----------------------------------------------------------------------------
(* RefreshConfiguration (runtime_configuration.go, connections.go).        *)

RefreshAsked ==
  /\ runtime.selected /\ runtime.request = None /\ ~Busy /\ Uses("refreshes")
  /\ peers' = [peers EXCEPT ![conn.current].news = FALSE]
  /\ LET news == runtime.changed \/ Peer.news \/ Peer.done
     IN IF news /\ retry.at = None
        THEN /\ runtime' = [runtime EXCEPT !.changed = FALSE, !.request = "refresh"]
             /\ task' = [NoTask EXCEPT !.at = "reconcile"]
        ELSE runtime' = [runtime EXCEPT !.changed = news] /\ UNCHANGED task
  /\ UNCHANGED <<server, conn, retry, calls>>

RefreshEnds(failed) ==
  /\ task' = NoTask
  /\ runtime' = [runtime EXCEPT !.request = None, !.changed = @ \/ failed]
  /\ conn' = [conn EXCEPT !.busy = IF @ = "task" THEN None ELSE @]

(* A transport that has ended is kept as it is: only a retry replaces it.  *)
Reconcile ==
  /\ task.at = "reconcile"
  /\ \/ Peer.done /\ task' = [task EXCEPT !.at = "catalog"] /\ UNCHANGED <<conn, runtime>>
     \/ /\ ~Peer.done /\ ~conn.closed /\ ~task.late /\ conn.busy = None
        /\ conn' = [conn EXCEPT !.busy = "task"] /\ task' = [task EXCEPT !.at = "list"]
        /\ UNCHANGED runtime
     \/ ~Peer.done /\ (conn.closed \/ task.late) /\ RefreshEnds(TRUE)
  /\ UNCHANGED <<server, peers, retry, calls, used>>

List ==
  /\ task.at = "list"
  /\ \/ /\ Peer.live /\ ~task.late /\ task' = [task EXCEPT !.at = "publish", !.saw = server]
        /\ UNCHANGED <<conn, runtime, used>>
     \/ (~Peer.live \/ task.late) /\ RefreshEnds(TRUE) /\ UNCHANGED used
     \/ Uses("faults") /\ RefreshEnds(TRUE)
  /\ UNCHANGED <<server, peers, retry, calls>>

Publish ==
  /\ task.at = "publish"
  /\ IF Peer.live /\ ~task.late
     THEN /\ peers' = [peers EXCEPT ![conn.current].entries = task.saw]
          /\ task' = [task EXCEPT !.at = "catalog"] /\ conn' = [conn EXCEPT !.busy = None]
          /\ UNCHANGED runtime
     ELSE RefreshEnds(TRUE) /\ UNCHANGED peers
  /\ UNCHANGED <<server, retry, calls, used>>

(* The tools are applied as they were discovered (ToolReplacement.tla); an *)
(* implementation is opened only of a transport that is alive.             *)
Catalog ==
  /\ task.at = "catalog"
  /\ task' = [task EXCEPT !.at = "apply", !.saw = IF Peer.done THEN 0 ELSE Peer.entries]
  /\ UNCHANGED <<server, peers, conn, runtime, retry, calls, used>>
Apply ==
  /\ task.at = "apply"
  /\ \/ /\ ~task.late /\ task.saw \in {0, runtime.applied} \cup (IF Peer.done THEN {} ELSE {task.saw})
        /\ runtime' = [runtime EXCEPT !.applied = task.saw]
        /\ task' = [task EXCEPT !.at = "retire"] /\ UNCHANGED <<conn, used>>
     \/ (task.late \/ Peer.done) /\ task.saw \notin {0, runtime.applied} /\ RefreshEnds(TRUE)
        /\ UNCHANGED used
     \/ Uses("faults") /\ RefreshEnds(TRUE)
  /\ UNCHANGED <<server, peers, retry, calls>>
Needed == runtime.applied # 0 \/ ~Peer.done
Retire ==
  /\ task.at = "retire"
  /\ \/ (Needed \/ ~runtime.held) /\ RefreshEnds(FALSE) /\ UNCHANGED used
     \/ ~Needed /\ runtime.held /\ task' = [task EXCEPT !.at = "close"]
        /\ UNCHANGED <<conn, runtime, used>>
     \/ Uses("faults") /\ RefreshEnds(TRUE)
  /\ UNCHANGED <<server, peers, retry, calls>>

----------------------------------------------------------------------------
(* CloseRuntime and Connection.Close.                                      *)

CloseAsked ==
  /\ ~Busy /\ Uses("closes")
  /\ retry' = [retry EXCEPT !.late = @ \/ retry.at # None]
  /\ IF runtime.request = None /\ runtime.selected
     THEN runtime' = [runtime EXCEPT !.request = "close"] /\ task' = [NoTask EXCEPT !.at = "tools"]
     ELSE UNCHANGED <<runtime, task>>
  /\ UNCHANGED <<server, peers, conn, calls>>

TaskFails ==
  /\ task' = NoTask
  /\ runtime' = [runtime EXCEPT !.request = None, !.changed = @ \/ runtime.request = "refresh"]
  /\ conn' = [conn EXCEPT !.busy = IF @ = "task" THEN None ELSE @]

CloseTools ==
  /\ task.at = "tools"
  /\ \/ /\ runtime' = [runtime EXCEPT !.applied = 0] /\ UNCHANGED <<conn, used>>
        /\ task' = [task EXCEPT !.at = IF runtime.held THEN "close" ELSE "end"]
     \/ Uses("faults") /\ TaskFails
  /\ UNCHANGED <<server, peers, retry, calls>>

Close ==
  /\ task.at = "close"
  /\ conn' = [conn EXCEPT !.closed = TRUE] /\ peers' = ShutAll({conn.current})
  /\ task' = [task EXCEPT !.at = "current", !.peer = conn.current]
  /\ UNCHANGED <<server, runtime, retry, calls, used>>
CloseRetired ==
  /\ task.at = "current" /\ (peers[task.peer].freed \/ task.late)
  /\ peers' = ShutAll(ToSet(conn.retired)) /\ task' = [task EXCEPT !.at = "retired"]
  /\ UNCHANGED <<server, conn, runtime, retry, calls, used>>
CloseOperates ==
  /\ task.at = "retired" /\ \A p \in ToSet(conn.retired) : peers[p].freed \/ task.late
  /\ IF conn.busy = None
     THEN /\ conn' = [conn EXCEPT !.busy = "task"] /\ peers' = ShutAll(ToSet(conn.retired))
          /\ task' = [task EXCEPT !.at = "release"] /\ UNCHANGED runtime
     ELSE task.late /\ TaskFails /\ UNCHANGED peers
  /\ UNCHANGED <<server, retry, calls, used>>
CloseReleases ==
  /\ task.at = "release" /\ \A p \in ToSet(conn.retired) : peers[p].freed \/ task.late
  /\ LET rest == SelectSeq(conn.retired, LAMBDA p : ~Gone(p))
         ok == Gone(task.peer) /\ rest = <<>>
     IN /\ conn' = [conn EXCEPT !.busy = None, !.retired = rest]
        /\ task' = IF ok THEN [task EXCEPT !.at = "end"] ELSE NoTask
        /\ runtime' = IF ok THEN [runtime EXCEPT !.held = FALSE]
                      ELSE [runtime EXCEPT !.request = None,
                              !.changed = @ \/ runtime.request = "refresh"]
  /\ UNCHANGED <<server, peers, retry, calls, used>>
CloseEnds ==
  /\ task.at = "end" /\ task' = NoTask
  /\ runtime' = [runtime EXCEPT !.request = None, !.selected = @ /\ runtime.request # "close"]
  /\ UNCHANGED <<server, peers, conn, retry, calls, used>>

(* Who waits gives up: the client of a retry or the Turn of a refresh; a   *)
(* close waits as long as it takes.                                        *)
Late ==
  /\ Uses("lates")
  /\ \/ runtime.request = "refresh" /\ ~task.late /\ task' = [task EXCEPT !.late = TRUE] /\ UNCHANGED retry
     \/ retry.at # None /\ ~retry.late /\ retry' = [retry EXCEPT !.late = TRUE] /\ UNCHANGED task
  /\ UNCHANGED <<server, peers, conn, runtime, calls>>

----------------------------------------------------------------------------
(* Calls (executor.go, protocol_session.go, elicitor.go).                  *)

Admits(def) == ~conn.closed /\ Peer.live /\ ~Peer.closed /\ Peer.entries = def
Call ==
  /\ runtime.applied # 0 /\ runtime.request = None /\ Uses("calls")
  /\ calls' = Append(calls,
       IF Admits(runtime.applied)
       THEN [at |-> "request", def |-> runtime.applied, peer |-> conn.current, round |-> 0,
             raw |-> None, result |-> None]
       ELSE [at |-> "done", def |-> runtime.applied, peer |-> 0, round |-> 0, raw |-> None,
             result |-> "refused"])
  /\ UNCHANGED <<server, peers, conn, runtime, task, retry>>

(* What the SDK returns counts only with a complete result on the wire.    *)
Returned(c) == [c EXCEPT !.at = "done", !.result = IF c.raw = "complete" THEN "ok" ELSE "failed"]
Responds(i) ==
  LET c == calls[i]
  IN /\ c.at = "request" /\ peers[c.peer].live
     /\ \/ calls' = [calls EXCEPT ![i] = Returned([c EXCEPT !.raw = "complete"])] /\ UNCHANGED used
        \/ /\ UNCHANGED used
           /\ calls' = [calls EXCEPT ![i] =
                IF c.round < Setting.rounds THEN [c EXCEPT !.raw = "input", !.at = "asked"]
                ELSE Returned([c EXCEPT !.raw = "input"])]
        \/ Uses("faults") /\ calls' = [calls EXCEPT ![i] = Returned(c)]
     /\ UNCHANGED <<server, peers, conn, runtime, task, retry>>
(* The user accepts with a valid answer, declines or cancels.              *)
Answered(i) ==
  /\ calls[i].at = "asked" /\ peers[calls[i].peer].live
  /\ calls' = [calls EXCEPT ![i].at = "request", ![i].round = @ + 1]
  /\ UNCHANGED <<server, peers, conn, runtime, task, retry, used>>
(* Cancelled, too late, or its transport is over; a process that does not  *)
(* read is cut off, with everything on its transport.                      *)
CallStops(i) ==
  LET c == calls[i]
  IN /\ c.at # "done" /\ calls' = [calls EXCEPT ![i].at = "done", ![i].result = "failed"]
     /\ \/ ~peers[c.peer].live /\ UNCHANGED <<peers, used>>
        \/ /\ peers[c.peer].live /\ Uses("lates")
           /\ peers' \in {peers, [peers EXCEPT ![c.peer].live = FALSE, ![c.peer].failed = TRUE]}
     /\ UNCHANGED <<server, conn, runtime, task, retry>>

Next ==
  \/ Changed \/ \E p \in DOMAIN peers : Acknowledge(p) \/ Notified(p) \/ Ended(p) \/ Released(p)
  \/ RetryAsked \/ RetryAdmit \/ RetryOpen \/ RetryAck \/ RetryList \/ RetryPublish \/ RetryUndone
  \/ RetrySelect \/ RetryDropped \/ RetryDrain \/ RetryReported
  \/ RefreshAsked \/ Reconcile \/ List \/ Publish \/ Catalog \/ Apply \/ Retire
  \/ CloseAsked \/ CloseTools \/ Close \/ CloseRetired \/ CloseOperates \/ CloseReleases \/ CloseEnds
  \/ Late \/ Call
  \/ \E i \in DOMAIN calls : Responds(i) \/ Answered(i) \/ CallStops(i)

Spec == Init /\ [][Next]_mcpVars

----------------------------------------------------------------------------
(* Properties.                                                             *)

(* Every transport is released or somebody will: the Connection or the     *)
(* retry that opens it; and a Runtime that was closed has left none        *)
(* (connection.go:138, connections.go:18).                                 *)
NothingLeaks ==
  /\ \A p \in DOMAIN peers :
       \/ peers[p].freed \/ p = conn.current \/ p \in ToSet(conn.retired)
       \/ retry.at # None /\ retry.peer = p
  /\ ~runtime.selected => \A p \in DOMAIN peers : peers[p].freed

(* Only the end of its transport cuts a call off, never a reconnection, a  *)
(* refresh or a close; and installed tools have their Connection           *)
(* (connection.go:15, :86).                                                *)
CallsGoOn ==
  /\ \A i \in DOMAIN calls :
       calls[i].at # "done" /\ ~peers[calls[i].peer].live => peers[calls[i].peer].failed
  /\ runtime.applied # 0 => runtime.held /\ ~conn.closed

(* A change of the server's tools is applied, or the next refresh will     *)
(* look for it, whatever failed or ran in between (subscription.go:63).    *)
NewsIsKept ==
  LET looks == runtime.changed \/ retry.at # None \/ Peer.done \/ task.at = "reconcile"
  IN runtime.selected /\ runtime.request # "close" /\ ~conn.closed =>
       /\ Peer.entries # server /\ Peer.live =>
            \/ looks \/ Peer.notice \/ Peer.news \/ task.at = "list"
            \/ task.at = "publish" /\ task.saw = server
       /\ runtime.applied # Peer.entries =>
            looks \/ task.at \in {"list", "publish", "catalog"} \/ task.saw = Peer.entries

(* A call is answered with a result the server completed, by a transport   *)
(* that offered what the caller was shown (connection_admission.go:46).    *)
AnswersAreComplete ==
  \A i \in DOMAIN calls : calls[i].result = "ok" => calls[i].raw = "complete" /\ calls[i].peer # 0

ConnectionsAreTrue == NothingLeaks /\ CallsGoOn /\ NewsIsKept /\ AnswersAreComplete
=============================================================================
