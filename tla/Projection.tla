------------------------------ MODULE Projection ------------------------------
(***************************************************************************)
(* The live read projections of one Session creation (session/projection): *)
(* the registry of domain Units, the fold every Unit keeps of the log, and *)
(* the Grain that advances the folds with the Session's commit notices,    *)
(* reads the history it lacks, and publishes what changed.                 *)
(*                                                                         *)
(* A Unit's state is the sequence of the events that changed it, so a fold *)
(* that skips, repeats or reorders an event differs from the true one.     *)
(***************************************************************************)
EXTENDS Naturals, Sequences, FiniteSets

CONSTANTS
  Units,        \* the keys of projection Units
  Settings      \* bounds of the behaviours, one after another:
                \*   events   commits of the Session
                \*   tokens   registrations
                \*   reads    Read and Capture requests
                \*   faults   failed history reads

Seqs == INSTANCE SequencesExt

VARIABLES
  events,     \* the committed log: the Units each event changes
  registry,   \* registrations: the object a key stands for and its references
  fold,       \* the projection of the creation and its cells
  notices,    \* commit notices on their way to the Grain, in order
  reads,      \* history reads of the Grain that are not answered
  published,  \* the changes published, in order
  used        \* the setting, and how much of it is used

projectionVars == <<events, registry, fold, notices, reads, published, used>>

NoUse == [events |-> 0, tokens |-> 0, reads |-> 0, faults |-> 0]

Init ==
  /\ events = <<>>
  /\ registry = [object |-> [u \in Units |-> 0], refs |-> [u \in Units |-> 0], objects |-> 0]
  /\ fold = [life |-> "absent", cells |-> [o \in {} |-> 0], released |-> 0]
  /\ notices = <<>> /\ reads = {} /\ published = <<>>
  /\ used \in [of : DOMAIN Settings, n : {NoUse}]

Uses(what) ==
  /\ used.n[what] < Settings[used.of][what]
  /\ used' = [used EXCEPT !.n[what] = @ + 1]

----------------------------------------------------------------------------
(* Folds.                                                                  *)

Registered == {u \in Units : registry.object[u] # 0}

Changes(u, e) == u \in events[e]

(* applyTransition: the event e on a state of the Unit u.                  *)
Applied(u, state, e) == IF Changes(u, e) THEN Append(state, e) ELSE state

(* advanceCell over the first n events: those the cell observed already    *)
(* are skipped.                                                            *)
Advanced(u, cell, n) ==
  LET state[e \in cell.seq..n] ==
        IF e = cell.seq THEN cell.state ELSE Applied(u, state[e - 1], e)
  IN IF n <= cell.seq THEN cell ELSE [seq |-> n, state |-> state[n]]

(* buildCell.                                                              *)
Built(u, n) == Advanced(u, [seq |-> 0, state |-> <<>>], n)

Moved(before, after) == before.state # after.state

(* prune: a key registered again is another object and cannot reuse state. *)
Pruned(cells) ==
  [o \in {p \in DOMAIN cells : \E u \in Units : registry.object[u] = p} |-> cells[o]]

(* installCells: no cell goes back.                                        *)
Installed(cells, prepared) ==
  [o \in DOMAIN cells \cup DOMAIN prepared |->
     IF o \notin DOMAIN prepared \/ (o \in DOMAIN cells /\ prepared[o].seq < cells[o].seq)
     THEN cells[o] ELSE prepared[o]]

(* prepareCells for the first n events: an older view is built afresh.     *)
PreparedCells(cells, n) ==
  [o \in {registry.object[u] : u \in Registered} |->
     LET u == CHOOSE v \in Units : registry.object[v] = o
     IN IF o \in DOMAIN cells /\ cells[o].seq <= n THEN Advanced(u, cells[o], n) ELSE Built(u, n)]

(* prepareEventCandidate: the cell of u brought up to the event e, and     *)
(* whether it changed; a cell that observed e already has no candidate.    *)
BeforeEvent(u, cells, e) ==
  IF registry.object[u] \notin DOMAIN cells THEN Built(u, e - 1)
  ELSE Advanced(u, cells[registry.object[u]], e - 1)

(* Variant: an event is applied again to a cell that has it.               *)
CandidatesAgain(cells, e) == Registered

Candidates(cells, e) ==
  {u \in Registered : BeforeEvent(u, cells, e).seq < e}

AfterEvent(u, cells, e) ==
  LET before == BeforeEvent(u, cells, e)
  IN [seq |-> e, state |-> Applied(u, before.state, e)]

(* The fold of u is reported when e, or the events it caught up with,      *)
(* changed it; a late fold counts from e alone.                            *)
Reported(u, cells, e) ==
  LET o == registry.object[u]
      base == IF o \in DOMAIN cells THEN cells[o] ELSE BeforeEvent(u, cells, e)
  IN Moved(base, AfterEvent(u, cells, e))

(* observe and publishChanges, for the event e; keys are walked in the     *)
(* order they were registered in.                                          *)
Observe(e) ==
  LET cells == Pruned(fold.cells)
      chosen == Candidates(cells, e)
      news == {u \in chosen : Reported(u, cells, e)}
      change(u) == [object |-> registry.object[u], unit |-> u, seq |-> e,
                    value |-> AfterEvent(u, cells, e).state]
  IN /\ fold' = [fold EXCEPT !.life = "live",
                   !.cells = Installed(cells,
                     [o \in {registry.object[u] : u \in chosen} |->
                        AfterEvent(CHOOSE v \in Units : registry.object[v] = o, cells, e)])]
     /\ published' = published
          \o Seqs!SetToSortSeq({change(u) : u \in news}, LAMBDA c, d : c.object < d.object)

----------------------------------------------------------------------------
(* The Grain.                                                              *)

(* Register: another token of the object, or a new object.                 *)
Register(u) ==
  /\ Uses("tokens")
  /\ registry' =
       IF registry.object[u] = 0
       THEN [registry EXCEPT !.object[u] = registry.objects + 1, !.refs[u] = 1, !.objects = @ + 1]
       ELSE [registry EXCEPT !.refs[u] = @ + 1]
  /\ UNCHANGED <<events, fold, notices, reads, published>>

(* Remove: an outstanding token.                                           *)
Remove(u) ==
  /\ registry.refs[u] > 0
  /\ registry' = [registry EXCEPT !.refs[u] = @ - 1, !.object[u] = IF registry.refs[u] = 1 THEN 0 ELSE @]
  /\ UNCHANGED <<events, fold, notices, reads, published, used>>

(* Read and Capture with the first n events: the projection is created     *)
(* when it is absent and refused when it was released.  Subscribers hear   *)
(* nothing of it.                                                          *)
Read(n) ==
  /\ Uses("reads")
  /\ fold.life # "released"
  /\ LET cells == Pruned(fold.cells)
     IN fold' = [fold EXCEPT !.life = "live", !.cells = Installed(cells, PreparedCells(cells, n))]
  /\ UNCHANGED <<events, registry, notices, reads, published>>

(* Advance needs the history below e for a cell that is missing or behind. *)
HistoryRequired(e) ==
  LET cells == Pruned(fold.cells)
  IN \E u \in Registered :
       \/ registry.object[u] \notin DOMAIN cells /\ e # 1
       \/ registry.object[u] \in DOMAIN cells /\ cells[registry.object[u]].seq < e - 1

(* appended: a released creation refuses the notice; missing history is    *)
(* read from the Session while the Grain goes on.                          *)
Appended ==
  /\ notices # <<>>
  /\ notices' = Tail(notices)
  /\ LET e == Head(notices)
     IN CASE fold.life = "released" -> UNCHANGED <<fold, reads, published>>
          [] fold.life # "released" /\ HistoryRequired(e) ->
               /\ fold' = [fold EXCEPT !.life = "live", !.cells = Pruned(@)]
               /\ reads' = reads \cup {e}
               /\ UNCHANGED published
          [] OTHER -> Observe(e) /\ UNCHANGED reads
  /\ UNCHANGED <<events, registry, used>>

(* owner.projections[key] is still the projection that asked.              *)
HistoryUsable == fold.life # "released"

(* The Session answers a history read, or the read fails.                  *)
HistoryArrives(e) ==
  /\ reads' = reads \ {e}
  /\ IF HistoryUsable THEN Observe(e) ELSE UNCHANGED <<fold, published>>
  /\ UNCHANGED <<events, registry, notices, used>>

HistoryFails(e) ==
  /\ Uses("faults")
  /\ reads' = reads \ {e}
  /\ UNCHANGED <<events, registry, fold, notices, published>>

(* ClosedNotice and Forget: closure is remembered, so a later notice is    *)
(* rejected instead of starting a fold again.                              *)
Release ==
  /\ fold.life # "released"
  /\ fold' = [life |-> "released", cells |-> [o \in {} |-> 0], released |-> Len(published)]
  /\ UNCHANGED <<events, registry, notices, reads, published, used>>

(* The Session commits an event and the Subscriber forwards its notice.    *)
Commit(changed) ==
  /\ Uses("events")
  /\ events' = Append(events, changed)
  /\ notices' = Append(notices, Len(events) + 1)
  /\ UNCHANGED <<registry, fold, reads, published>>

Next ==
  \/ \E changed \in SUBSET Units : Commit(changed)
  \/ \E u \in Units : Register(u) \/ Remove(u)
  \/ \E n \in 0..Len(events) : Read(n)
  \/ Appended
  \/ \E e \in reads : HistoryArrives(e) \/ HistoryFails(e)
  \/ Release

Spec == Init /\ [][Next]_projectionVars

----------------------------------------------------------------------------
(* Properties.                                                             *)

(* Registrations, folds and their messages keep the shapes of the code.    *)
TypeOK ==
  /\ \A u \in Units : registry.object[u] # 0 <=> registry.refs[u] > 0
  /\ \A u, v \in Registered : registry.object[u] = registry.object[v] => u = v
  /\ fold.life \in {"absent", "live", "released"}
  /\ DOMAIN fold.cells \subseteq 1..registry.objects
  /\ reads \subseteq 1..Len(events)

(* What a Unit's state is after the first n events.                        *)
Truth(u, n) ==
  LET touches(e) == Changes(u, e) IN SelectSeq([e \in 1..n |-> e], touches)

(* A cell holds the fold of exactly the events it says it observed.        *)
CellsAreFolds ==
  \A u \in Registered :
    LET o == registry.object[u]
    IN o \in DOMAIN fold.cells => fold.cells[o].state = Truth(u, fold.cells[o].seq)

(* "One whole projection value caused by one committed event"              *)
(* (types.go:57): a change shows the Unit as of its event, and a registered*)
(* Unit's changes come in the order of the log, although a notice may wait *)
(* for history while later ones are worked off.                            *)
ChangesFollowTheLog ==
  \A i \in DOMAIN published :
    LET change == published[i]
    IN /\ change.value = Truth(change.unit, change.seq)
       /\ \A j \in 1..i - 1 : published[j].object = change.object => published[j].seq < change.seq

(* "A present nil value retains closure knowledge and rejects arbitrarily  *)
(* late notices" (grain.go:19): a released creation publishes nothing and  *)
(* holds no fold.                                                          *)
ReleasedIsSilent ==
  fold.life = "released" => Len(published) = fold.released /\ fold.cells = [o \in {} |-> 0]

ProjectionsAreTrue == TypeOK /\ CellsAreFolds /\ ChangesFollowTheLog /\ ReleasedIsSilent
=============================================================================
