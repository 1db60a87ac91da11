------------------------------ MODULE DurableLog ------------------------------
(***************************************************************************)
(* What a Session promises to its clients, without activations, tasks or   *)
(* tokens: one history that grows from memory to storage.  A client may    *)
(* lose only events that no Flush or Close acknowledged.                   *)
(***************************************************************************)
EXTENDS Sequences, SequencesExt

VARIABLES
    log,     \* the history as its current owner sees it
    stable,  \* what survives the loss of the owner and can be read back
    acked    \* the longest prefix acknowledged as durable

vars == <<log, stable, acked>>

Init == log = <<>> /\ stable = <<>> /\ acked = <<>>

\* New events become visible before they are durable.
Commit ==
    /\ IsStrictPrefix(log, log')
    /\ UNCHANGED <<stable, acked>>

\* A visible suffix becomes durable.
Persist ==
    /\ IsStrictPrefix(stable, stable')
    /\ IsPrefix(stable', log)
    /\ UNCHANGED <<log, acked>>

\* Durability of a prefix is acknowledged, never beyond storage.
Acknowledge ==
    /\ IsStrictPrefix(acked, acked')
    /\ IsPrefix(acked', stable)
    /\ UNCHANGED <<log, stable>>

\* The owner is gone: its unsaved suffix is lost.
Lose ==
    /\ log' = stable
    /\ UNCHANGED <<stable, acked>>

\* Recovery closes an interrupted turn in storage before anybody owns it.
Repair ==
    /\ log = stable
    /\ IsStrictPrefix(stable, stable')
    /\ log' = stable'
    /\ UNCHANGED acked

Next == Commit \/ Persist \/ Acknowledge \/ Lose \/ Repair

Spec == Init /\ [][Next]_vars

=============================================================================
