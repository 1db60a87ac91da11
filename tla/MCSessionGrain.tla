---------------------------- MODULE MCSessionGrain ----------------------------
(***************************************************************************)
(* Small instances of SessionGrain.                                        *)
(***************************************************************************)
EXTENDS SessionGrain

CONSTANTS c1, c2

MCCreation == {c1, c2}

\* A fresh Session, one forked from an inherited open turn.
MCSeeds == {<<>>, <<"turn/start">>}

\* A turn is started and ended in commits of their own.
MCBatches == {<<"turn/start">>, <<"turn/end">>}

=============================================================================
