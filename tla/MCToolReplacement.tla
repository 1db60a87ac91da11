------------------------- MODULE MCToolReplacement -------------------------
(* Small instances of ToolReplacement for TLC.                             *)
EXTENDS ToolReplacement, TLC

MCSymmetry == Permutations(Versions)
=============================================================================
