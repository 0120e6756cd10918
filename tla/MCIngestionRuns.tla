--------------------------- MODULE MCIngestionRuns ---------------------------
(***************************************************************************)
(* Instances of IngestionRuns for TLC.                                     *)
(***************************************************************************)
EXTENDS IngestionRuns, TLC

Symmetry == Permutations(Writers)
=============================================================================
