--------------------------- MODULE MCReportPipeline ---------------------------
(***************************************************************************)
(* Instances of ReportPipeline for TLC.                                    *)
(***************************************************************************)
EXTENDS ReportPipeline, TLC

\* The worker alone, and beside one qdii sync-reports.
NoCommands == {}

Symmetry == Permutations(Funds)
=============================================================================
