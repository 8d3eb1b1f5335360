------------------------- MODULE MCMetricsExporter --------------------------
(***************************************************************************)
(* Small instances of MetricsExporter for TLC.                             *)
(***************************************************************************)
EXTENDS MetricsExporter, TLC
=============================================================================
