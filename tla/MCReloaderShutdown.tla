------------------------- MODULE MCReloaderShutdown -------------------------
(***************************************************************************)
(* Small instances of ReloaderShutdown for TLC.                            *)
(***************************************************************************)
EXTENDS ReloaderShutdown, TLC
=============================================================================
