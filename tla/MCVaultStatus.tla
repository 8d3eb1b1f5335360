--------------------------- MODULE MCVaultStatus ----------------------------
(***************************************************************************)
(* Small instances of VaultStatus for TLC.                                 *)
(***************************************************************************)
EXTENDS VaultStatus, TLC

CONSTANTS v1, v2

\* No instance, one, two, and one that is given twice.
MCLists == {<<>>, <<v1>>, <<v1, v2>>, <<v1, v1>>}
=============================================================================
