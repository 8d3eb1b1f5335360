--------------------------- MODULE MCSreExporter ----------------------------
(***************************************************************************)
(* Small instances of SreExporter for TLC.                                 *)
(***************************************************************************)
EXTENDS SreExporter, TLC

CONSTANTS s1, c1, c2, t1, t2

MCInstalledOrgs == {<<t1>>}

Initialize(t) == [action |-> "initialize", tenant |-> t]
Cleanup(t) == [action |-> "cleanup", tenant |-> t]

MCServer == [c \in Calls |-> s1]

\* One tenant comes and the installed one goes.
MCComeAndGoAsks == c1 :> {Initialize(t2)} @@ c2 :> {Cleanup(t1)}
MCComeAndGoLists == {<<t1>>, <<t1, t2>>, <<t2>>, <<Blank>>, <<Blank, t2>>}

\* A tenant comes and goes again.
MCUndoneAsks == c1 :> {Initialize(t2)} @@ c2 :> {Cleanup(t2)}
MCUndoneLists == {<<t1>>, <<t1, t2>>}
=============================================================================
