-------------------------- MODULE MCConfigReloader --------------------------
(***************************************************************************)
(* Small instances of ConfigReloader for TLC.                              *)
(***************************************************************************)
EXTENDS ConfigReloader, TLC

CONSTANTS s1, s2, c1, c2, t1, t2

\* The list that the chart installs (an empty one is refused), or one that
\* earlier calls have emptied.
MCInitialOrgs == {<<t1>>, <<Blank>>}

\* The container may run the installed list, one that a call leaves, or an older one.
MCHashes == {<<t1>>, <<t1, t2>>, <<Blank, t2>>}

MCHashesOne == {<<t1>>, <<Blank>>}

\* Before any call.
MCInstalledOrgs == {<<t1>>}

MCOneServer == c1 :> s1 @@ c2 :> s1

MCOneCall == c1 :> s1

MCTwoServers == c1 :> s1 @@ c2 :> s2
=============================================================================
