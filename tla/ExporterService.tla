-------------------------- MODULE ExporterService ---------------------------
(***************************************************************************)
(* What the metrics-exporter promises to the config-reloader beside it:    *)
(* the metrics and the hash it serves come from configurations it has      *)
(* read, the hash is never that of a newer configuration than the one the  *)
(* metrics come from, and a reload it has accepted makes it read the       *)
(* mounted file again.  Routers, signals and goroutines are left out.      *)
(***************************************************************************)
EXTENDS Naturals

CONSTANTS
    Configs,    \* contents of the configuration file
    None        \* no configuration

VARIABLES
    mounted,    \* the file, as the kubelet has mounted it
    read,       \* the configuration that was read last
    exported,   \* the configuration the edge-node metrics come from
    hash,       \* the configuration whose hash is served
    owed        \* how often the file is still to be read again

vars == <<mounted, read, exported, hash, owed>>

TypeOK ==
    /\ mounted \in Configs
    /\ {read, exported, hash} \subseteq Configs \cup {None}
    /\ owed \in Nat

Init ==
    /\ mounted \in Configs
    /\ read = None
    /\ exported = None
    /\ hash = None
    /\ owed = 1

Sync ==
    /\ mounted' \in Configs
    /\ UNCHANGED <<read, exported, hash, owed>>

\* A request to POST /reload, or a signal.
Accept ==
    /\ owed' = owed + 1
    /\ UNCHANGED <<mounted, read, exported, hash>>

Read ==
    /\ owed > 0
    /\ exported = None \/ hash # None
    /\ read' = mounted
    /\ owed' = owed - 1
    /\ UNCHANGED <<mounted, exported, hash>>

Export ==
    /\ exported = None
    /\ read # None
    /\ exported' = read
    /\ UNCHANGED <<mounted, read, hash, owed>>

PublishHash ==
    /\ hash = None
    /\ read # None
    /\ exported \in {None, read}
    /\ hash' = read
    /\ UNCHANGED <<mounted, read, exported, owed>>

\* A reload replaces the router before the file is read again.
Withdraw ==
    /\ owed > 0
    /\ exported' = None
    /\ hash' = None
    /\ UNCHANGED <<mounted, read, owed>>

\* The process ends; the next one reads the file when it starts.
End ==
    /\ read' = None
    /\ exported' = None
    /\ hash' = None
    /\ owed' = 1
    /\ UNCHANGED mounted

Next == Sync \/ Accept \/ Read \/ Export \/ PublishHash \/ Withdraw \/ End

Spec == Init /\ [][Next]_vars

\* What is owed is done, unless the process ends again and again.
Fairness == WF_vars(Read) /\ WF_vars(Export) /\ WF_vars(PublishHash)

FairSpec == Spec /\ Fairness
=============================================================================
