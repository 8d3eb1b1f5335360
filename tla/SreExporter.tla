----------------------------- MODULE SreExporter ----------------------------
(***************************************************************************)
(* The SRE exporter pod: the config-reloader's calls, the metrics-exporter *)
(* container they ask for its hash and its reload, and the kubelet, which  *)
(* carries the ConfigMap to the mounted file in its own time.  Callers     *)
(* repeat a call until it is answered OK, as the answers to a reload and   *)
(* to a failed request make them.                                          *)
(*                                                                         *)
(* The config-reloader is ConfigReloader, step for step; the container is  *)
(* what MetricsExporter implements, ExporterService.  They meet where the  *)
(* hash is read, a reload is posted and its answer returns.                *)
(***************************************************************************)
EXTENDS ConfigReloader, FiniteSets

CONSTANTS
    Asks,       \* the requests made on each call slot
    NoConfig,   \* the container serves, or has read, no configuration
    MaxFaults,  \* bound: failed requests, ends of the container and of the reloader
    MaxOwed     \* bound: reloads the container has accepted and not carried out

\* Hashes holds the lists that can be installed and those that calls make of them.
ASSUME PodAssumption ==
    /\ Asks \in [Calls -> SUBSET Accepted]
    /\ InitialOrgs \subseteq Hashes
    /\ \A c \in Calls : \A r \in Asks[c], org \in Hashes : Change(r, org) \in Hashes
    /\ NoConfig \notin Hashes
    /\ MaxFaults \in Nat
    /\ MaxOwed \in Nat

VARIABLES
    fetched,    \* the ConfigMap as the kubelet has last seen it
    mounted,    \* the configuration file in the pod
    read,       \* the configuration the container read last
    exported,   \* the configuration the edge-node metrics come from
    hash,       \* the configuration whose hash is served at /confighash
    owed,       \* how often the container will read the file again
    posted,     \* calls whose reload the container has not begun to carry out
    confirmed,  \* a call was answered OK, and the ConfigMap has not changed since
    faults      \* faults so far

Container == INSTANCE ExporterService WITH Configs <- Hashes, None <- NoConfig

containerVars == <<mounted, read, exported, hash, owed>>
podVars == <<fetched, posted, confirmed, faults>>
allVars == <<vars, containerVars, podVars>>

PodTypeOK ==
    /\ TypeOK
    /\ {configMap, fetched} \subseteq Hashes
    /\ Container!TypeOK
    /\ posted \in SUBSET Calls /\ Cardinality(posted) <= owed
    /\ confirmed \in BOOLEAN
    /\ faults \in 0..MaxFaults

PodInit ==
    /\ Init
    /\ fetched = configMap
    /\ mounted = configMap
    /\ Container!Init
    /\ posted = {}
    /\ confirmed = FALSE
    /\ faults = 0

-----------------------------------------------------------------------------
(***************************************************************************)
(* The calls.                                                              *)
(***************************************************************************)
\* Steps that concern the config-reloader and the API server alone.
Local(c) ==
    /\ \/ \E r \in Asks[c] : Receive(c, r)
       \/ Lock(c) \/ GetConfigMap(c) \/ PatchReturns(c)
       \/ Mismatch(c) \/ GetPod(c) \/ UpdatePod(c) \/ Finish(c)
    /\ UNCHANGED <<containerVars, podVars>>

WriteConfigMap(c) ==
    /\ ApplyPatch(c)
    /\ confirmed' = FALSE
    /\ UNCHANGED <<containerVars, fetched, posted, faults>>

GetHash(c) ==
    /\ hash \in Hashes
    /\ ReadHash(c, hash)
    /\ UNCHANGED <<containerVars, podVars>>

\* Mutant: the hash of the container is not compared.
AnswerOKUnchecked(c) ==
    /\ pc[c] = "compare"
    /\ Return(c, "OK")
    /\ confirmed' = TRUE
    /\ UNCHANGED <<configMap, annotation, late, req>>
    /\ UNCHANGED <<containerVars, fetched, posted, faults>>

AnswerOK(c) ==
    /\ Confirm(c)
    /\ confirmed' = TRUE
    /\ UNCHANGED <<containerVars, fetched, posted, faults>>

\* Mutant: the reload that the container answers is not passed on to its loop.
RequestReloadIgnored(c) ==
    /\ read # NoConfig
    /\ PostReload(c)
    /\ UNCHANGED <<containerVars, podVars>>

\* The container has the route of /reload when it has read a configuration,
\* registered the route, and not swapped the router since.
RequestReload(c) ==
    /\ read # NoConfig
    /\ owed < MaxOwed
    /\ PostReload(c)
    /\ Container!Accept
    /\ posted' = posted \cup {c}
    /\ UNCHANGED <<fetched, confirmed, faults>>

\* The handler of /reload swaps the router before it answers; a call that was
\* cancelled does not stop it.
Reload(c) ==
    /\ c \in posted
    /\ Container!Withdraw
    /\ posted' = posted \ {c}
    /\ UNCHANGED <<vars, fetched, confirmed, faults>>

ReloadAnswered(c) ==
    /\ c \notin posted
    /\ ReloadReturns(c)
    /\ UNCHANGED <<containerVars, podVars>>

\* The container answers 404: the router has no hash, or not (yet) the route of
\* /reload, whether or not it has a hash.
NotServed(c) ==
    /\ pc[c] = "reload" \/ (pc[c] = "hash" /\ hash = NoConfig)
    /\ Fail(c)
    /\ UNCHANGED <<containerVars, podVars>>

\* The container has ended before it answered.
NotAnswered(c) ==
    /\ pc[c] = "reloading" /\ c \notin posted
    /\ Fail(c)
    /\ UNCHANGED <<containerVars, podVars>>

\* For other reasons requests fail, and calls are cancelled, now and then.
RequestFails(c) ==
    /\ faults < MaxFaults
    /\ Fail(c)
    /\ faults' = faults + 1
    /\ UNCHANGED <<containerVars, fetched, posted, confirmed>>

ReloaderStops(s) ==
    /\ faults < MaxFaults
    /\ Stop(s)
    /\ faults' = faults + 1
    /\ UNCHANGED <<containerVars, fetched, posted, confirmed>>

-----------------------------------------------------------------------------
(***************************************************************************)
(* The kubelet and the container.                                          *)
(***************************************************************************)
Fetch ==
    /\ fetched # configMap
    /\ fetched' = configMap
    /\ UNCHANGED <<vars, containerVars, posted, confirmed, faults>>

Mount ==
    /\ mounted # fetched
    /\ mounted' = fetched
    /\ UNCHANGED <<vars, read, exported, hash, owed, podVars>>

\* Mutant: a reload signals the loop of the container before it swaps the router.
ReadFileEarly ==
    /\ Container!Read
    /\ UNCHANGED <<vars, podVars>>

\* The read that a reload owes comes after its swap.
ReadFile ==
    /\ Cardinality(posted) < owed
    /\ Container!Read
    /\ UNCHANGED <<vars, podVars>>

Serve ==
    /\ Container!Export \/ Container!PublishHash
    /\ UNCHANGED <<vars, podVars>>

ContainerEnds ==
    /\ faults < MaxFaults
    /\ Container!End
    /\ posted' = {}
    /\ faults' = faults + 1
    /\ UNCHANGED <<vars, fetched, confirmed>>

-----------------------------------------------------------------------------
\* What a call does next, but for its wait for the mutex and for faults.
Advance(c) ==
    \/ Local(c) \/ WriteConfigMap(c) \/ GetHash(c) \/ AnswerOK(c)
    \/ RequestReload(c) \/ ReloadAnswered(c) \/ NotServed(c) \/ NotAnswered(c)

PodNext ==
    \/ \E c \in Calls : Advance(c) \/ Reload(c) \/ RequestFails(c)
    \/ \E s \in Servers : ReloaderStops(s)
    \/ Fetch \/ Mount \/ ReadFile \/ Serve \/ ContainerEnds

PodSpec == PodInit /\ [][PodNext]_allVars

\* Callers try again, goroutines and containers run, the kubelet synchronizes
\* its volumes, a Go mutex does not pass over a waiter for ever, and the route
\* of /reload is missing only for a moment.
PodFairness ==
    /\ \A c \in Calls : /\ WF_allVars(Advance(c)) /\ SF_allVars(RequestReload(c))
                        /\ SF_allVars(Lock(c) /\ UNCHANGED <<containerVars, podVars>>)
    /\ WF_allVars(\E c \in Calls : Reload(c))
    /\ WF_allVars(Fetch \/ Mount)
    /\ WF_allVars(ReadFile \/ Serve)

FairPodSpec == PodSpec /\ PodFairness

-----------------------------------------------------------------------------
(***************************************************************************)
(* A tenant action that was answered OK ("completed successfully",         *)
(* config_reloader.go:276) stays in force: until the ConfigMap changes,    *)
(* the metrics come from the list it holds, whichever reloads are still    *)
(* under way and whenever the container ends and reads the file again.     *)
(***************************************************************************)
ConfirmedStaysInForce == confirmed => exported \in {NoConfig, configMap}

(***************************************************************************)
(* Only a mismatch of the hashes reloads the container                     *)
(* (config_reloader.go:254), so that what was answered OK is not disturbed *)
(* by calls that repeat it or find nothing to do: until the ConfigMap      *)
(* changes, none of them withdraws the metrics, however many reloads of    *)
(* earlier calls the container has still to carry out.  The comments at    *)
(* :185, :191 and :236 ("but reload metrics exporter anyway") say that     *)
(* every call reloads it: the code does not do so.                         *)
(***************************************************************************)
RepeatsDisturbNothing ==
    confirmed => \A c \in Calls : pc[c] \notin {"getPod", "updatePod", "reload", "reloading"}

(***************************************************************************)
(* Callers that repeat their calls need not do so for ever: once faults    *)
(* stop, every answer is OK some day and stays so, and the metrics come    *)
(* from the list that the ConfigMap holds, however late the kubelet mounts *)
(* the file, although a call that finds another hash gives up, and         *)
(* although each reload withdraws the metrics that another caller waits    *)
(* for.                                                                    *)
(***************************************************************************)
PodSettles ==
    <>[](/\ exported = configMap
         /\ \A c \in Calls : pc[c] \in Answers => pc[c] = "OK")
=============================================================================
