--------------------------- MODULE MetricsExporter --------------------------
(***************************************************************************)
(* The metrics-exporter process (cmd/metrics-exporter, internal/impl): a   *)
(* main goroutine that reads the configuration, registers pipelines and    *)
(* endpoints on a router, and waits for a signal on the channel done; and  *)
(* HTTP handlers of POST /reload, which unregister the collectors, swap in *)
(* an empty router and send SIGHUP to the main goroutine, so that it       *)
(* reads the configuration again.                                          *)
(*                                                                         *)
(* The main goroutine and the handlers share the router and the list of    *)
(* pipelines and synchronize by the channel alone; each access to what     *)
(* they share is a step.  The configuration file is the one the kubelet    *)
(* keeps in step with the ConfigMap; its contents are versions, counted in *)
(* the order in which they are mounted.  The calls of                      *)
(* initializePipelineManager are counted from 1, in each process.          *)
(***************************************************************************)
EXTENDS Naturals, Sequences, FiniteSets

CONSTANTS
    Handlers,       \* concurrent requests to POST /reload
    MaxVersion,     \* bound: changes of the file
    MaxReloads,     \* bound: requests to POST /reload
    Mishaps         \* events from outside, each at most once

ASSUME ExporterAssumption ==
    /\ IsFiniteSet(Handlers)
    /\ MaxVersion \in Nat
    /\ MaxReloads \in Nat
    /\ Mishaps \subseteq {"HUP", "TERM", "KILL", "BADFILE"}

\* One configuration file beside the collectors of Vault; the endpoint of a
\* pipeline goes by the pipeline's namespace.
EdgeNode == "orch_edgenode"
Namespaces == {EdgeNode, "vault"}

\* Endpoints in the order in which they are registered.
Endpoints == <<EdgeNode, "vault", "/", "/reload", "/confighash">>
Paths == {Endpoints[i] : i \in 1..5}

VARIABLES
    mounted,    \* version of the configuration file
    main,       \* what the main goroutine does next
    started,    \* serverStarted
    next,       \* index of the endpoint registered next
    listed,     \* manager.pipelines, as append has read it
    version,    \* version of the file each initialization read
    registry,   \* the collectors of each initialization's pipelines
    pipelines,  \* manager.pipelines: initialization and namespace of each
    router,     \* which initialization's route answers each path, 0 for none
    done,       \* the channel of signals, of capacity 1
    handler,    \* what each handler does next
    todo,       \* pipelines a handler still has to unregister
    met,        \* history: handlers at work that another has been at work with
    reloads,    \* requests to POST /reload so far
    mishaps     \* events that may still come

mainVars == <<main, started, next, listed, version>>
handlerVars == <<handler, todo, met>>
outside == <<mounted, reloads, mishaps>>
vars == <<mainVars, registry, pipelines, router, done, handlerVars, outside>>

Pipelines == Nat \X Namespaces
EmptyRouter == [p \in Paths |-> 0]
Signals == {"HUP", "TERM"}

TypeOK ==
    /\ mounted \in 0..MaxVersion
    /\ main \in {"read", "register", "append", "store", "start", "wait", "shutdown", "exited"}
    /\ started \in BOOLEAN
    /\ next \in 1..6
    /\ listed \in Seq(Pipelines)
    /\ version \in Seq(0..MaxVersion)
    /\ registry \in Seq([Namespaces -> {"registered", "unregistered", "cleared"}])
    /\ Len(registry) = Len(version)
    /\ pipelines \in Seq(Pipelines)
    /\ router \in [Paths -> 0..Len(version)]
    /\ done \in Seq(Signals) /\ Len(done) <= 1
    /\ handler \in [Handlers -> {"idle", "dispatched", "unregister", "taken", "clear",
                                 "forget", "sendHup", "sendTerm"}]
    /\ todo \in [Handlers -> Seq(Pipelines)]
    /\ met \subseteq Handlers
    /\ reloads \in 0..MaxReloads
    /\ mishaps \in SUBSET Mishaps

Init ==
    /\ mounted = 0
    /\ main = "read"
    /\ started = FALSE
    /\ next = 1
    /\ listed = <<>>
    /\ version = <<>>
    /\ registry = <<>>
    /\ pipelines = <<>>
    /\ router = EmptyRouter
    /\ done = <<>>
    /\ handler = [h \in Handlers |-> "idle"]
    /\ todo = [h \in Handlers |-> <<>>]
    /\ met = {}
    /\ reloads = 0
    /\ mishaps = Mishaps

-----------------------------------------------------------------------------
(***************************************************************************)
(* The main goroutine.                                                     *)
(***************************************************************************)
\* The initialization under way, or the last one.
Current == Len(version)

\* initializePipelineManager, first loop: read the configuration and its hash,
\* register the collectors of new pipelines.
ReadConfig ==
    /\ main = "read"
    /\ version' = Append(version, mounted)
    /\ registry' = Append(registry, [n \in Namespaces |-> "registered"])
    /\ next' = 1
    /\ main' = "register"
    /\ UNCHANGED <<started, listed, pipelines, router, done, handlerVars, outside>>

\* The first route registered for a path answers it.
Route(r, path, g) == IF r[path] = 0 THEN [r EXCEPT ![path] = g] ELSE r

\* Second loop and the rest of initializePipelineManager, an endpoint at a time,
\* on the router that is current at that moment.
Register ==
    /\ main = "register"
    /\ router' = Route(router, Endpoints[next], Current)
    /\ next' = next + 1
    /\ main' = IF Endpoints[next] \in Namespaces THEN "append"
               ELSE IF next = 5 THEN "start" ELSE "register"
    /\ UNCHANGED <<started, listed, version, registry, pipelines, done, handlerVars, outside>>

\* RegisterPipeline appends to manager.pipelines, which a handler may set to
\* nil between the two accesses.
ReadPipelines ==
    /\ main = "append"
    /\ listed' = Append(pipelines, <<Current, Endpoints[next - 1]>>)
    /\ main' = "store"
    /\ UNCHANGED <<started, next, version, registry, pipelines, router, done, handlerVars, outside>>

StorePipelines ==
    /\ main = "store"
    /\ pipelines' = listed
    /\ listed' = <<>>
    /\ main' = "register"
    /\ UNCHANGED <<started, next, version, registry, router, done, handlerVars, outside>>

\* The server is started, once, and the main goroutine waits for a signal.
Start ==
    /\ main = "start"
    /\ started' = TRUE
    /\ main' = "wait"
    /\ UNCHANGED <<next, listed, version, registry, pipelines, router, done, handlerVars, outside>>

TakeSignal ==
    /\ main = "wait"
    /\ done # <<>>
    /\ done' = Tail(done)
    /\ main' = IF Head(done) = "HUP" THEN "read" ELSE "shutdown"
    /\ UNCHANGED <<started, next, listed, version, registry, pipelines, router, handlerVars,
                   outside>>

AtWork(h) == handler[h] # "idle"

\* A handler has met another once both are at work, until its reload ends.
Meet ==
    met' = {h \in Handlers : /\ AtWork(h)'
                             /\ h \in met \/ \E k \in Handlers \ {h} : AtWork(k)'}

\* The process ends, and the connections of its handlers with it.
Die ==
    /\ main' = "exited"
    /\ handler' = [h \in Handlers |-> "idle"]
    /\ Meet
    /\ todo' = [h \in Handlers |-> <<>>]
    /\ UNCHANGED <<mounted, started, next, listed, version, registry, pipelines, router, done>>

\* For mutation: Shutdown without a time limit.
ShutdownWaits ==
    /\ main = "shutdown"
    /\ \A h \in Handlers : handler[h] = "idle"
    /\ Die
    /\ UNCHANGED <<reloads, mishaps>>

\* Shutdown returns when the handlers have, or else Close after 30 seconds, as
\* nothing reads the channel now and a handler may be blocked on it for good.
Shutdown ==
    /\ main = "shutdown"
    /\ Die
    /\ UNCHANGED <<reloads, mishaps>>

-----------------------------------------------------------------------------
(***************************************************************************)
(* The handlers of POST /reload.                                           *)
(***************************************************************************)
Move(h, step) == handler' = [handler EXCEPT ![h] = step] /\ Meet

\* The server accepts requests from its start until its shutdown.
Serving == started /\ main \notin {"shutdown", "exited"}

\* A request is routed by the router of that moment; without a route it is
\* answered 404 and nothing changes.
Dispatch(h) ==
    /\ handler[h] = "idle"
    /\ Serving
    /\ router["/reload"] # 0
    /\ reloads < MaxReloads
    /\ reloads' = reloads + 1
    /\ Move(h, "dispatched")
    /\ UNCHANGED <<mainVars, registry, pipelines, router, done, todo, mounted, mishaps>>

\* CleanUp ranges over the list it finds, whatever becomes of it later.
BeginCleanUp(h) ==
    /\ handler[h] = "dispatched"
    /\ todo' = [todo EXCEPT ![h] = pipelines]
    /\ Move(h, "unregister")
    /\ UNCHANGED <<mainVars, registry, pipelines, router, done, outside>>

\* The collectors of a pipeline.
Collectors(p) == registry[p[1]][p[2]]
SetCollectors(p, state) == registry' = [registry EXCEPT ![p[1]][p[2]] = state]

\* UnregisterCollectors of the next pipeline takes the list of its collectors ...
TakeCollectors(h) ==
    /\ handler[h] = "unregister"
    /\ todo[h] # <<>>
    /\ Collectors(Head(todo[h])) # "cleared"
    /\ Move(h, "taken")
    /\ UNCHANGED <<mainVars, registry, pipelines, router, done, todo, outside>>

\* ... which may be empty: there is nothing to unregister.
SkipCleared(h) ==
    /\ handler[h] = "unregister"
    /\ todo[h] # <<>>
    /\ Collectors(Head(todo[h])) = "cleared"
    /\ todo' = [todo EXCEPT ![h] = Tail(@)]
    /\ UNCHANGED <<mainVars, registry, pipelines, router, done, handler, met, outside>>

\* The collectors that were taken leave the registry ...
Unregister(h) ==
    /\ handler[h] = "taken"
    /\ Collectors(Head(todo[h])) = "registered"
    /\ SetCollectors(Head(todo[h]), "unregistered")
    /\ Move(h, "clear")
    /\ UNCHANGED <<mainVars, pipelines, router, done, todo, outside>>

\* ... unless another handler has been faster since they were taken: whatever it
\* has made of the list by now, they are not registered, and CleanUp fails.
UnregisterFails(h) ==
    /\ handler[h] = "taken"
    /\ Collectors(Head(todo[h])) # "registered"
    /\ todo' = [todo EXCEPT ![h] = <<>>]
    /\ Move(h, "sendTerm")
    /\ UNCHANGED <<mainVars, registry, pipelines, router, done, outside>>

\* For mutation: the list of collectors is kept.
ClearNothing(h) ==
    /\ handler[h] = "clear"
    /\ todo' = [todo EXCEPT ![h] = Tail(@)]
    /\ Move(h, "unregister")
    /\ UNCHANGED <<mainVars, registry, pipelines, router, done, outside>>

\* ... and then their list is emptied.
Clear(h) ==
    /\ handler[h] = "clear"
    /\ SetCollectors(Head(todo[h]), "cleared")
    /\ todo' = [todo EXCEPT ![h] = Tail(@)]
    /\ Move(h, "unregister")
    /\ UNCHANGED <<mainVars, pipelines, router, done, outside>>

\* For mutation: the endpoints are registered again on the same router.
SwapNothing(h) ==
    /\ handler[h] = "unregister"
    /\ todo[h] = <<>>
    /\ Move(h, "forget")
    /\ UNCHANGED <<mainVars, registry, pipelines, router, done, todo, outside>>

\* For mutation: the new router keeps the routes of the pipelines.
SwapKeepsPipelines(h) ==
    /\ handler[h] = "unregister"
    /\ todo[h] = <<>>
    /\ router' = [EmptyRouter EXCEPT ![EdgeNode] = router[EdgeNode]]
    /\ Move(h, "forget")
    /\ UNCHANGED <<mainVars, registry, pipelines, done, todo, outside>>

\* CleanUp swaps an empty router in ...
Swap(h) ==
    /\ handler[h] = "unregister"
    /\ todo[h] = <<>>
    /\ router' = EmptyRouter
    /\ Move(h, "forget")
    /\ UNCHANGED <<mainVars, registry, pipelines, done, todo, outside>>

\* ... and forgets the pipelines.
Forget(h) ==
    /\ handler[h] = "forget"
    /\ pipelines' = <<>>
    /\ Move(h, "sendHup")
    /\ UNCHANGED <<mainVars, registry, router, done, todo, outside>>

\* For mutation: a send that does not wait, on a channel without a buffer.
SendHupUnbuffered(h) ==
    /\ handler[h] = "sendHup"
    /\ done' = IF main = "wait" /\ done = <<>> THEN <<"HUP">> ELSE done
    /\ Move(h, "idle")
    /\ UNCHANGED <<mainVars, registry, pipelines, router, todo, outside>>

\* For mutation: a send to a channel without a limit.
SendHupQueued(h) ==
    /\ handler[h] = "sendHup"
    /\ done' = Append(done, "HUP")
    /\ Move(h, "idle")
    /\ UNCHANGED <<mainVars, registry, pipelines, router, todo, outside>>

\* For mutation: a send that does not wait for room in the channel.
SendTermDropped(h) ==
    /\ handler[h] = "sendTerm"
    /\ done' = IF done = <<>> THEN <<"TERM">> ELSE done
    /\ Move(h, "idle")
    /\ UNCHANGED <<mainVars, registry, pipelines, router, todo, outside>>

\* The sends block while the channel is full.  With them the handler returns, and
\* its answer, 200 or 500, is complete.
SendHup(h) ==
    /\ handler[h] = "sendHup"
    /\ done = <<>>
    /\ done' = <<"HUP">>
    /\ Move(h, "idle")
    /\ UNCHANGED <<mainVars, registry, pipelines, router, todo, outside>>

SendTerm(h) ==
    /\ handler[h] = "sendTerm"
    /\ done = <<>>
    /\ done' = <<"TERM">>
    /\ Move(h, "idle")
    /\ UNCHANGED <<mainVars, registry, pipelines, router, todo, outside>>

-----------------------------------------------------------------------------
(***************************************************************************)
(* The surroundings: the kubelet and the operating system.                 *)
(***************************************************************************)
Sync ==
    /\ mounted < MaxVersion
    /\ mounted' = mounted + 1
    /\ UNCHANGED <<mainVars, registry, pipelines, router, done, handlerVars, reloads, mishaps>>

\* A signal from outside: signal.Notify does not wait for room in the channel.
Signal(sig) ==
    /\ main # "exited"
    /\ sig \in mishaps
    /\ mishaps' = mishaps \ {sig}
    /\ done' = IF done = <<>> THEN <<sig>> ELSE done
    /\ UNCHANGED <<mainVars, registry, pipelines, router, handlerVars, mounted, reloads>>

Kill ==
    /\ main # "exited"
    /\ "KILL" \in mishaps
    /\ mishaps' = mishaps \ {"KILL"}
    /\ Die
    /\ UNCHANGED reloads

\* A file that cannot be read or parsed is fatal.
ReadFails ==
    /\ main = "read"
    /\ "BADFILE" \in mishaps
    /\ mishaps' = mishaps \ {"BADFILE"}
    /\ Die
    /\ UNCHANGED reloads

\* The kubelet starts the container again, with nothing of the old process.
Restart ==
    /\ main = "exited"
    /\ main' = "read"
    /\ started' = FALSE
    /\ next' = 1
    /\ listed' = <<>>
    /\ version' = <<>>
    /\ registry' = <<>>
    /\ pipelines' = <<>>
    /\ router' = EmptyRouter
    /\ done' = <<>>
    /\ UNCHANGED <<handlerVars, outside>>

-----------------------------------------------------------------------------
Main ==
    \/ ReadConfig \/ Register \/ ReadPipelines \/ StorePipelines \/ Start
    \/ TakeSignal \/ Shutdown

Handle(h) ==
    \/ BeginCleanUp(h) \/ TakeCollectors(h) \/ SkipCleared(h) \/ Unregister(h)
    \/ UnregisterFails(h) \/ Clear(h) \/ Swap(h) \/ Forget(h)

Send(h) == SendHup(h) \/ SendTerm(h)

Next ==
    \/ Main \/ ReadFails
    \/ \E h \in Handlers : Dispatch(h) \/ Handle(h) \/ Send(h)
    \/ Sync \/ Kill \/ Restart
    \/ \E sig \in Signals : Signal(sig)

Spec == Init /\ [][Next]_vars

\* Goroutines are scheduled, a blocked sender gets the room that comes up time
\* and again, and the kubelet restarts the container.
Fairness ==
    /\ WF_vars(Main) /\ WF_vars(Restart)
    /\ \A h \in Handlers : WF_vars(Handle(h)) /\ SF_vars(Send(h))

FairSpec == Spec /\ Fairness

-----------------------------------------------------------------------------
\* What a path is answered from, for the config-reloader and for Prometheus; a
\* collector counts from the registration of its endpoint, which the first
\* process does before it listens.
NoVersion == MaxVersion + 1

ServedAt(path) ==
    IF main = "exited" \/ router[path] = 0 THEN NoVersion ELSE version[router[path]]

LastRead ==
    IF main = "exited" \/ Len(version) = 0 THEN NoVersion ELSE version[Current]

\* Each reload, each signal and each start of the process makes it read the file.
ReadsOwed ==
    IF main = "exited" THEN 1
    ELSE (IF main \in {"read", "shutdown"} THEN 1 ELSE 0) + Len(done)
         + Cardinality({h \in Handlers : handler[h] # "idle"})

Service == INSTANCE ExporterService
               WITH Configs <- 0..MaxVersion, None <- NoVersion,
                    read <- LastRead, owed <- ReadsOwed,
                    exported <- ServedAt(EdgeNode), hash <- ServedAt("/confighash")

(***************************************************************************)
(* The exporter keeps its promise to the config-reloader: whatever reloads *)
(* overlap, and whenever the process is stopped, each change of what it    *)
(* serves is a step of ExporterService.                                    *)
(***************************************************************************)
ServiceKept == Service!Spec

(***************************************************************************)
(* In particular an accepted reload is carried out: the file is read       *)
(* again, and its metrics and its hash are served.                         *)
(***************************************************************************)
ServiceKeptGoing == Service!Fairness

(***************************************************************************)
(* CleanUp fails, which stops the process (pipeline_manager.go:79), only   *)
(* for a reload that has met another: a reload that is alone never fails,  *)
(* whatever reloads overlapped before it, and although the race of append  *)
(* (pipeline_manager.go:64) lists pipelines again that an earlier one has  *)
(* cleaned up.                                                             *)
(***************************************************************************)
LoneReloadsCleanUp == \A h \in Handlers : handler[h] = "sendTerm" => h \in met

\* Nothing is under way: the main goroutine waits, no signal and no reload is
\* pending.
Quiet ==
    /\ main = "wait"
    /\ done = <<>>
    /\ \A h \in Handlers : handler[h] = "idle"

Answered(path) == version[router[path]]

(***************************************************************************)
(* The config-reloader takes the hash served at /confighash as the proof   *)
(* that the tenants' metrics are exported from that configuration (it      *)
(* answers OK on it).  So the edge-node metrics served next to a hash      *)
(* never come from an older configuration, whichever handlers swapped      *)
(* routers while the endpoints were being registered                       *)
(* (pipeline_manager.go:131, metrics_exporter.go:127).                     *)
(***************************************************************************)
HashNeverAhead ==
    (router["/confighash"] # 0 /\ router[EdgeNode] # 0)
        => Answered(EdgeNode) >= Answered("/confighash")

(***************************************************************************)
(* When nothing is under way every endpoint is served, and the edge-node   *)
(* metrics come from collectors that are registered: no interleaving of    *)
(* reloads with a registration leaves a process that runs without them.    *)
(***************************************************************************)
QuietServesAll ==
    Quiet => /\ \A p \in Paths : router[p] # 0
             /\ Collectors(<<router[EdgeNode], EdgeNode>>) = "registered"

(***************************************************************************)
(* When nothing is under way the edge-node metrics come from the file that *)
(* the last initialization read: a reload takes effect.                    *)
(***************************************************************************)
ReloadTakesEffect ==
    Quiet => router[EdgeNode] # 0 /\ Answered(EdgeNode) = version[Current]

(***************************************************************************)
(* When nothing is under way the hash served at /confighash is that of the *)
(* configuration the edge-node metrics come from ("Register the config     *)
(* hash endpoint with edgenode configmap hash", metrics_exporter.go:135).  *)
(***************************************************************************)
HashIsCurrent ==
    Quiet => /\ router["/confighash"] # 0 /\ router[EdgeNode] # 0
             /\ Answered("/confighash") = Answered(EdgeNode)

(***************************************************************************)
(* A reload that has failed to clean up stops the process, which is then   *)
(* started again, also when the channel is full and the main goroutine is  *)
(* busy.                                                                   *)
(***************************************************************************)
FailedReloadRestarts ==
    (\E h \in Handlers : handler[h] = "sendTerm") ~> main = "exited"

(***************************************************************************)
(* Every reload ends: no handler stays blocked on the channel, even when   *)
(* the main goroutine has stopped reading it.                              *)
(***************************************************************************)
EveryReloadEnds ==
    \A h \in Handlers : []<>(handler[h] = "idle")

(***************************************************************************)
(* The hash is served again and again: no sequence of reloads, signals and *)
(* restarts leaves the config-reloader without an answer for good.         *)
(***************************************************************************)
HashServedAgain == []<>(router["/confighash"] # 0)
=============================================================================
