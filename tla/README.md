# A TLA+ model of the SRE Exporter

This directory holds TLA+ specifications of the SRE Exporter, the configurations
with which TLC checks them on small instances, and theorems about them whose proofs
TLAPS checks. Paths such as `config_reloader.go:209` are files of the repository
(`cmd/config-reloader/config_reloader.go`, `cmd/metrics-exporter/metrics_exporter.go`,
`internal/impl/pipeline_manager.go`, ...).

## 1. The system

One pod of the Deployment runs three containers: the *metrics-exporter*, the
*config-reloader* and an OpenTelemetry Collector.

| Component | State | Operations | Interacts with |
|---|---|---|---|
| config-reloader (`cmd/config-reloader`) | a mutex; everything else is in the ConfigMap | gRPC `InitializeTenant`, `CleanupTenant`; graceful stop | ConfigMap and Pod (Kubernetes API), `/confighash` and `/reload` of the metrics-exporter |
| tenant list (`mimirOrg` in the edge-node configuration) | names joined by a bar | `addTenant`, `removeTenant` | part of the ConfigMap; the kubelet mounts it as a file |
| metrics-exporter main loop (`cmd/metrics-exporter`) | `serverStarted`, channel `done` of capacity 1 | initialize, serve, wait for a signal, shut down | configuration file, pipeline manager, operating system |
| pipeline manager (`internal/impl`) | current router, list of pipelines, a registry for each pipeline | Register..., `CleanUp`, `/reload` handler | main loop (through `done` and through shared memory), Prometheus scrapes |
| configuration (`internal/impl/config.go`, `hash_util.go`) | none | read, hash, normalize labels | both binaries hash the same structure |
| scraping (`internal/scraping`) | previous value and difference of each metric | one scrape a tick | OpenTelemetry Collector; the log |
| query collectors (`internal/metrics`) | the collectors of a pipeline; nothing from scrape to scrape | build from the file, `Collect` at every Prometheus scrape | Mimir (queries), the registry, the endpoint |
| Vault collector (`vault_synth.go`) | the list of instances | `Collect`: find each Pod, ask it for its health | Kubernetes API, Vault |
| config-reloader's end (`main`) | listener, connections, timer, signal context | GracefulStop, Stop, Serve | operating system, calls in flight |
| gRPC interface, colours, mage targets, chart | - | generated code, formatting, tooling, deployment | - |

A caller (the tenant controller of the orchestrator) asks the config-reloader to add
a tenant. The config-reloader patches the ConfigMap, compares the hash of the new
configuration with the one the metrics-exporter serves, and answers OK only if they
agree; else it annotates the Pod, so that the kubelet refreshes the mounted file,
posts `/reload` and answers an error, so that the caller tries again.

### What is hard

* *Concurrency*: gRPC calls run in parallel under one process-local mutex, while the
  ConfigMap is shared by every process; `/reload` handlers run in parallel with each
  other and with the main goroutine, on a router and a list of pipelines that no
  lock protects.
* *Failure*: nine error returns inside one locked function; requests that are given
  up but still take effect; a process that stops between any two steps; a
  `CleanUp` that fails half-way.
* *Ordering*: hashes, files, routes and registries each change at a moment of their
  own, and several generations of them coexist.
* *Limits*: a channel of one signal with blocking senders and a dropping sender; five
  seconds for a graceful end.
* *Configuration*: names, labels and types are joined from a file; what clashes is
  found at registration, at the first sample, or only in one order of replies.

PROJECT.json lists each hazard at its line, with the properties that cover it.

### What makes each component correct

* config-reloader: a call changes its own tenant and no other, at one instant; OK
  means that the container has the configuration; the mutex is always given back.
* tenant list: adding and removing change one tenant, no tenant is listed twice, no
  name is one that the validation refuses.
* main loop and pipeline manager: a reload takes effect; the hash never runs ahead
  of the metrics; after any interleaving every endpoint comes back; nobody blocks
  for good.
* both together: what was answered OK stays in force, and a caller that keeps trying
  is answered OK, whatever the kubelet's delay.
* scraping: the log tells the state of each metric.
* collectors: no reply but a result that is no vector ends the process, whatever labels the
  file gives; a failed query costs the answer nothing else; `up`, `query_samples` and the
  latency tell what is missing; a refusal has a cause in the file or in the replies; the
  documentation names the labels that are exported.
* Vault: a status is one the instance had, or unknown for one that told none; figures,
  statuses and refusals agree.
* shutdown: calls in flight are answered unless force is used, and the process ends.

## 2. Modules

| Module | Models | Kind |
|---|---|---|
| `TenantList` | the `mimirOrg` field and its operations | operators |
| `TenantRegistry` | what the management service promises: an atomic set of tenants | abstract specification |
| `ConfigReloader` | `processTenant` of any number of servers and calls | specification, refines `TenantRegistry` |
| `MetricsExporter` | main loop, signals, pipeline manager, `/reload` handlers | specification, refines `ExporterService` |
| `ExporterService` | what the metrics-exporter promises to the config-reloader: served configurations and reads that are owed | abstract specification |
| `SreExporter` | the pod: `ConfigReloader`, step for step, with `ExporterService`, the kubelet and callers that repeat | composition |
| `ReloaderShutdown` | signal, watcher, timer, GracefulStop, Stop, Serve and the end of main | specification |
| `Scraping` | the scraping goroutine and its log | specification |
| `Collection` | a pipeline: collectors from the file, queries, registry, the answer of the endpoint | specification |
| `VaultStatus` | the Vault collector's scrape of instances that change | specification |
| `ConfigReloader_proofs`, `MetricsExporter_proofs`, `ExporterService_proofs`, `SreExporter_proofs`, `ReloaderShutdown_proofs`, `Scraping_proofs`, `Collection_proofs`, `VaultStatus_proofs` | theorems | proofs |
| `MCConfigReloader`, `MCMetricsExporter`, `MCSreExporter`, `MCReloaderShutdown`, `MCScraping`, `MCCollection`, `MCVaultStatus` | small instances | model checking |

Definitions named "For mutation" or "Mutant" in a comment are faulty variants of the
definition that follows. They are not part of any specification: they serve to show
that a property fails when the code is wrong in that way (PROJECT.json, "mutants").

### TenantList

The code splits a string, changes the list and joins it. A value of the field is
modelled by its list: always nonempty, since `strings.Split` of the empty string is a
list of one empty name (`Blank`). `Stored` is the round trip through Join and Split.
`Blank` as the tenant of a request stands for every name `validateTenantID` refuses,
in particular one with a bar. Everything else in the configuration is constant, and
hashes are taken to be injective, so a list also stands for the hash of the
configuration that holds it.

### ConfigReloader

`configMap` is the list in the ConfigMap, `annotation` the hash on the Pod, `lock[s]`
the mutex of process `s`; `pc[c]`, `req[c]`, `data[c]`, `answer[c]` are what the
goroutine of call `c` keeps: where it is, its request, the list it computed, and the
hash that the container gave it. `Calls` are slots: a slot is used again for another
call after `Finish`. `late` holds patches that were sent and not answered when their
call was given up (cancelled context, end of the process); with `LatePatches` they
may be applied at any later time.

One action for every request to another process and for its answer: `Receive` and
`Refuse` (validation), `Lock`, `GetConfigMap`, `ApplyPatch` and `PatchReturns` (the API
server applies, the answer arrives), `ReadHash`, `Confirm` or `Mismatch`, `GetPod`,
`UpdatePod`, `PostReload` and `ReloadReturns`; `Fail` at every request, with the code
that `processTenant` returns there; `Stop`, the end of a process at any moment. A
return and the deferred `Unlock` are one step (`Return`). The container is outside: it
answers any hash of `Hashes`.

`Registry` maps this state to `TenantRegistry`: the tenants are the members of the
list, and a call has taken effect once its patch is applied or once it has found the
list as it wants it.

### MetricsExporter

`main` is where the main goroutine is, `handler[h]` where the handler of a request to
`/reload` is; a handler slot is used again. `version[g]` is the version of the file
that the g-th `initializePipelineManager` read, `registry[g]` the state of the
collectors of its pipelines ("cleared" once the list of collectors is empty),
`router` says which initialization's route answers each path, `pipelines` is
`manager.pipelines`, `done` the channel.

The main goroutine registers one endpoint a step, on whatever router is current then;
a pipeline's endpoint is followed by the two accesses of the append to
`manager.pipelines` (`ReadPipelines`, `StorePipelines`), which race with the handler's
assignment of nil (`Forget`). `Route` keeps the first route of a path, as gorilla/mux
does. A handler takes: `Dispatch` (the router of that moment), `BeginCleanUp` (the
list it ranges over); for each pipeline `TakeCollectors`, `Unregister` and `Clear`, or
`SkipCleared` where the list of collectors is empty; then `Swap`, `Forget` and `SendHup`.
`range pipeline.collectors` (`pipeline.go:34`) takes its list before anything is
unregistered, so another reload may unregister, clear, swap and return in between:
`UnregisterFails` is what then happens, with nobody else at work perhaps, and `SendTerm`
follows.
Outside: `Sync` (the kubelet replaces the file), `Signal`, `Kill`, `ReadFails`,
`Restart`.

`met` is history: the reloads at work that another one has been at work with. A reload that
is not in it may rely on what it finds (`LoneReloadsCleanUp`).

Abstractions: the collectors of one pipeline are unregistered in one step (of two handlers
that have taken them, the one that is first at the first collector gets them all, and the
other fails there), and each has a metric (a collector without any cannot be unregistered;
`Collection` has that case); the second configuration file (`sre-exporter-orch.json`) is
handled as the first and left out; SIGINT is as SIGTERM; only POST requests to `/reload` are
modelled, as no other request changes anything; data races are interleavings of the single
accesses.

`Service` maps this state to `ExporterService`: the configuration behind a path is the
version read by the initialization whose route answers it, and `owed` counts what will
make the main goroutine read the file again, or end: its own position, the signal in the
channel, and the handlers at work.

### SreExporter

The variables of `ConfigReloader`, of `ExporterService` (`mounted`, `read`, `exported`,
`hash`, `owed`) and of the surroundings: `fetched` (the ConfigMap as the kubelet last saw
it), `posted` (calls whose reload the container has not begun to carry out), `confirmed`
(history). Every action of a call is that of `ConfigReloader`, conjoined with what it does
to the container: `GetHash` reads `hash`, `RequestReload` is `PostReload` with
`Container!Accept`, `Reload` swaps the router (`Container!Withdraw`) before the answer
returns. The routes of `/reload` and `/confighash` come and go at different moments, and
`ExporterService` has only the second: `RequestReload` needs a container that has read a
configuration, and `NotServed` (404) is possible whenever a reload is posted, and for the
hash when none is served. `NotAnswered` is a container that ended before it answered.
`Fetch` and `Mount` are the kubelet's two steps. Patches that land after their call was
given up are left to `ConfigReloader` (`reloader_faults`). A reload that was posted is
carried out although its call is cancelled. As `MetricsExporter` implements
`ExporterService`, what holds here for the container's part holds with the real one in its
place.

### ReloaderShutdown

Variables: `main`, `watcher`, `graceful`, `stop` (how far each goroutine is), `timer`,
`notify` (signals are caught until the context is stopped; then they kill), `call`.
Of the gRPC server only what decides when Serve, GracefulStop and Stop return is
modelled: both close the listener and wait until Serve is out of Accept; GracefulStop
keeps the server's mutex while it waits for handlers, so that Stop waits for it with the
connections closed; the handlers' contexts end with their connections. A call may hang
until then. The shape of this model follows the library's documented behaviour as main
relies on it, and is marked external where no line of the repository stands for it.

### Scraping

`previousValues` and `previousDiffs` are the fields of `ScrapeEventDesc`. `lines`,
`alarm`, `last` and `before` are history: what was logged and sampled. One action,
`ScrapeMetrics`, takes any families the collector may expose: a metric may be missing,
its counter may have started again, it may have another type (the accessors of the
wrong type return 0). A scrape that fails changes nothing and is a stuttering step.
Values are natural numbers; NaN is left out.

### Collection

`Load` is `NewPipeline` with `AddCollectors`: `Built` translates `BuildCollectorsFromConfig`
and `normalizeDestLabels`, `Registers` is the test of the registry whose failure makes
`MustRegister` panic. `Reload` unregisters and loads the file, which may have changed.
`Scrape` copies the collectors; each then sends its queries in the order of its metrics
(`Query`), interleaved with the others, and reports its four figures (`Report`); `Answer`
ends the scrape. A result is a vector of samples or of another type (`OtherType`), on which
the assertion of `querier.go:52` panics: the process is `dead`. A `Load` that the registry
refuses (`refused`) ends the scrape under way as well; a process that stops in good order
(`stopped`) still answers it. Numbers are left out, so a series is its name, kind and label
values; names are sequences of words, as the code joins them by `_` (a word with `_` inside
is the same name as two words, which `FQName` keeps by joining sequences). `Given` and
`Contributions` say, independently of the order of steps, what a scrape has to give. Scrapes
share nothing that changes, so one at a time is modelled.

### VaultStatus

`FindPod`, `ReadHealth` or `HealthFails` for each instance in turn, then `Answer`; `Change`
alters a Pod's health at any moment between. `seen` is history: the healths since the
scrape began. `Mute` stands for a Pod that answers with JSON that holds no health, such as an
error: the HTTP status is not looked at, and `Told` reads it as a health of all FALSE, so it
is a sample, of the status unknown. `Down` is a Pod that does not answer with JSON, and
counts as a warning, `Gone` one that the API server does not know.

## 3. What the runs show

| Run | Instance | Result |
|---|---|---|
| `reloader_one_replica` | 1 server, 2 concurrent calls, 2 tenants, any failure and any restart, no late patches, fairness | the reloader implements `TenantRegistry`; what a call has read stays true; OK is about the ConfigMap as it is; the mutex is held by the call at work and by no other; every call is answered |
| `reloader_faults` | 2 servers, late patches | no tenant is listed twice; OK is answered only on a hash that has the tenant (or lacks it) |
| `reloader_blank_name` | 1 call at a time | *violation*: a list that starts with an empty name |
| `exporter_one_reload` | 1 handler, 3 reloads, 2 changes of the file, a SIGTERM, a kill and a bad file | at rest, the metrics come from the file read last |
| `exporter_concurrent` | 2 handlers, 3 reloads, a change of the file, a SIGTERM, fairness | the hash is never newer than the metrics; at rest all endpoints are served by registered collectors; `CleanUp` fails only for a reload that has met another, and then the process restarts; every handler returns; `/confighash` always comes back; the process implements `ExporterService`, its fairness included |
| `exporter_hash_behind` | 1 handler, 2 reloads | *violation*: the hash of an older configuration beside newer metrics |
| `pod` | 2 callers that repeat, one tenant comes and another goes, 1 fault of any kind, 2 owed reloads, fairness | what was answered OK stays in force, and calls that repeat it or find nothing to do leave the container alone; in the end every answer is OK and the metrics are of the ConfigMap |
| `pod_undone` | the same, a tenant comes and goes again | *violation*: OK is answered while the mounted file is another |
| `shutdown` | 2 calls that may hang, signals at any time, fairness | calls are broken only by force; a signal ends the process |
| `scraping` | a rate, a gauge and an unrecognized type, values 0 to 3 | the log tells the state, lines alternate |
| `collection` | 9 configurations (sound, clashing, refused, empty), every mix of 5 results (one is no vector) and failures, a scrape and a reload, fairness | exported, refused, counted and documented agree; only a result that is no vector kills the process; every other scrape is answered if every query ends |
| `vault_status` | lists of no, one, two and twin instances, 2 scrapes, 2 changes of health, Pods that answer without one | figures, statuses and refusals agree with what the instances were |

### Where the code and what it says disagree

Three runs expect a violation:

* `reloader_blank_name`: removing the last tenant stores an empty field; the next tenant is
  appended behind an empty name, which stays (`|tenant`), although
  `config_reloader.go:306` says that a tenant ID cannot be empty. `NamesCorrect` proves that
  nothing else puts such a name there: while one installed tenant is never cleaned up, all
  names stay valid.
* `exporter_hash_behind`: `metrics_exporter.go:135` says that `/confighash` serves the hash of
  the edge-node configuration. A reload handled between the registration of `/reload` and
  that of `/confighash` leaves the older hash on the new router, where the next
  registration cannot replace it. The config-reloader then sees a mismatch and reloads
  again, so the error heals at its next call (`HashNeverAhead` holds: it never confirms a
  configuration that is not in force). `HashCurrentCorrect` proves that a swap in the middle
  of a registration is needed for it: without one the two always agree at rest.
* `pod_undone`: `config_reloader.go:276` says that the container's hash matches that of the
  updated ConfigMap and that the action completed. Hashes are compared by content: after
  a tenant was initialized and cleaned up, the list is what it was, and so is the hash of a
  container that has not read the file between. The mounted file may still be the one with
  the tenant; a container that starts again before the next mount reads that. In the
  instance `pod`, where no list comes twice, the property holds, and `ConfirmedCorrect` proves
  it wherever no tenant is both initialized and cleaned up.

Two more disagreements show in what holds:

* `RepeatsDisturbNothing`: the comments of both operations (`config_reloader.go:185`, `:191`:
  "then sends reload request to metrics-exporter") and the one before the patch (`:236`: "Skip
  updating ConfigMap if tenant doesn't exist there, but reload metrics exporter anyway") say
  that every call reloads the container. The code does so only where the hashes differ
  (`:254`): a call that finds nothing to do, and one that the container agrees with already,
  return OK without a reload. The property, which holds in `pod` and is proved as
  `RepeatsCorrect`, is the opposite of those comments. What the code does is what protects
  the metrics: a reload withdraws every endpoint for a while.
* `StatusOf`: the description of the Vault metric says "ready:0 , sealed:1 , standby:2"
  (`vault_synth.go:45`), but ready overwrites standby (`:196`), so a standby that is
  initialized, as a working one is, is told as ready, and the fourth status, unknown (-1),
  is not named.

### Limits that the models show without a run of their own

* The type of a result is asserted (`querier.go:52`): a query of the file that yields a
  scalar or a matrix ends the process at its first scrape. `OnlyOtherTypesKill` says that
  nothing else does.
* A Vault instance that answers with an error in JSON counts as a sample, and `up` ("Were
  all the last backend queries successful") stays 1 (`vault_synth.go:186`); only its status,
  unknown, tells it. `StatusesAreTrue` and `FiguresMatchStatuses` say just this much.
* A patch that lands after its call was given up, with one process too, undoes newer tenants
  (`config_reloader.go:349`): what the runs without `reloader_faults` and the theorems with
  `OneWriter` say leaves it out.
* Two config-reloader processes (`replicaCount` above 1, or a rolling update) undo each
  other's tenants: the patch replaces the whole list and carries no `resourceVersion`
  (`config_reloader.go:349`). The theorems about atomicity assume `OneWriter`.
* A SIGHUP that no `/reload` sent registers the new routes behind the old ones, so the old
  configuration stays in force (`metrics_exporter.go:57`). `ReloadCorrect` assumes that there
  is none.
* A signal that comes before `Serve` is called stops the server first; `Serve` then returns
  an error on which main panics (`config_reloader.go:147`). It is the outcome `panicked` of
  `ReloaderShutdown`; no call is lost by it.
* A collector without metrics cannot be unregistered, so every reload of such a
  configuration stops the process (`pipeline.go:35`). It is the outcome `stopped` of
  `Collection`.

### Bounds

* Two calls and two handlers are what the interference needs: every race of the code
  is between two of a kind or between one and the main goroutine. Slots are used
  again, so the number of calls is not bounded; `MaxReloads` bounds requests to
  `/reload` (3: two that overlap and one after them), `MaxVersion` changes of the file
  (1 or 2: older, newer, and one in between), `Mishaps` lets each outside event
  happen once.
* Two tenants: the one of the call and another that must not change. `Hashes` holds
  the installed list, one that a call leaves, and an older one; other hashes only
  cause the same mismatch. With `LatePatches` one tenant suffices for repetition.
* Pod: `MaxFaults` 1 lets any one request fail or process end at any moment; `MaxOwed` 2 lets
  one reload overlap with another. Callers repeat without bound.
* Shutdown: nothing is bounded but the number of calls; one that hangs and one that ends
  are enough for each to be there while the other changes.
* Collection: one scrape at a time and at most one, since scrapes share nothing (the
  bound `MaxScrapes`); the configurations are one of each kind of agreement and clash
  between two names, and results tell two samples apart by a label that the metric has, by
  one it has not, or lack a value.
* Vault: two instances suffice for one to change while the other is visited, two changes
  for a health that goes and comes back, two scrapes for what is left of the first.
* Scraping: values 0 to 3 hold values below, at and above the threshold, and differences
  of either sign.
* `CHECK_DEADLOCK FALSE` is set where the system really may stop: the exporter's runs (with
  no reload and no event left, a process that waits for a signal really waits), the
  shutdown (the process ends), and the scrapes of `collection` and `vault_status` (nobody need
  ask again, and a configuration may be refused). Symmetry is not used.

### Fairness

* Reloader: weak fairness of the steps inside the lock (goroutines are scheduled, and
  every request ends, if only by an error when the client's deadline passes: the code sets
  none, so `EveryCallAnswered` and `PodSettles` rest on callers that have one) and
  strong fairness of `Lock` (a Go mutex hands over to a waiter that has starved for a
  millisecond). None for clients, patches that are late, or stops.
* Exporter: weak fairness of the main goroutine, of the handlers and of the kubelet's
  restart; strong fairness of a blocked send (Go's channels serve senders in the order
  of arrival). None for requests, signals, kills or the kubelet's refresh.
* Pod: in addition that callers repeat a call that was not answered OK (the answers ask for
  it), that the kubelet synchronizes volumes, and that the container carries out what it
  owes, which `ServiceKeptGoing` shows of `MetricsExporter`. `RequestReload` is strongly
  fair: `/reload` may answer 404 at any moment, but it is registered one step before
  `/confighash`, whose hash a call has read to get there, and comes back with every
  registration (`QuietServesAll`), so a caller that keeps trying finds it. None for faults.
* Shutdown: goroutines are scheduled, the timer runs, a cancelled call ends. None for
  signals, and none for the calls themselves, which may hang.
* Collection: weak fairness of `Finish`, the steps of a scrape that wait for nothing outside.
  That queries end is not the code's: it asks Mimir for five seconds (`querier.go:29`), but the
  request has no deadline of its own (`:28`), so a Mimir that keeps a connection and says
  nothing holds the scrape up. `ScrapesAnswered` has it as a premise (`QueriesEnd`). None for
  scrapes and reloads.
* Scraping and Vault: none. `http.Get` and the health request have no time limit there,
  so they may hang (`scrape.go:63`, `vault_synth.go:174`), and no liveness is claimed.

## 4. What is proved

For every value of the constants, under the ASSUMEs of the modules:

* `ConfigReloader_proofs`: of the tenant list, `AddTenantCorrect`, `RemoveTenantCorrect`.
  The recursion of `slices.DeleteFunc` is treated by a least counterexample (`LeastElement`,
  from the well-foundedness of the naturals) instead of induction, whose library theorems
  take an operator as parameter. Of the calls, the inductive invariant `Inv` is the
  conjunction of the types, `MutexGuardsCalls`, `RequestsKnown` (a call at work has an
  accepted request) and `DataAgrees` (after reading, a call carries a list that agrees with
  its request). It gives `TypeCorrect`, `MutexCorrect`, `OkCorrect` (an OK rests on a hash
  that agrees) and, for initial lists without repetition, `TenantsListedOnce`. None of them
  needs a single writer. With `OneWriter` (all calls on one server, no late patch) also
  `SnapshotCorrect`, `OkIsCurrent` and `OneWriterAtomic`, the implementation of
  `TenantRegistry`: then the mutex makes sure that nobody writes between a call's read and
  its return, which is what `MutexGuardsCalls` contributes.
* `MetricsExporter_proofs`: the invariant `Core` adds to the types where the main goroutine
  can be (`Position`), that every pipeline listed anywhere belongs to an initialization
  that has taken place (`ListedKnown`), and that an ended process has no handlers; it
  gives `TypeCorrect`. `HashCorrect` (`HashNeverAhead`) follows from `VersionsOrdered`
  (later initializations read later files) and `HashFollows`: the route of the hash is
  never of a later initialization than that of the metrics, and while the endpoints
  between the two are being registered, a router that has metrics without a hash got
  them from this very initialization. `LoneReloadsCorrect`
  (`LoneReloadsCleanUp`) follows from `Unregistering`, by which collectors that are
  off the registry and still listed belong to a handler that is about to clear them, and
  `MetInv`, by which two handlers at work have met, and one that has taken collectors and met
  nobody finds them registered. `QuietCorrect` (`QuietServesAll`) follows from
  `Served` and `Unbroken`: a path without a route, and a route to collectors that have
  left the registry, always have somebody under way who will mend them; `Unbroken`
  needs that the collectors of an initialization are fresh until its first endpoint is
  registered (`CurrentFresh`). `ReloadCorrect` (`ReloadTakesEffect`) assumes `OneReload`
  (one handler, no SIGHUP from outside); its invariant `Sequential` says that from the
  swap of the router to the next initialization neither the metrics nor `/reload` have
  a route, so that no second reload comes in. `HashCurrentCorrect` (`HashIsCurrent`, which fails
  in `exporter_hash_behind`) has an assumption about the behaviour, `[][SwapsApart]_vars`: no
  handler swaps the router while endpoints are being registered. Then
  (`OneInitialization`) all paths are answered from one initialization, or from the one under
  way up to the endpoint it has reached, or not at all. Nothing is assumed about the number of
  reloads, signals or restarts.
* `Scraping_proofs`: `LogCorrect` and `AlternationCorrect`, from the invariant that the
  values kept are those of the samples really taken (`KeptAreTaken`).
* `ExporterService_proofs`: `ServiceCorrect` (`ServiceKept`), that `MetricsExporter`
  implements `ExporterService`, without further assumptions. Each action maps to one step of
  the service or to none (`StepMaps`), from `Core` and `HashFollows`: a read is a `Read`
  because the router of that moment serves no metrics without a hash, a registration is an
  `Export` or a `PublishHash` because a route that is there already answers first, and
  `owed` moves with the handlers by counting them (`OwedByHandler`).
* `SreExporter_proofs`: first the composition. `PodIsConfigReloader`: each step of the pod
  is a step of `ConfigReloader` or none, so that what is proved there of calls against a
  container that answers anything holds in the pod (`PodCallsAtomic`).
  `PodUsesExporterService`: each step is one of `ExporterService` or none; with
  `ServiceCorrect` the container is the real one. `PodTypeCorrect` (`PodTypeOK`) follows
  from `PodInv`: every list anywhere is in `Hashes` (a set that holds the installed lists
  and is closed under what the calls do, `PodAssumption`), and each posted reload is owed a
  read (`PostedOwed`). `ConfirmedCorrect` (`ConfirmedStaysInForce`) assumes `OneWriter` and
  `OneWay` (no tenant is both initialized and cleaned up; `pod_undone` is what happens
  without). Then lists are ordered by the requests they show as done (`Older`), every patch
  makes the ConfigMap newer (`LaggingWrite`), and along the way ConfigMap, `fetched`,
  `mounted`, `read`, `exported`, `hash` no list is newer than the one before it (`Lagging`).
  A hash that is the ConfigMap's therefore pins every list between to the same
  (`HashSettles`), and `ConfirmedSettled` says that this is so from the moment a call holds
  such a hash until the ConfigMap changes; in between nobody else writes, by the single
  writer's mutex. `RepeatsCorrect` (`RepeatsDisturbNothing`) has the same assumptions: a
  call that works while the pod is settled reads a hash equal to its list
  (`ConfirmedQuiet`). `NamesCorrect` assumes `Stays` (an installed tenant that no request
  cleans up) and no single writer.
* `ReloaderShutdown_proofs`: `TypeCorrect`, `CallsBrokenCorrect`. The invariant says where
  the calls can be while each goroutine is where it is: no call before Serve, none comes
  after GracefulStop drains, none runs after it returns, and without the timer main does not
  get past Serve before that.
* `Collection_proofs`: `Shape` (types, what a collector has sent and reported, and that the
  collectors that are served are built from the file, with as many destination labels as
  labels) gives `TypeCorrect`, `OtherTypesCorrect` and `DocumentationCorrect`. `Gathered`
  says that the series so far are what `Contributed` gives, step by step; at the end
  `Contributed` is `Contributions`, hence `NothingElseMissing`. `ClashTells` says that the
  registry's one check after the other amounts to a conflict between two contributions, in
  whichever order they came, hence `RefusalCorrect`; it needs that the series of one query
  are of one name and kind, where a conflict shows in their number (`OneQuery`, from the
  finite-set theorems), and that the four figures of a collector differ (`FiguresDiffer`).
  `FiguresSoFar` counts the samples exported against `query_samples` and bounds the latency
  from both sides, and with `ClashTells` gives `FiguresCorrect`.
* `VaultStatus_proofs`: the invariant `Inv` states every property for the instances visited
  so far (`Counted`, `UpTells`, `AllReported`, `SeriesCounted`, `ReportedTrue`, ...) and
  gives `TypeCorrect`, `FiguresCorrect`, `StatusesCorrect`, `SealedCorrect` and
  `RefusalCorrect`.

Only model-checked: liveness, which rests on fairness and is out of the prover's reach
(`EveryCallAnswered`, `FailedReloadRestarts`, `EveryReloadEnds`, `HashServedAgain`,
`ServiceKeptGoing`, `PodSettles`, `SignalEndsProcess`, `ScrapesAnswered`). Every safety
property of a passing run is also a theorem, under the assumptions named above; the
properties of the three runs that expect a violation are theorems under the assumption that
excludes the case.

## 5. Not modelled, and why

* The gRPC interface (`api/config-reloader/*.pb.go`) is generated code without state of its
  own; requests and answers appear as `Receive`, `Refuse` and `Finish`.
* The Mimir client (the `X-Scope-OrgID` header, the Prometheus API) and the flags of the
  command line have no state; what they give is a constant or a reply of the models.
* Log colours are formatting. Of `magefiles` only the labels of the generated
  documentation are compared with the code (`ExportedAsDocumented`); the rest lays out
  Markdown and calls tools.
* The Helm chart is declarative; what it fixes (two configuration files, the number of
  replicas, a mandatory `mimirOrg`, a ConfigMap mounted as a directory) is in the constants
  and initial states.
* Hazards without a property are listed in PROJECT.json with the reason: requests without a
  time limit (`scrape.go:63`, `vault_synth.go:174`), and a collector without metrics or with
  the descriptors of another one (`pipeline.go:35`, `:29`), which are in the model as
  consequences of the file.
