----------------------- MODULE ExporterService_proofs -----------------------
(***************************************************************************)
(* MetricsExporter implements ExporterService, for any number of handlers, *)
(* reloads and changes of the file: every step of the process is a step of *)
(* the service, or changes nothing of it.                                  *)
(***************************************************************************)
EXTENDS MetricsExporter_proofs, FiniteSetTheorems

\* The parts of ReadsOwed.
Mine == IF main \in {"read", "shutdown"} THEN 1 ELSE 0
Busy == {h \in Handlers : handler[h] # "idle"}

LEMMA OwedParts == main # "exited" => ReadsOwed = Mine + Len(done) + Cardinality(Busy)
BY DEF ReadsOwed, Mine, Busy

LEMMA BusyFinite == IsFiniteSet(Busy) /\ Cardinality(Busy) \in Nat
<1>1. IsFiniteSet(Busy)
  BY ExporterAssumption, FS_Subset DEF Busy
<1> QED
  BY <1>1, FS_CardinalityType

LEMMA DoneCases ==
    ASSUME Core
    PROVE  done = <<>> \/ done = <<"HUP">> \/ done = <<"TERM">>
<1>1. done \in Seq(Signals) /\ Len(done) <= 1
  BY DEF Core, TypeOK
<1>2. CASE Len(done) = 1
  <2>1. done[1] \in Signals
    BY <1>1, <1>2
  <2>2. done = <<done[1]>>
    BY <1>1, <1>2
  <2> QED
    BY <2>1, <2>2 DEF Signals
<1>3. CASE Len(done) = 0
  BY <1>1, <1>3
<1>4. Len(done) = 0 \/ Len(done) = 1
  <2>1. Len(done) \in Nat
    BY <1>1
  <2> QED
    BY <1>1, <2>1
<1> QED
  BY <1>2, <1>3, <1>4

\* Nothing of what the process has read or serves changes.
LEMMA ServedKept ==
    ASSUME UNCHANGED <<version, router>>, main # "exited", main' # "exited"
    PROVE  UNCHANGED <<LastRead, ServedAt(EdgeNode), ServedAt("/confighash")>>
BY DEF LastRead, ServedAt, Current

\* A version that is served is one that the file has had.
LEMMA ServedVersions ==
    ASSUME Core, NEW path \in Paths, main # "exited", router[path] # 0
    PROVE  /\ router[path] \in 1..Len(version) /\ version[router[path]] \in 0..MaxVersion
           /\ ServedAt(path) = version[router[path]] /\ ServedAt(path) # NoVersion
<1>1. router[path] \in 1..Len(version) /\ version \in Seq(0..MaxVersion)
  BY DEF Core, TypeOK
<1>2. version[router[path]] \in 0..MaxVersion
  BY <1>1, ElementType
<1> QED
  BY <1>1, <1>2, ExporterAssumption DEF ServedAt, NoVersion

-----------------------------------------------------------------------------
LEMMA ServiceInit == Init => Service!Init
<1> SUFFICES ASSUME Init PROVE Service!Init
    OBVIOUS
<1>1. /\ mounted = 0 /\ main = "read" /\ version = <<>> /\ done = <<>>
      /\ router[EdgeNode] = 0 /\ router["/confighash"] = 0
      /\ \A h \in Handlers : handler[h] = "idle"
  BY PathFacts DEF Init, EmptyRouter
<1>2. Busy = {} /\ Cardinality({}) = 0
  BY <1>1, FS_EmptySet DEF Busy
<1>3. ReadsOwed = 1
  BY <1>1, <1>2, OwedParts DEF Mine
<1>4. LastRead = NoVersion /\ ServedAt(EdgeNode) = NoVersion /\ ServedAt("/confighash") = NoVersion
  BY <1>1 DEF LastRead, ServedAt
<1> QED
  BY <1>1, <1>3, <1>4, ExporterAssumption DEF Service!Init

-----------------------------------------------------------------------------
(***************************************************************************)
(* The main goroutine.                                                     *)
(***************************************************************************)
LEMMA ReadConfigMaps == ASSUME Core, HashFollows, ReadConfig PROVE Service!Read
<1>1. /\ main = "read" /\ main' = "register" /\ version' = Append(version, mounted)
      /\ UNCHANGED <<router, done, handler, mounted>>
  BY DEF ReadConfig, handlerVars, outside
<1>2. /\ version \in Seq(0..MaxVersion) /\ Len(version) \in Nat
      /\ router \in [Paths -> 0..Len(version)]
  BY DEF Core, TypeOK
<1>3. ReadsOwed = 1 + Len(done) + Cardinality(Busy) /\ ReadsOwed' = Len(done) + Cardinality(Busy)
  <2>1. Busy' = Busy /\ Mine = 1 /\ Mine' = 0
    BY <1>1 DEF Busy, Mine
  <2>2. ReadsOwed = Mine + Len(done) + Cardinality(Busy)
    BY <1>1, OwedParts
  <2>3. ReadsOwed' = Mine' + Len(done') + Cardinality(Busy')
    BY <1>1 DEF ReadsOwed, Mine, Busy
  <2>4. Len(done) \in Nat /\ Cardinality(Busy) \in Nat
    BY BusyFinite DEF Core, TypeOK
  <2> QED
    BY <1>1, <2>1, <2>2, <2>3, <2>4
<1>4. Len(done) \in Nat /\ Cardinality(Busy) \in Nat
  BY BusyFinite DEF Core, TypeOK
<1>5. LastRead' = mounted
  <2>1. Len(version') = Len(version) + 1 /\ version'[Len(version) + 1] = mounted
    BY <1>1, <1>2
  <2> QED
    BY <1>1, <1>2, <2>1 DEF LastRead, Current
<1>6. ASSUME NEW path \in Paths PROVE ServedAt(path)' = ServedAt(path)
  <2>1. router[path] # 0 => version'[router[path]] = version[router[path]]
    BY <1>1, <1>2
  <2> QED
    BY <1>1, <2>1 DEF ServedAt
<1>7. ServedAt(EdgeNode) = NoVersion \/ ServedAt("/confighash") # NoVersion
  <2>1. router[EdgeNode] # 0 => router["/confighash"] # 0
    BY <1>1 DEF HashFollows, PastFirst
  <2>2. router[EdgeNode] = 0 => ServedAt(EdgeNode) = NoVersion
    BY DEF ServedAt
  <2> QED
    BY <1>1, <2>1, <2>2, ServedVersions, PathFacts
<1> QED
  BY <1>1, <1>3, <1>4, <1>5, <1>6, <1>7, PathFacts DEF Service!Read

LEMMA RegisterMaps ==
    ASSUME Core, HashFollows, Register
    PROVE  Service!Export \/ Service!PublishHash \/ UNCHANGED Service!vars
<1>1. /\ main = "register" /\ next \in 1..5 /\ Len(version) > 0
      /\ UNCHANGED <<version, done, handler, mounted>>
      /\ router' = Route(router, Endpoints[next], Len(version))
      /\ main' \in {"append", "start", "register"}
  BY DEF Register, Current, Core, Position, handlerVars, outside
<1>2. /\ version \in Seq(0..MaxVersion) /\ Len(version) \in Nat
      /\ router \in [Paths -> 0..Len(version)]
  BY DEF Core, TypeOK
<1>3. /\ Endpoints[next] \in Paths
      /\ Endpoints[next] = EdgeNode <=> next = 1
      /\ Endpoints[next] = "/confighash" <=> next = 5
  BY <1>1, EndpointFacts
<1>4. \A p \in Paths : router'[p] = IF p = Endpoints[next] /\ router[p] = 0 THEN Len(version)
                                    ELSE router[p]
  BY <1>1, <1>2, <1>3 DEF Route
<1>5. ReadsOwed' = ReadsOwed
  BY <1>1 DEF ReadsOwed
<1>6. LastRead = version[Len(version)] /\ LastRead' = LastRead /\ LastRead # NoVersion
  <2>1. version[Len(version)] \in 0..MaxVersion
    <3>1. Len(version) \in 1..Len(version)
      BY <1>1, <1>2
    <3> QED
      BY <1>2, <3>1, ElementType
  <2> QED
    BY <1>1, <1>2, <2>1, ExporterAssumption DEF LastRead, Current, NoVersion
<1>7. ASSUME NEW p \in Paths
      PROVE  /\ (p # Endpoints[next] \/ router[p] # 0) => ServedAt(p)' = ServedAt(p)
             /\ (p = Endpoints[next] /\ router[p] = 0)
                   => ServedAt(p) = NoVersion /\ ServedAt(p)' = version[Len(version)]
  BY <1>1, <1>2, <1>4 DEF ServedAt
<1>8. CASE next = 1 /\ router[EdgeNode] = 0
  <2>1. /\ ServedAt(EdgeNode) = NoVersion /\ ServedAt(EdgeNode)' = LastRead
        /\ ServedAt("/confighash")' = ServedAt("/confighash")
    BY <1>3, <1>6, <1>7, <1>8, PathFacts
  <2> QED
    BY <1>1, <1>5, <1>6, <2>1 DEF Service!Export
<1>9. CASE next = 5 /\ router["/confighash"] = 0
  <2>1. /\ ServedAt("/confighash") = NoVersion /\ ServedAt("/confighash")' = LastRead
        /\ ServedAt(EdgeNode)' = ServedAt(EdgeNode)
    BY <1>3, <1>6, <1>7, <1>9, PathFacts
  <2>2. ServedAt(EdgeNode) \in {NoVersion, LastRead}
    <3>1. router[EdgeNode] # 0 => router[EdgeNode] = Len(version)
      BY <1>1, <1>9 DEF HashFollows
    <3> QED
      BY <1>1, <1>6, <3>1 DEF ServedAt
  <2> QED
    BY <1>1, <1>5, <1>6, <2>1, <2>2 DEF Service!PublishHash
<1>10. CASE ~ (next = 1 /\ router[EdgeNode] = 0) /\ ~ (next = 5 /\ router["/confighash"] = 0)
  <2>1. ServedAt(EdgeNode)' = ServedAt(EdgeNode) /\ ServedAt("/confighash")' = ServedAt("/confighash")
    BY <1>3, <1>7, <1>10, PathFacts
  <2> QED
    BY <1>1, <1>5, <1>6, <2>1 DEF Service!vars
<1> QED
  BY <1>8, <1>9, <1>10

LEMMA MainMaps ==
    ASSUME Core, ReadPipelines \/ StorePipelines \/ Start \/ TakeSignal
    PROVE  UNCHANGED Service!vars
<1>1. /\ main \notin {"exited", "read", "shutdown"} /\ main' # "exited"
      /\ UNCHANGED <<version, router, handler, mounted>>
  BY DEF ReadPipelines, StorePipelines, Start, TakeSignal, handlerVars, outside
<1>2. Mine' + Len(done') = Len(done) /\ Mine = 0
  <2>1. CASE TakeSignal
    <3>1. done # <<>> /\ done' = Tail(done) /\ main' \in {"read", "shutdown"}
      BY <2>1 DEF TakeSignal
    <3>2. Len(done) = 1 /\ Len(Tail(done)) = 0
      BY <3>1, DoneCases
    <3> QED
      BY <1>1, <3>1, <3>2 DEF Mine
  <2>2. CASE ReadPipelines \/ StorePipelines \/ Start
    <3>1. done' = done /\ main' \notin {"read", "shutdown"} /\ Len(done) \in Nat
      BY <2>2 DEF ReadPipelines, StorePipelines, Start, Core, TypeOK
    <3> QED
      BY <1>1, <3>1 DEF Mine
  <2> QED
    BY <2>1, <2>2
<1>3. ReadsOwed' = ReadsOwed
  <2>1. Busy' = Busy
    BY <1>1 DEF Busy
  <2>2. ReadsOwed' = Mine' + Len(done') + Cardinality(Busy')
    BY <1>1 DEF ReadsOwed, Mine, Busy
  <2>3. ReadsOwed = Mine + Len(done) + Cardinality(Busy)
    BY <1>1, OwedParts
  <2>4. Len(done) \in Nat
    BY DEF Core, TypeOK
  <2> QED
    BY <1>2, <2>1, <2>2, <2>3, <2>4, BusyFinite
<1> QED
  BY <1>1, <1>3, ServedKept DEF Service!vars

-----------------------------------------------------------------------------
(***************************************************************************)
(* The handlers, the surroundings and the end of the process.              *)
(***************************************************************************)
Steps == {"idle", "dispatched", "unregister", "taken", "clear", "forget", "sendHup",
          "sendTerm"}

\* What one handler's step does to the number of reads that are owed.
LEMMA OwedByHandler ==
    ASSUME Core, NEW h \in Handlers, NEW step \in Steps, Move(h, step),
           main # "exited", main' = main
    PROVE  /\ handler[h] # "idle" /\ step # "idle" /\ done' = done
                 => ReadsOwed' = ReadsOwed /\ ReadsOwed > 0
           /\ handler[h] = "idle" /\ step # "idle" /\ done' = done => ReadsOwed' = ReadsOwed + 1
           /\ handler[h] # "idle" /\ step = "idle" /\ Len(done) = 0 /\ Len(done') = 1
                 => ReadsOwed' = ReadsOwed
<1>1. /\ ReadsOwed = Mine + Len(done) + Cardinality(Busy)
      /\ ReadsOwed' = Mine + Len(done') + Cardinality(Busy')
      /\ Mine \in {0, 1}
  BY DEF ReadsOwed, Mine, Busy
<1>2. IsFiniteSet(Busy) /\ Cardinality(Busy) \in Nat /\ Len(done) \in Nat
  BY BusyFinite DEF Core, TypeOK
<1>3. \A k \in Handlers : handler'[k] = IF k = h THEN step ELSE handler[k]
  BY DEF Move, Core, TypeOK
<1>4. CASE handler[h] # "idle" /\ step # "idle"
  <2>1. Busy' = Busy /\ h \in Busy
    BY <1>3, <1>4 DEF Busy
  <2>2. Cardinality(Busy) > 0
    BY <1>2, <2>1, FS_EmptySet
  <2> QED
    BY <1>1, <1>2, <1>4, <2>1, <2>2
<1>5. CASE handler[h] = "idle" /\ step # "idle"
  <2>1. Busy' = Busy \cup {h} /\ h \notin Busy
    BY <1>3, <1>5 DEF Busy
  <2>2. Cardinality(Busy') = Cardinality(Busy) + 1
    BY <1>2, <2>1, FS_AddElement
  <2> QED
    BY <1>1, <1>2, <1>5, <2>2
<1>6. CASE handler[h] # "idle" /\ step = "idle"
  <2>1. Busy' = Busy \ {h} /\ h \in Busy
    BY <1>3, <1>6 DEF Busy
  <2>2. Cardinality(Busy') = Cardinality(Busy) - 1
    BY <1>2, <2>1, FS_RemoveElement
  <2>3. ASSUME Len(done) = 0, Len(done') = 1
        PROVE  ReadsOwed' = ReadsOwed
    BY <1>1, <1>2, <2>2, <2>3
  <2> QED
    BY <1>6, <2>3
<1>7. CASE handler[h] = "idle" /\ step = "idle"
  BY <1>1, <1>2, <1>7
<1> QED
  BY <1>4, <1>5, <1>6, <1>7

LEMMA DispatchMaps == ASSUME Core, NEW h \in Handlers, Dispatch(h) PROVE Service!Accept
<1>1. /\ handler[h] = "idle" /\ Move(h, "dispatched") /\ main # "exited"
      /\ UNCHANGED <<main, version, router, done, mounted>>
  BY DEF Dispatch, Serving, mainVars
<1>2. ReadsOwed' = ReadsOwed + 1
  BY <1>1, OwedByHandler DEF Steps
<1> QED
  BY <1>1, <1>2, ServedKept DEF Service!Accept

LEMMA HandlerMaps ==
    ASSUME Core, NEW h \in Handlers, Handle(h) \/ Send(h)
    PROVE  Service!Withdraw \/ UNCHANGED Service!vars
<1>1. handler[h] # "idle" /\ main # "exited"
  <2>1. handler[h] # "idle"
    BY DEF Handle, Send, BeginCleanUp, TakeCollectors, SkipCleared, Unregister,
           UnregisterFails, Clear, Swap, Forget, SendHup, SendTerm
  <2> QED
    BY <2>1 DEF Core, ExitedIsIdle
<1>2. UNCHANGED <<main, version, mounted>>
  BY DEF Handle, Send, BeginCleanUp, TakeCollectors, SkipCleared, Unregister,
         UnregisterFails, Clear, Swap, Forget, SendHup, SendTerm, mainVars, outside
<1>3. CASE \/ BeginCleanUp(h) \/ TakeCollectors(h) \/ Unregister(h) \/ UnregisterFails(h)
           \/ Clear(h) \/ Forget(h)
  <2>1. PICK step \in Steps : step # "idle" /\ Move(h, step) /\ UNCHANGED <<router, done>>
    BY <1>3 DEF BeginCleanUp, TakeCollectors, Unregister, UnregisterFails, Clear, Forget, Steps
  <2>2. ReadsOwed' = ReadsOwed
    BY <1>1, <1>2, <2>1, OwedByHandler DEF Steps
  <2> QED
    BY <1>1, <1>2, <2>1, <2>2, ServedKept DEF Service!vars
<1>4. CASE SkipCleared(h)
  <2>1. UNCHANGED <<router, done, handler>>
    BY <1>4 DEF SkipCleared
  <2>2. ReadsOwed' = ReadsOwed
    BY <1>2, <2>1 DEF ReadsOwed
  <2> QED
    BY <1>1, <1>2, <2>1, <2>2, ServedKept DEF Service!vars
<1>5. CASE Swap(h)
  <2>1. Move(h, "forget") /\ UNCHANGED done /\ router' = EmptyRouter
    BY <1>5 DEF Swap
  <2>2. ReadsOwed' = ReadsOwed /\ ReadsOwed > 0
    BY <1>1, <1>2, <2>1, OwedByHandler DEF Steps
  <2>3. ServedAt(EdgeNode)' = NoVersion /\ ServedAt("/confighash")' = NoVersion
    BY <2>1, PathFacts DEF ServedAt, EmptyRouter, NoVersion
  <2>4. LastRead' = LastRead
    BY <1>2 DEF LastRead, Current
  <2> QED
    BY <1>2, <2>2, <2>3, <2>4 DEF Service!Withdraw
<1>6. CASE Send(h)
  <2>1. /\ Move(h, "idle") /\ UNCHANGED router
        /\ Len(done) = 0 /\ Len(done') = 1
    BY <1>6 DEF Send, SendHup, SendTerm
  <2>2. ReadsOwed' = ReadsOwed
    BY <1>1, <1>2, <2>1, OwedByHandler DEF Steps
  <2> QED
    BY <1>1, <1>2, <2>1, <2>2, ServedKept DEF Service!vars
<1> QED
  BY <1>3, <1>4, <1>5, <1>6 DEF Handle

LEMMA DeathMaps == ASSUME Shutdown \/ Kill \/ ReadFails PROVE Service!End
<1>1. main' = "exited" /\ mounted' = mounted
  BY DEF Shutdown, Kill, ReadFails, Die
<1> QED
  BY <1>1 DEF Service!End, LastRead, ServedAt, ReadsOwed

LEMMA RestartMaps == ASSUME Core, Restart PROVE UNCHANGED Service!vars
<1>1. /\ main = "exited" /\ main' = "read" /\ version' = <<>> /\ done' = <<>>
      /\ router' = EmptyRouter /\ UNCHANGED <<handler, mounted>>
      /\ \A h \in Handlers : handler[h] = "idle"
  BY DEF Restart, handlerVars, outside, Core, ExitedIsIdle
<1>2. ReadsOwed = 1 /\ ReadsOwed' = 1
  <2>1. Busy' = {} /\ Mine' = 1
    BY <1>1 DEF Busy, Mine
  <2>2. Cardinality({}) = 0
    BY FS_EmptySet
  <2>3. Len(done') = 0
    BY <1>1
  <2>4. ReadsOwed = 1
    BY <1>1 DEF ReadsOwed
  <2>5. ReadsOwed' = Mine' + Len(done') + Cardinality(Busy')
    BY <1>1 DEF ReadsOwed, Mine, Busy
  <2> QED
    BY <2>1, <2>2, <2>3, <2>4, <2>5
<1>3. LastRead = NoVersion /\ LastRead' = NoVersion
  BY <1>1 DEF LastRead
<1>4. /\ UNCHANGED <<ServedAt(EdgeNode), ServedAt("/confighash")>>
  BY <1>1, PathFacts DEF ServedAt, EmptyRouter, NoVersion
<1> QED
  BY <1>1, <1>2, <1>3, <1>4 DEF Service!vars

LEMMA OutsideMaps ==
    ASSUME Core, Sync \/ \E sig \in Signals : Signal(sig)
    PROVE  Service!Sync \/ Service!Accept \/ UNCHANGED Service!vars
<1>1. CASE Sync
  <2>1. UNCHANGED <<main, version, router, done, handler>> /\ mounted' \in 0..MaxVersion
    BY <1>1, ExporterAssumption DEF Sync, mainVars, handlerVars, Core, TypeOK
  <2>2. UNCHANGED <<LastRead, ServedAt(EdgeNode), ServedAt("/confighash"), ReadsOwed>>
    BY <2>1 DEF LastRead, ServedAt, ReadsOwed, Current
  <2> QED
    BY <2>1, <2>2 DEF Service!Sync
<1>2. ASSUME NEW sig \in Signals, Signal(sig)
      PROVE  Service!Accept \/ UNCHANGED Service!vars
  <2>1. /\ UNCHANGED <<main, version, router, handler, mounted>> /\ main # "exited"
        /\ done' = IF done = <<>> THEN <<sig>> ELSE done
    BY <1>2 DEF Signal, mainVars, handlerVars
  <2>2. UNCHANGED <<LastRead, ServedAt(EdgeNode), ServedAt("/confighash")>>
    BY <2>1, ServedKept
  <2>3. CASE done = <<>>
    <3>1. Len(done) = 0 /\ Len(done') = 1
      BY <2>1, <2>3
    <3>2. /\ ReadsOwed = Mine + Len(done) + Cardinality(Busy)
          /\ ReadsOwed' = Mine + Len(done') + Cardinality(Busy)
          /\ Mine \in {0, 1}
      BY <2>1 DEF ReadsOwed, Mine, Busy
    <3>3. ReadsOwed' = ReadsOwed + 1
      BY <3>1, <3>2, BusyFinite
    <3> QED
      BY <2>1, <2>2, <3>3 DEF Service!Accept
  <2>4. CASE done # <<>>
    <3>1. ReadsOwed' = ReadsOwed
      BY <2>1, <2>4 DEF ReadsOwed
    <3> QED
      BY <2>1, <2>2, <3>1 DEF Service!vars
  <2> QED
    BY <2>3, <2>4
<1> QED
  BY <1>1, <1>2

LEMMA StutterMaps == UNCHANGED vars => UNCHANGED Service!vars
BY DEF vars, mainVars, handlerVars, outside, Service!vars, LastRead, ServedAt, ReadsOwed, Current

LEMMA StepMaps == Core /\ HashFollows /\ [Next]_vars => [Service!Next]_(Service!vars)
<1> SUFFICES ASSUME Core, HashFollows, [Next]_vars PROVE [Service!Next]_(Service!vars)
    OBVIOUS
<1>1. CASE ReadConfig
  BY <1>1, ReadConfigMaps DEF Service!Next
<1>2. CASE Register
  BY <1>2, RegisterMaps DEF Service!Next
<1>3. CASE ReadPipelines \/ StorePipelines \/ Start \/ TakeSignal
  BY <1>3, MainMaps
<1>4. ASSUME NEW h \in Handlers, Dispatch(h) \/ Handle(h) \/ Send(h)
      PROVE  [Service!Next]_(Service!vars)
  BY <1>4, DispatchMaps, HandlerMaps DEF Service!Next
<1>5. CASE Shutdown \/ Kill \/ ReadFails
  BY <1>5, DeathMaps DEF Service!Next
<1>6. CASE Restart
  BY <1>6, RestartMaps
<1>7. CASE Sync \/ \E sig \in Signals : Signal(sig)
  BY <1>7, OutsideMaps DEF Service!Next
<1>8. CASE UNCHANGED vars
  BY <1>8, StutterMaps
<1> QED
  BY <1>1, <1>2, <1>3, <1>4, <1>5, <1>6, <1>7, <1>8 DEF Next, Main

(***************************************************************************)
(* The exporter keeps its promise to the config-reloader: whatever reloads *)
(* overlap and whenever the process is stopped, each change of what it     *)
(* serves is a step of ExporterService.                                    *)
(***************************************************************************)
THEOREM ServiceCorrect == Spec => ServiceKept
<1>1. Spec => [](Core /\ HashFollows)
  BY HashInitially, FollowsStep, CoreAlways, PTL DEF Spec, HashInv
<1> QED
  BY <1>1, ServiceInit, StepMaps, PTL DEF Spec, ServiceKept, Service!Spec
=============================================================================
