----------------------- MODULE MetricsExporter_proofs -----------------------
(***************************************************************************)
(* Theorems of MetricsExporter, for any number of handlers, reloads and    *)
(* changes of the file.                                                    *)
(***************************************************************************)
EXTENDS MetricsExporter, TLAPS

-----------------------------------------------------------------------------
(***************************************************************************)
(* Facts about the endpoints and about sequences.                          *)
(***************************************************************************)
LEMMA EndpointFacts ==
    /\ Endpoints[1] = EdgeNode /\ Endpoints[2] = "vault" /\ Endpoints[3] = "/"
    /\ Endpoints[4] = "/reload" /\ Endpoints[5] = "/confighash"
    /\ \A i \in 1..5 : Endpoints[i] \in Paths
    /\ \A p \in Paths : \E i \in 1..5 : p = Endpoints[i]
    /\ \A i \in 1..5 : Endpoints[i] \in Namespaces <=> i \in {1, 2}
    /\ \A i, j \in 1..5 : Endpoints[i] = Endpoints[j] => i = j
<1>1. /\ Endpoints[1] = EdgeNode /\ Endpoints[2] = "vault" /\ Endpoints[3] = "/"
      /\ Endpoints[4] = "/reload" /\ Endpoints[5] = "/confighash"
  BY DEF Endpoints
<1>2. \A i \in 1..5 : i = 1 \/ i = 2 \/ i = 3 \/ i = 4 \/ i = 5
  OBVIOUS
<1>3. /\ \A i \in 1..5 : Endpoints[i] \in Paths
      /\ \A p \in Paths : \E i \in 1..5 : p = Endpoints[i]
  BY DEF Paths
<1>4. \A i \in 1..5 : Endpoints[i] \in Namespaces <=> i \in {1, 2}
  BY <1>1, <1>2 DEF Namespaces, EdgeNode
<1>5. \A i, j \in 1..5 : Endpoints[i] = Endpoints[j] => i = j
  BY <1>1, <1>2 DEF EdgeNode
<1> QED
  BY <1>1, <1>3, <1>4, <1>5

LEMMA EmptySeq == \A S : <<>> \in Seq(S)
OBVIOUS

LEMMA HeadAndTail ==
    ASSUME NEW S, NEW s \in Seq(S), s # <<>>
    PROVE  Head(s) \in S /\ Tail(s) \in Seq(S) /\ Len(Tail(s)) = Len(s) - 1
OBVIOUS

LEMMA ElementType ==
    ASSUME NEW S, NEW s \in Seq(S), NEW i \in 1..Len(s)
    PROVE  s[i] \in S
OBVIOUS

LEMMA SeqMonotone ==
    ASSUME NEW S, NEW T, S \subseteq T, NEW s \in Seq(S)
    PROVE  s \in Seq(T)
<1>1. Len(s) \in Nat /\ s \in [1..Len(s) -> S]
  OBVIOUS
<1>2. s \in [1..Len(s) -> T]
  BY <1>1
<1> QED
  BY <1>1, <1>2

-----------------------------------------------------------------------------
(***************************************************************************)
(* The types, where the main goroutine is, what may be listed, and that    *)
(* nothing runs in a process that has exited.                              *)
(***************************************************************************)
Position ==
    /\ main = "register" => next \in 1..5
    /\ main \in {"append", "store"} => next \in {2, 3}
    /\ main \in {"register", "append", "store"} => Len(version) > 0

\* An initialization that has just read the configuration has listed nothing.
AboutToRegister == main = "register" /\ next = 1

Listable == (1..(IF AboutToRegister THEN Len(version) - 1 ELSE Len(version))) \X Namespaces

ListedKnown ==
    /\ pipelines \in Seq(Listable)
    /\ listed \in Seq(Listable)
    /\ \A h \in Handlers : todo[h] \in Seq(Listable)
    /\ \A h \in Handlers : handler[h] \in {"taken", "clear"} => todo[h] # <<>>

ExitedIsIdle ==
    main = "exited" => \A h \in Handlers : handler[h] = "idle" /\ todo[h] = <<>>

Core == TypeOK /\ Position /\ ListedKnown /\ ExitedIsIdle

LEMMA CoreInitially == Init => Core
<1> SUFFICES ASSUME Init PROVE Core
  OBVIOUS
<1>1. TypeOK
  <2>1. /\ mounted \in 0..MaxVersion /\ reloads \in 0..MaxReloads
        /\ next \in 1..6 /\ mishaps \in SUBSET Mishaps
        /\ main \in {"read", "register", "append", "store", "start", "wait", "shutdown", "exited"}
    BY ExporterAssumption DEF Init
  <2>6. started \in BOOLEAN
    BY DEF Init
  <2>2. /\ listed \in Seq(Pipelines) /\ pipelines \in Seq(Pipelines)
        /\ todo \in [Handlers -> Seq(Pipelines)] /\ met \subseteq Handlers
        /\ version \in Seq(0..MaxVersion) /\ done \in Seq(Signals) /\ Len(done) <= 1
    BY DEF Init
  <2>3. /\ registry \in Seq([Namespaces -> {"registered", "unregistered", "cleared"}])
        /\ Len(registry) = Len(version)
    BY DEF Init
  <2>4. router \in [Paths -> 0..Len(version)]
    BY DEF Init, EmptyRouter
  <2>5. handler \in [Handlers -> {"idle", "dispatched", "unregister", "taken", "clear",
                                  "forget", "sendHup", "sendTerm"}]
    BY DEF Init
  <2> QED
    BY <2>1, <2>2, <2>3, <2>4, <2>5, <2>6 DEF TypeOK
<1>2. Position /\ ListedKnown /\ ExitedIsIdle
  BY DEF Init, Position, ListedKnown, ExitedIsIdle
<1> QED
  BY <1>1, <1>2 DEF Core

\* What is listable stays so while the main goroutine does not start over.
LEMMA ListableGrows ==
    ASSUME Core, Len(version') = Len(version), AboutToRegister' => AboutToRegister
    PROVE  Listable \subseteq Listable'
BY DEF Core, TypeOK, Listable

\* Steps of the main goroutine and of the surroundings, except for
\* initializations and restarts: the handlers and the lists stay.
LEMMA ListedKnownKept ==
    ASSUME Core, Len(version') = Len(version), AboutToRegister' => AboutToRegister,
           UNCHANGED <<pipelines, listed, handler, todo>>
    PROVE  ListedKnown'
<1>1. Listable \subseteq Listable'
  BY ListableGrows
<1>2. \A s \in Seq(Listable) : s \in Seq(Listable')
  BY <1>1, SeqMonotone
<1>3. /\ pipelines \in Seq(Listable) /\ listed \in Seq(Listable)
      /\ \A h \in Handlers : todo[h] \in Seq(Listable)
      /\ \A h \in Handlers : handler[h] \in {"taken", "clear"} => todo[h] # <<>>
  BY DEF Core, ListedKnown
<1> QED
  BY <1>2, <1>3 DEF ListedKnown

\* Steps of a handler: it moves, and what it has listed stays or shrinks.
LEMMA ListableSame ==
    ASSUME UNCHANGED <<main, next, version>>
    PROVE  Listable' = Listable
BY DEF Listable, AboutToRegister

\* Steps that change no more than where a handler is, what it has still to do,
\* the state of collectors, the routes, the list of pipelines and the channel.
LEMMA HandlerCore ==
    ASSUME Core, NEW h \in Handlers, main # "exited",
           UNCHANGED mainVars, UNCHANGED <<mounted, mishaps>>,
           reloads' \in 0..MaxReloads,
           registry' \in Seq([Namespaces -> {"registered", "unregistered", "cleared"}]),
           Len(registry') = Len(registry),
           pipelines' \in {pipelines, <<>>},
           router' \in {router, EmptyRouter},
           done' \in Seq(Signals), Len(done') <= 1,
           NEW step \in {"idle", "dispatched", "unregister", "taken", "clear",
                         "forget", "sendHup", "sendTerm"},
           Move(h, step) \/ (handler' = [handler EXCEPT ![h] = step] /\ met' = met),
           NEW left \in Seq(Listable), todo' = [todo EXCEPT ![h] = left],
           step \in {"taken", "clear"} => left # <<>>
    PROVE  Core'
<1>1. UNCHANGED <<main, started, next, listed, version>>
  BY DEF mainVars
<1>2. Listable' = Listable
  BY <1>1, ListableSame
<1>3. \A s \in Seq(Listable) : s \in Seq(Pipelines)
  <2>1. Listable \subseteq Pipelines
    BY DEF Listable, Pipelines, Core, TypeOK
  <2> QED
    BY <2>1, SeqMonotone
<1>4. TypeOK'
  <2>1. /\ mounted' \in 0..MaxVersion /\ reloads' \in 0..MaxReloads
        /\ next' \in 1..6 /\ mishaps' \in SUBSET Mishaps
        /\ main' \in {"read", "register", "append", "store", "start", "wait", "shutdown", "exited"}
    BY <1>1 DEF Core, TypeOK
  <2>2. started' \in BOOLEAN
    BY <1>1 DEF Core, TypeOK
  <2>3. /\ listed' \in Seq(Pipelines) /\ version' \in Seq(0..MaxVersion)
        /\ Len(registry') = Len(version')
    BY <1>1 DEF Core, TypeOK
  <2>4. pipelines' \in Seq(Pipelines)
    BY EmptySeq DEF Core, TypeOK
  <2>5. todo' \in [Handlers -> Seq(Pipelines)]
    BY <1>3 DEF Core, TypeOK
  <2>6. router' \in [Paths -> 0..Len(version')]
    BY <1>1 DEF Core, TypeOK, EmptyRouter
  <2>7. handler' \in [Handlers -> {"idle", "dispatched", "unregister", "taken", "clear",
                                   "forget", "sendHup", "sendTerm"}]
    BY DEF Core, TypeOK, Move
  <2>8. met' \subseteq Handlers
    BY DEF Core, TypeOK, Move, Meet
  <2> QED
    BY <2>1, <2>2, <2>3, <2>4, <2>5, <2>6, <2>7, <2>8 DEF TypeOK
<1>5. Position'
  BY <1>1 DEF Core, Position
<1>6. ListedKnown'
  <2>1. pipelines' \in Seq(Listable) /\ listed' \in Seq(Listable)
    BY <1>1, EmptySeq DEF Core, ListedKnown
  <2>2. ASSUME NEW k \in Handlers
        PROVE  todo'[k] \in Seq(Listable) /\ (handler'[k] \in {"taken", "clear"} => todo'[k] # <<>>)
    <3>1. CASE k = h
      BY <3>1 DEF Core, TypeOK, Move
    <3>2. CASE k # h
      BY <3>2 DEF Core, TypeOK, ListedKnown, Move
    <3> QED
      BY <3>1, <3>2
  <2> QED
    BY <1>2, <2>1, <2>2 DEF ListedKnown
<1>7. ExitedIsIdle'
  BY <1>1 DEF ExitedIsIdle
<1> QED
  BY <1>4, <1>5, <1>6, <1>7 DEF Core

\* The end of the process.
LEMMA DieCore ==
    ASSUME Core, Die, reloads' = reloads, mishaps' \in SUBSET Mishaps
    PROVE  Core'
<1>1. /\ main' = "exited"
      /\ handler' = [h \in Handlers |-> "idle"] /\ todo' = [h \in Handlers |-> <<>>]
      /\ UNCHANGED <<mounted, started, next, listed, version, registry, pipelines, router, done>>
  BY DEF Die
<1>2. started' \in BOOLEAN
  BY <1>1 DEF Core, TypeOK
<1>3. TypeOK'
  <2>1. /\ handler' \in [Handlers -> {"idle", "dispatched", "unregister", "taken", "clear",
                                       "forget", "sendHup", "sendTerm"}]
        /\ todo' \in [Handlers -> Seq(Pipelines)]
    BY <1>1
  <2>2. met' \subseteq Handlers
    BY DEF Die, Meet
  <2> QED
    BY <1>1, <1>2, <2>1, <2>2 DEF Core, TypeOK
<1>4. Position' /\ ExitedIsIdle'
  BY <1>1 DEF Position, ExitedIsIdle
<1>5. ListedKnown'
  <2>1. Listable \subseteq Listable'
    BY <1>1, ListableGrows DEF AboutToRegister
  <2>2. \A s \in Seq(Listable) : s \in Seq(Listable')
    BY <2>1, SeqMonotone
  <2> QED
    BY <1>1, <2>2 DEF Core, ListedKnown
<1> QED
  BY <1>3, <1>4, <1>5 DEF Core

CollectorStates == {"registered", "unregistered", "cleared"}

\* What SetCollectors does to a listed pipeline's collectors, and to no other's.
LEMMA SetCollectorsEffect ==
    ASSUME Core, NEW p \in Listable, NEW state \in CollectorStates, SetCollectors(p, state)
    PROVE  /\ registry' \in Seq([Namespaces -> CollectorStates])
           /\ Len(registry') = Len(registry)
           /\ \A g \in 1..Len(registry), n \in Namespaces :
                 registry'[g][n] = IF p = <<g, n>> THEN state ELSE registry[g][n]
<1>1. /\ registry \in Seq([Namespaces -> CollectorStates])
      /\ Len(registry) = Len(version) /\ Len(version) \in Nat
  BY DEF Core, TypeOK, CollectorStates
<1>2. /\ p[1] \in 1..Len(registry) /\ p[2] \in Namespaces /\ p = <<p[1], p[2]>>
  BY <1>1 DEF Listable
<1>3. registry' = [registry EXCEPT ![p[1]] = [registry[p[1]] EXCEPT ![p[2]] = state]]
  BY <1>1, <1>2 DEF SetCollectors
<1>4. registry[p[1]] \in [Namespaces -> CollectorStates]
  BY <1>1, <1>2
<1>5. [registry[p[1]] EXCEPT ![p[2]] = state] \in [Namespaces -> CollectorStates]
  BY <1>4
<1>6. /\ registry' \in Seq([Namespaces -> CollectorStates])
      /\ Len(registry') = Len(registry)
  BY <1>1, <1>2, <1>3, <1>5
<1>7. ASSUME NEW g \in 1..Len(registry), NEW n \in Namespaces
      PROVE  registry'[g][n] = IF p = <<g, n>> THEN state ELSE registry[g][n]
  <2>1. registry[g] \in [Namespaces -> CollectorStates]
    BY <1>1
  <2>2. CASE g = p[1]
    <3>1. registry'[g] = [registry[p[1]] EXCEPT ![p[2]] = state]
      BY <1>1, <1>3, <2>2
    <3>2. registry'[g][n] = IF n = p[2] THEN state ELSE registry[g][n]
      BY <1>4, <2>2, <3>1
    <3>3. p = <<g, n>> <=> n = p[2]
      BY <1>2, <2>2
    <3> QED
      BY <3>2, <3>3
  <2>3. CASE g # p[1]
    BY <1>1, <1>3, <2>3
  <2> QED
    BY <2>2, <2>3
<1> QED
  BY <1>6, <1>7

LEMMA ReadConfigCore == Core /\ ReadConfig => Core'
<1> SUFFICES ASSUME Core, ReadConfig PROVE Core'
  OBVIOUS
<1>1. /\ main = "read" /\ main' = "register" /\ next' = 1
      /\ version' = Append(version, mounted)
      /\ registry' = Append(registry, [n \in Namespaces |-> "registered"])
      /\ UNCHANGED <<started, listed, pipelines, router, done, handler, todo, met,
                     mounted, reloads, mishaps>>
  BY DEF ReadConfig, handlerVars, outside
<1>2. /\ version \in Seq(0..MaxVersion) /\ mounted \in 0..MaxVersion /\ Len(version) \in Nat
      /\ registry \in Seq([Namespaces -> CollectorStates]) /\ Len(registry) = Len(version)
  BY DEF Core, TypeOK, CollectorStates
<1>3. /\ version' \in Seq(0..MaxVersion) /\ Len(version') = Len(version) + 1
  BY <1>1, <1>2
<1>4. /\ registry' \in Seq([Namespaces -> CollectorStates])
      /\ Len(registry') = Len(version')
  <2>1. [n \in Namespaces |-> "registered"] \in [Namespaces -> CollectorStates]
    BY DEF CollectorStates
  <2> QED
    BY <1>1, <1>2, <1>3, <2>1
<1>5. TypeOK'
  <2>1. router' \in [Paths -> 0..Len(version')]
    BY <1>1, <1>2, <1>3 DEF Core, TypeOK
  <2>2. started' \in BOOLEAN
    BY <1>1 DEF Core, TypeOK
  <2>3. /\ mounted' \in 0..MaxVersion /\ reloads' \in 0..MaxReloads
        /\ next' \in 1..6 /\ mishaps' \in SUBSET Mishaps
        /\ listed' \in Seq(Pipelines) /\ pipelines' \in Seq(Pipelines)
        /\ done' \in Seq(Signals) /\ Len(done') <= 1
        /\ handler' \in [Handlers -> {"idle", "dispatched", "unregister", "taken", "clear",
                                      "forget", "sendHup", "sendTerm"}]
        /\ todo' \in [Handlers -> Seq(Pipelines)] /\ met' \subseteq Handlers
    BY <1>1 DEF Core, TypeOK
  <2>4. main' \in {"read", "register", "append", "store", "start", "wait", "shutdown", "exited"}
    BY <1>1
  <2> QED
    BY <1>3, <1>4, <2>1, <2>2, <2>3, <2>4 DEF TypeOK, CollectorStates
<1>6. Position' /\ ExitedIsIdle'
  BY <1>1, <1>2, <1>3 DEF Position, ExitedIsIdle
<1>7. ListedKnown'
  <2>1. Listable' = Listable
    BY <1>1, <1>2, <1>3 DEF Listable, AboutToRegister
  <2> QED
    BY <1>1, <2>1 DEF Core, ListedKnown
<1> QED
  BY <1>5, <1>6, <1>7 DEF Core

\* Registering a route for the current initialization.
LEMMA RouteType ==
    ASSUME Core, NEW path \in Paths
    PROVE  Route(router, path, Current) \in [Paths -> 0..Len(version)]
BY DEF Core, TypeOK, Route, Current

LEMMA RegisterCore == Core /\ Register => Core'
<1> SUFFICES ASSUME Core, Register PROVE Core'
  OBVIOUS
<1>1. /\ main = "register" /\ next' = next + 1
      /\ router' = Route(router, Endpoints[next], Current)
      /\ main' = IF Endpoints[next] \in Namespaces THEN "append"
                 ELSE IF next = 5 THEN "start" ELSE "register"
      /\ UNCHANGED <<started, listed, version, registry, pipelines, done, handler, todo, met,
                     mounted, reloads, mishaps>>
  BY DEF Register, handlerVars, outside
<1>2. next \in 1..5 /\ Len(version) > 0
  BY <1>1 DEF Core, Position
<1>3. Endpoints[next] \in Paths /\ (Endpoints[next] \in Namespaces <=> next \in {1, 2})
  BY <1>2, EndpointFacts
<1>4. main' \in {"append", "start", "register"}
  BY <1>1
<1>5. TypeOK'
  <2>1. router' \in [Paths -> 0..Len(version')]
    BY <1>1, <1>3, RouteType
  <2>2. started' \in BOOLEAN
    BY <1>1 DEF Core, TypeOK
  <2> QED
    BY <1>1, <1>2, <1>4, <2>1, <2>2 DEF Core, TypeOK
<1>6. Position' /\ ExitedIsIdle'
  BY <1>1, <1>2, <1>3, <1>4 DEF Position, ExitedIsIdle
<1>7. ListedKnown'
  BY <1>1, <1>2, ListedKnownKept DEF AboutToRegister
<1> QED
  BY <1>5, <1>6, <1>7 DEF Core

LEMMA AppendCore == Core /\ (ReadPipelines \/ StorePipelines) => Core'
<1> SUFFICES ASSUME Core, ReadPipelines \/ StorePipelines PROVE Core'
  OBVIOUS
<1>1. CASE ReadPipelines
  <2>1. /\ main = "append" /\ main' = "store"
        /\ listed' = Append(pipelines, <<Len(version), Endpoints[next - 1]>>)
        /\ UNCHANGED <<started, next, version, registry, pipelines, router, done, handler, todo, met,
                       mounted, reloads, mishaps>>
    BY <1>1 DEF ReadPipelines, handlerVars, outside, Current
  <2>2. next \in {2, 3} /\ Len(version) > 0 /\ Len(version) \in Nat
    BY <2>1 DEF Core, Position, TypeOK
  <2>3. next - 1 \in 1..5 /\ next - 1 \in {1, 2}
    BY <2>2
  <2>4. Endpoints[next - 1] \in Namespaces
    BY <2>3, EndpointFacts
  <2>5. <<Len(version), Endpoints[next - 1]>> \in Listable
    BY <2>1, <2>2, <2>4 DEF Listable, AboutToRegister
  <2>6. Listable' = Listable
    BY <2>1 DEF Listable, AboutToRegister
  <2>7. Listable \subseteq Pipelines
    BY DEF Listable, Pipelines, Core, TypeOK
  <2>8. listed' \in Seq(Listable) /\ listed' \in Seq(Pipelines)
    BY <2>1, <2>5, <2>7 DEF Core, ListedKnown, TypeOK
  <2>9. started' \in BOOLEAN
    BY <2>1 DEF Core, TypeOK
  <2>10. TypeOK'
    BY <2>1, <2>8, <2>9 DEF Core, TypeOK
  <2>11. Position' /\ ExitedIsIdle' /\ ListedKnown'
    BY <2>1, <2>2, <2>6, <2>8 DEF Core, Position, ExitedIsIdle, ListedKnown
  <2> QED
    BY <2>10, <2>11 DEF Core
<1>2. CASE StorePipelines
  <2>1. /\ main = "store" /\ main' = "register" /\ pipelines' = listed /\ listed' = <<>>
        /\ UNCHANGED <<started, next, version, registry, router, done, handler, todo, met,
                       mounted, reloads, mishaps>>
    BY <1>2 DEF StorePipelines, handlerVars, outside
  <2>2. next \in {2, 3} /\ Len(version) > 0
    BY <2>1 DEF Core, Position
  <2>3. Listable' = Listable
    BY <2>1, <2>2 DEF Listable, AboutToRegister
  <2>4. started' \in BOOLEAN
    BY <2>1 DEF Core, TypeOK
  <2>5. TypeOK'
    BY <2>1, <2>4, EmptySeq DEF Core, TypeOK
  <2>6. Position' /\ ExitedIsIdle' /\ ListedKnown'
    BY <2>1, <2>2, <2>3, EmptySeq DEF Core, Position, ExitedIsIdle, ListedKnown
  <2> QED
    BY <2>5, <2>6 DEF Core
<1> QED
  BY <1>1, <1>2

LEMMA HandleCore == ASSUME Core, NEW h \in Handlers, Handle(h) PROVE Core'
<1>1. /\ registry \in Seq([Namespaces -> CollectorStates])
      /\ done \in Seq(Signals) /\ Len(done) <= 1 /\ reloads \in 0..MaxReloads
      /\ todo \in [Handlers -> Seq(Pipelines)]
      /\ pipelines \in Seq(Listable)
      /\ todo[h] \in Seq(Listable)
      /\ handler[h] # "idle" => main # "exited"
      /\ handler[h] \in {"taken", "clear"} => todo[h] # <<>>
  BY DEF Core, TypeOK, CollectorStates, ListedKnown, ExitedIsIdle
<1>2. todo[h] # <<>> => Head(todo[h]) \in Listable /\ Tail(todo[h]) \in Seq(Listable)
  BY <1>1, HeadAndTail
<1>3. todo = [todo EXCEPT ![h] = todo[h]]
  BY <1>1
<1>4. CASE BeginCleanUp(h)
  BY <1>1, <1>4, HandlerCore DEF BeginCleanUp, CollectorStates, outside
<1>5. CASE Unregister(h)
  <2>1. registry' \in Seq([Namespaces -> CollectorStates]) /\ Len(registry') = Len(registry)
    BY <1>1, <1>2, <1>5, SetCollectorsEffect DEF Unregister, CollectorStates
  <2> QED
    BY <1>1, <1>3, <1>5, <2>1, HandlerCore DEF Unregister, CollectorStates, outside
<1>6. CASE Clear(h)
  <2>1. registry' \in Seq([Namespaces -> CollectorStates]) /\ Len(registry') = Len(registry)
    BY <1>1, <1>2, <1>6, SetCollectorsEffect DEF Clear, CollectorStates
  <2>2. todo' = [todo EXCEPT ![h] = Tail(todo[h])]
    BY <1>6 DEF Clear
  <2> QED
    BY <1>1, <1>2, <1>6, <2>1, <2>2, HandlerCore DEF Clear, CollectorStates, outside
<1>7. CASE SkipCleared(h)
  <2>1. todo' = [todo EXCEPT ![h] = Tail(todo[h])]
    BY <1>7 DEF SkipCleared
  <2>2. handler' = [handler EXCEPT ![h] = "unregister"] /\ met' = met
    BY <1>7 DEF SkipCleared, Core, TypeOK
  <2> QED
    BY <1>1, <1>2, <1>7, <2>1, <2>2, HandlerCore DEF SkipCleared, CollectorStates, outside
<1>8. CASE UnregisterFails(h)
  BY <1>1, <1>8, EmptySeq, HandlerCore DEF UnregisterFails, CollectorStates, outside
<1>9. CASE Swap(h)
  BY <1>1, <1>3, <1>9, HandlerCore DEF Swap, CollectorStates, outside
<1>10. CASE Forget(h)
  BY <1>1, <1>3, <1>10, HandlerCore DEF Forget, CollectorStates, outside
<1>11. CASE TakeCollectors(h)
  BY <1>1, <1>3, <1>11, HandlerCore DEF TakeCollectors, CollectorStates, outside
<1> QED
  BY <1>4, <1>5, <1>6, <1>7, <1>8, <1>9, <1>10, <1>11 DEF Handle

LEMMA SendCore == ASSUME Core, NEW h \in Handlers, Send(h) PROVE Core'
<1>1. /\ registry \in Seq([Namespaces -> CollectorStates]) /\ reloads \in 0..MaxReloads
      /\ todo \in [Handlers -> Seq(Pipelines)] /\ todo[h] \in Seq(Listable)
      /\ handler[h] # "idle" => main # "exited"
  BY DEF Core, TypeOK, CollectorStates, ListedKnown, ExitedIsIdle
<1>2. todo = [todo EXCEPT ![h] = todo[h]]
  BY <1>1
<1>3. \A sig \in Signals : <<sig>> \in Seq(Signals) /\ Len(<<sig>>) <= 1
  OBVIOUS
<1>4. /\ Move(h, "idle") /\ main # "exited" /\ done' \in Seq(Signals) /\ Len(done') <= 1
      /\ UNCHANGED <<mainVars, registry, pipelines, router, todo, outside>>
  BY <1>1, <1>3 DEF Send, SendHup, SendTerm, Signals
<1> QED
  BY <1>1, <1>2, <1>4, HandlerCore DEF CollectorStates, outside

LEMMA DispatchCore == ASSUME Core, NEW h \in Handlers, Dispatch(h) PROVE Core'
<1>1. /\ registry \in Seq([Namespaces -> CollectorStates])
      /\ done \in Seq(Signals) /\ Len(done) <= 1
      /\ reloads \in 0..MaxReloads /\ MaxReloads \in Nat
      /\ todo \in [Handlers -> Seq(Pipelines)] /\ todo[h] \in Seq(Listable)
  BY ExporterAssumption DEF Core, TypeOK, CollectorStates, ListedKnown
<1>2. todo = [todo EXCEPT ![h] = todo[h]] /\ reloads' \in 0..MaxReloads /\ main # "exited"
  BY <1>1 DEF Dispatch, Serving
<1> QED
  BY <1>1, <1>2, HandlerCore DEF Dispatch, CollectorStates

\* Start, TakeSignal, Sync and Signal change the main goroutine, the channel and
\* what is outside.
LEMMA OtherCore ==
    ASSUME Core,
           Start \/ TakeSignal \/ Sync \/ \E sig \in Signals : Signal(sig)
    PROVE  Core'
<1>1. /\ UNCHANGED <<next, listed, version, registry, pipelines, router, handler, todo, met,
                    reloads>>
      /\ mishaps' \in SUBSET Mishaps /\ mounted' \in 0..MaxVersion
  <2>1. mounted \in 0..MaxVersion /\ MaxVersion \in Nat /\ mishaps \in SUBSET Mishaps
    BY ExporterAssumption DEF Core, TypeOK
  <2>2. CASE Start
    BY <2>1, <2>2 DEF Start, handlerVars, outside
  <2>3. CASE TakeSignal
    BY <2>1, <2>3 DEF TakeSignal, handlerVars, outside
  <2>4. CASE Sync
    BY <2>1, <2>4 DEF Sync, mainVars, handlerVars
  <2>5. CASE \E sig \in Signals : Signal(sig)
    BY <2>1, <2>5 DEF Signal, mainVars, handlerVars
  <2> QED
    BY <2>2, <2>3, <2>4, <2>5
<1>2. started' \in BOOLEAN
  BY DEF Start, TakeSignal, Sync, Signal, mainVars, Core, TypeOK
<1>3. \/ main' = main
      \/ main # "exited" /\ main' \in {"wait", "read", "shutdown"}
  BY DEF Start, TakeSignal, Sync, Signal, mainVars
<1>4. done' \in Seq(Signals) /\ Len(done') <= 1
  <2>1. done \in Seq(Signals) /\ Len(done) <= 1
    BY DEF Core, TypeOK
  <2>2. CASE TakeSignal
    BY <2>1, <2>2, HeadAndTail DEF TakeSignal
  <2>3. CASE \E sig \in Signals : Signal(sig)
    BY <2>1, <2>3 DEF Signal
  <2>4. CASE Start \/ Sync
    BY <2>1, <2>4 DEF Start, Sync
  <2> QED
    BY <2>2, <2>3, <2>4
<1>5. TypeOK'
  BY <1>1, <1>2, <1>3, <1>4 DEF Core, TypeOK
<1>6. Position' /\ ExitedIsIdle'
  BY <1>1, <1>3 DEF Core, Position, ExitedIsIdle
<1>7. ListedKnown'
  BY <1>1, <1>3, ListedKnownKept DEF AboutToRegister
<1> QED
  BY <1>5, <1>6, <1>7 DEF Core

LEMMA RestartCore == Core /\ Restart => Core'
<1> SUFFICES ASSUME Core, Restart PROVE Core'
  OBVIOUS
<1>1. /\ main = "exited" /\ main' = "read" /\ started' = FALSE /\ next' = 1 /\ listed' = <<>>
      /\ version' = <<>> /\ registry' = <<>> /\ pipelines' = <<>>
      /\ router' = EmptyRouter /\ done' = <<>>
      /\ UNCHANGED <<handler, todo, met, mounted, reloads, mishaps>>
  BY DEF Restart, handlerVars, outside
<1>2. started' \in BOOLEAN
  BY <1>1
<1>3. router' \in [Paths -> 0..Len(version')]
  BY <1>1 DEF EmptyRouter
<1>4. TypeOK'
  BY <1>1, <1>2, <1>3, EmptySeq DEF Core, TypeOK
<1>5. Position' /\ ExitedIsIdle'
  BY <1>1 DEF Position, ExitedIsIdle
<1>6. \A h \in Handlers : todo'[h] = <<>> /\ handler'[h] = "idle"
  BY <1>1 DEF Core, ExitedIsIdle
<1>7. ListedKnown'
  BY <1>1, <1>6, EmptySeq DEF ListedKnown
<1> QED
  BY <1>4, <1>5, <1>7 DEF Core

LEMMA DeathCore == Core /\ (Shutdown \/ Kill \/ ReadFails) => Core'
<1>1. Core /\ (Shutdown \/ Kill \/ ReadFails)
        => Die /\ reloads' = reloads /\ mishaps' \in SUBSET Mishaps
  BY DEF Shutdown, Kill, ReadFails, Core, TypeOK
<1> QED
  BY <1>1, DieCore

LEMMA CoreUnchanged == Core /\ UNCHANGED vars => Core'
<1> SUFFICES ASSUME Core, UNCHANGED vars PROVE Core'
  OBVIOUS
<1>1. UNCHANGED <<mounted, main, started, next, listed, version, registry, pipelines, router,
                 done, handler, todo, met, reloads, mishaps>>
  BY DEF vars, mainVars, handlerVars, outside
<1>2. started' \in BOOLEAN
  BY <1>1 DEF Core, TypeOK
<1>3. Listable' = Listable
  BY <1>1 DEF Listable, AboutToRegister
<1> QED
  BY <1>1, <1>2, <1>3 DEF Core, TypeOK, Position, ListedKnown, ExitedIsIdle

LEMMA CoreStep == Core /\ [Next]_vars => Core'
BY ReadConfigCore, RegisterCore, AppendCore, HandleCore, SendCore, DispatchCore, OtherCore,
   RestartCore, DeathCore, CoreUnchanged
   DEF Next, Main

LEMMA CoreAlways == Spec => []Core
BY CoreInitially, CoreStep, PTL DEF Spec

(***************************************************************************)
(* The variables keep their types; in particular the channel never holds   *)
(* more than one signal.                                                   *)
(***************************************************************************)
THEOREM TypeCorrect == Spec => []TypeOK
<1>1. Core => TypeOK
  BY DEF Core
<1> QED
  BY CoreAlways, <1>1, PTL

-----------------------------------------------------------------------------
(***************************************************************************)
(* The hash is not ahead of the metrics.  Later initializations read later *)
(* versions, and on one router /confighash is registered last: where it is *)
(* missing beside the edge-node metrics, these are from the initialization *)
(* under way.                                                              *)
(***************************************************************************)
VersionsOrdered ==
    /\ \A i, j \in 1..Len(version) : i <= j => version[i] <= version[j]
    /\ \A i \in 1..Len(version) : version[i] <= mounted

PastFirst == main \in {"append", "store"} \/ (main = "register" /\ next > 1)

HashFollows ==
    router[EdgeNode] # 0 =>
        /\ router["/confighash"] # 0 => router["/confighash"] <= router[EdgeNode]
        /\ router["/confighash"] = 0 /\ main # "exited"
              => router[EdgeNode] = Len(version) /\ PastFirst

HashInv == VersionsOrdered /\ HashFollows

LEMMA PathFacts ==
    EdgeNode \in Paths /\ "/confighash" \in Paths /\ EdgeNode # "/confighash"
BY EndpointFacts DEF EdgeNode

\* What the other steps leave as it is.
LEMMA RouterKept ==
    ASSUME Core, [Next]_vars, ~ReadConfig, ~Register, ~Restart,
           ~ \E h \in Handlers : Swap(h)
    PROVE  /\ UNCHANGED <<version, router>>
           /\ mounted' = mounted \/ mounted' = mounted + 1
           /\ main' = "exited" \/ (main # "exited" /\ (PastFirst => PastFirst'))
<1>1. CASE ReadPipelines
  BY <1>1 DEF ReadPipelines, outside, PastFirst
<1>2. CASE StorePipelines
  <2>1. next \in {2, 3}
    BY <1>2 DEF StorePipelines, Core, Position
  <2> QED
    BY <1>2, <2>1 DEF StorePipelines, outside, PastFirst
<1>3. CASE Start \/ TakeSignal
  BY <1>3 DEF Start, TakeSignal, outside, PastFirst
<1>4. CASE Shutdown \/ Kill \/ ReadFails
  BY <1>4 DEF Shutdown, Kill, ReadFails, Die
<1>5. ASSUME NEW h \in Handlers, Dispatch(h)
      PROVE  /\ UNCHANGED <<version, router, mounted, main, next>> /\ main # "exited"
  BY <1>5 DEF Dispatch, Serving, mainVars
<1>6. ASSUME NEW h \in Handlers, Handle(h) \/ Send(h)
      PROVE  /\ UNCHANGED <<version, router, mounted, main, next>> /\ main # "exited"
  <2>1. handler[h] # "idle"
    BY <1>6 DEF Handle, Send, BeginCleanUp, Unregister, Clear, TakeCollectors, SkipCleared,
                UnregisterFails, Swap, Forget, SendHup, SendTerm
  <2>2. main # "exited"
    BY <2>1 DEF Core, ExitedIsIdle
  <2> QED
    BY <1>6, <2>2 DEF Handle, Send, BeginCleanUp, Unregister, Clear, TakeCollectors, SkipCleared,
                UnregisterFails, Forget, SendHup, SendTerm, mainVars, outside
<1>7. CASE Sync \/ \E sig \in Signals : Signal(sig)
  BY <1>7 DEF Sync, Signal, mainVars, PastFirst
<1>8. CASE UNCHANGED vars
  BY <1>8 DEF vars, mainVars, outside, PastFirst
<1> QED
  BY <1>1, <1>2, <1>3, <1>4, <1>5, <1>6, <1>7, <1>8 DEF Next, Main, PastFirst

LEMMA HashInitially == Init => HashInv
BY PathFacts DEF Init, HashInv, VersionsOrdered, HashFollows, EmptyRouter

LEMMA VersionTypes ==
    ASSUME Core
    PROVE  /\ version \in Seq(0..MaxVersion) /\ Len(version) \in Nat /\ mounted \in Nat
           /\ \A i \in 1..Len(version) : version[i] \in Nat
<1>1. version \in Seq(0..MaxVersion) /\ mounted \in 0..MaxVersion
  BY DEF Core, TypeOK
<1>2. \A v \in 0..MaxVersion : v \in Nat
  BY ExporterAssumption
<1>3. \A i \in 1..Len(version) : version[i] \in 0..MaxVersion
  BY <1>1, ElementType
<1> QED
  BY <1>1, <1>2, <1>3

LEMMA OrderedStep == Core /\ VersionsOrdered /\ [Next]_vars => VersionsOrdered'
<1> SUFFICES ASSUME Core, VersionsOrdered, [Next]_vars PROVE VersionsOrdered'
  OBVIOUS
<1>1. /\ version \in Seq(0..MaxVersion) /\ Len(version) \in Nat /\ mounted \in Nat
      /\ \A i \in 1..Len(version) : version[i] \in Nat
  BY VersionTypes
<1>2. CASE ReadConfig
  <2>1. version' = Append(version, mounted) /\ mounted' = mounted
    BY <1>2 DEF ReadConfig, outside
  <2>2. Len(version') = Len(version) + 1
    BY <1>1, <2>1
  <2>3. \A i \in 1..Len(version') :
           version'[i] = IF i = Len(version) + 1 THEN mounted ELSE version[i]
    BY <1>1, <2>1
  <2> QED
    BY <1>1, <2>1, <2>2, <2>3 DEF VersionsOrdered
<1>3. CASE Register \/ \E h \in Handlers : Swap(h)
  BY <1>3 DEF Register, Swap, mainVars, outside, VersionsOrdered
<1>4. CASE Restart
  BY <1>4 DEF Restart, VersionsOrdered
<1>5. CASE ~(ReadConfig \/ Register \/ Restart \/ \E h \in Handlers : Swap(h))
  <2>1. UNCHANGED version /\ (mounted' = mounted \/ mounted' = mounted + 1)
    BY <1>5, RouterKept
  <2> QED
    BY <1>1, <2>1 DEF VersionsOrdered
<1> QED
  BY <1>2, <1>3, <1>4, <1>5

LEMMA FollowsStep == Core /\ HashFollows /\ [Next]_vars => HashFollows'
<1> SUFFICES ASSUME Core, HashFollows, [Next]_vars PROVE HashFollows'
  OBVIOUS
<1>1. router \in [Paths -> 0..Len(version)] /\ Len(version) \in Nat
  BY DEF Core, TypeOK
<1>2. CASE ReadConfig
  BY <1>2 DEF ReadConfig, HashFollows, PastFirst
<1>3. CASE Register
  <2>1. /\ main = "register" /\ next \in 1..5 /\ Len(version) > 0
        /\ version' = version /\ next' = next + 1
        /\ router' = Route(router, Endpoints[next], Len(version))
        /\ main' = IF Endpoints[next] \in Namespaces THEN "append"
                   ELSE IF next = 5 THEN "start" ELSE "register"
    BY <1>3 DEF Register, Current, Core, Position
  <2>2. /\ Endpoints[next] \in Paths
        /\ Endpoints[next] \in Namespaces <=> next \in {1, 2}
        /\ Endpoints[next] = EdgeNode <=> next = 1
        /\ Endpoints[next] = "/confighash" <=> next = 5
    BY <2>1, EndpointFacts
  <2>3. \A p \in Paths : router'[p] = IF p = Endpoints[next] /\ router[p] = 0 THEN Len(version)
                                      ELSE router[p]
    BY <1>1, <2>1, <2>2 DEF Route
  <2>4. CASE next = 1
    <3>1. main' = "append"
      BY <2>1, <2>2, <2>4
    <3>2. router'["/confighash"] = router["/confighash"]
      BY <2>2, <2>3, <2>4, PathFacts
    <3>3. router[EdgeNode] # 0 => router["/confighash"] # 0
      BY <2>1, <2>4 DEF HashFollows, PastFirst
    <3>4. router["/confighash"] <= Len(version)
      BY <1>1, PathFacts
    <3>5. router'[EdgeNode] = IF router[EdgeNode] = 0 THEN Len(version) ELSE router[EdgeNode]
      BY <2>2, <2>3, <2>4, PathFacts
    <3> QED
      BY <2>1, <3>1, <3>2, <3>3, <3>4, <3>5 DEF HashFollows, PastFirst
  <2>5. CASE next \in 2..4
    <3>1. main' \in {"append", "register"} /\ next' > 1
      BY <2>1, <2>5
    <3>2. /\ router'["/confighash"] = router["/confighash"]
          /\ router'[EdgeNode] = router[EdgeNode]
      BY <2>2, <2>3, <2>5, PathFacts
    <3> QED
      BY <2>1, <3>1, <3>2 DEF HashFollows, PastFirst
  <2>6. CASE next = 5
    <3>1. router'[EdgeNode] = router[EdgeNode]
      BY <2>2, <2>3, <2>6, PathFacts
    <3>2. router'["/confighash"] = IF router["/confighash"] = 0 THEN Len(version)
                                   ELSE router["/confighash"]
      BY <2>2, <2>3, <2>6, PathFacts
    <3>3. router["/confighash"] = 0 /\ router[EdgeNode] # 0 => router[EdgeNode] = Len(version)
      BY <2>1 DEF HashFollows
    <3>4. router[EdgeNode] \in Nat /\ router["/confighash"] \in Nat
      BY <1>1, PathFacts
    <3> QED
      BY <1>1, <2>1, <3>1, <3>2, <3>3, <3>4 DEF HashFollows
  <2> QED
    BY <2>1, <2>4, <2>5, <2>6
<1>4. CASE Restart \/ \E h \in Handlers : Swap(h)
  BY <1>4, PathFacts DEF Restart, Swap, HashFollows, EmptyRouter
<1>5. CASE ~(ReadConfig \/ Register \/ Restart \/ \E h \in Handlers : Swap(h))
  BY <1>5, RouterKept DEF HashFollows
<1> QED
  BY <1>2, <1>3, <1>4, <1>5

(***************************************************************************)
(* The edge-node metrics are never older than the hash served next to      *)
(* them, whichever handlers swap routers during whichever registrations    *)
(* (pipeline_manager.go:131, metrics_exporter.go:127).                     *)
(***************************************************************************)
THEOREM HashCorrect == Spec => []HashNeverAhead
<1>1. Core /\ HashInv /\ [Next]_vars => HashInv'
  BY OrderedStep, FollowsStep DEF HashInv
<1>2. Core /\ HashInv => HashNeverAhead
  <2> SUFFICES ASSUME Core, HashInv,
                      router["/confighash"] # 0, router[EdgeNode] # 0
               PROVE  version[router[EdgeNode]] >= version[router["/confighash"]]
    BY DEF HashNeverAhead, Answered
  <2>1. /\ router["/confighash"] \in 1..Len(version) /\ router[EdgeNode] \in 1..Len(version)
    BY PathFacts DEF Core, TypeOK
  <2>2. router["/confighash"] <= router[EdgeNode]
    BY DEF HashInv, HashFollows
  <2>3. version[router["/confighash"]] <= version[router[EdgeNode]]
    BY <2>1, <2>2 DEF HashInv, VersionsOrdered
  <2>4. version[router["/confighash"]] \in Nat /\ version[router[EdgeNode]] \in Nat
    BY <2>1, VersionTypes
  <2> QED
    BY <2>3, <2>4
<1>3. Spec => []HashInv
  BY HashInitially, CoreAlways, <1>1, PTL DEF Spec
<1> QED
  BY CoreAlways, <1>2, <1>3, PTL

-----------------------------------------------------------------------------
(***************************************************************************)
(* Collectors that have left the registry and are still listed belong to a *)
(* handler that is about to empty their list.                              *)
(***************************************************************************)
Unregistering ==
    main # "exited" =>
        \A g \in 1..Len(registry), n \in Namespaces :
            registry[g][n] = "unregistered"
                => \E k \in Handlers : handler[k] = "clear" /\ Head(todo[k]) = <<g, n>>

LEMMA HeadListed ==
    ASSUME Core, NEW h \in Handlers, todo[h] # <<>>
    PROVE  /\ Head(todo[h]) \in Listable
           /\ Head(todo[h]) = <<Head(todo[h])[1], Head(todo[h])[2]>>
           /\ Head(todo[h])[1] \in 1..Len(registry) /\ Head(todo[h])[2] \in Namespaces
           /\ AboutToRegister => Head(todo[h])[1] < Len(registry)
<1>1. Head(todo[h]) \in Listable
  BY HeadAndTail DEF Core, ListedKnown
<1>2. Len(version) = Len(registry) /\ Len(version) \in Nat
  BY DEF Core, TypeOK
<1> QED
  BY <1>1, <1>2 DEF Listable

\* The steps of a handler other than the two around the registry.
LEMMA QuietHandlerStep ==
    ASSUME Core, NEW h \in Handlers,
           \/ Dispatch(h) \/ BeginCleanUp(h) \/ TakeCollectors(h) \/ SkipCleared(h)
           \/ UnregisterFails(h) \/ Swap(h) \/ Forget(h) \/ Send(h)
    PROVE  /\ UNCHANGED <<registry, main, next, version>>
           /\ handler[h] # "clear"
           /\ \A k \in Handlers \ {h} : handler'[k] = handler[k] /\ todo'[k] = todo[k]
BY DEF Core, TypeOK, Dispatch, BeginCleanUp, TakeCollectors, SkipCleared, UnregisterFails,
       Swap, Forget, Send, SendHup, SendTerm, Move, mainVars

LEMMA UnregisteringStep == Core /\ Unregistering /\ [Next]_vars => Unregistering'
<1> SUFFICES ASSUME Core, Unregistering, [Next]_vars, main' # "exited",
                    NEW g \in 1..Len(registry'), NEW n \in Namespaces,
                    registry'[g][n] = "unregistered"
             PROVE  \E k \in Handlers : handler'[k] = "clear" /\ Head(todo'[k]) = <<g, n>>
  BY DEF Unregistering
<1> DEFINE Owned == \E k \in Handlers : handler[k] = "clear" /\ Head(todo[k]) = <<g, n>>
<1>1. main # "exited" /\ g \in 1..Len(registry) /\ registry[g][n] = "unregistered" => Owned
  BY DEF Unregistering
<1>2. CASE UNCHANGED <<registry, handler, todo>> /\ (main # "exited" \/ main' = main)
  BY <1>1, <1>2
<1>3. CASE ReadConfig
  <2>1. /\ main = "read" /\ UNCHANGED <<handler, todo>>
        /\ registry' = Append(registry, [m \in Namespaces |-> "registered"])
    BY <1>3 DEF ReadConfig, handlerVars
  <2>2. registry \in Seq([Namespaces -> CollectorStates])
    BY DEF Core, TypeOK, CollectorStates
  <2>3. /\ Len(registry') = Len(registry) + 1 /\ Len(registry) \in Nat
        /\ registry'[Len(registry) + 1] = [m \in Namespaces |-> "registered"]
        /\ \A i \in 1..Len(registry) : registry'[i] = registry[i]
    BY <2>1, <2>2
  <2>4. g # Len(registry) + 1
    BY <2>3
  <2> QED
    BY <1>1, <2>1, <2>3, <2>4
<1>4. CASE Restart
  BY <1>4 DEF Restart
<1>5. CASE Shutdown \/ Kill \/ ReadFails
  BY <1>5 DEF Shutdown, Kill, ReadFails, Die
<1>6. ASSUME NEW h \in Handlers, Unregister(h)
      PROVE  \E k \in Handlers : handler'[k] = "clear" /\ Head(todo'[k]) = <<g, n>>
  <2>1. /\ todo[h] # <<>> /\ SetCollectors(Head(todo[h]), "unregistered")
        /\ handler' = [handler EXCEPT ![h] = "clear"]
        /\ main' = main /\ todo' = todo
    BY <1>6 DEF Unregister, Move, mainVars, Core, ListedKnown
  <2>2. Head(todo[h]) \in Listable /\ "unregistered" \in CollectorStates
    BY <2>1, HeadListed DEF CollectorStates
  <2>3. /\ Len(registry') = Len(registry)
        /\ registry'[g][n] = IF Head(todo[h]) = <<g, n>> THEN "unregistered" ELSE registry[g][n]
    BY <2>1, <2>2, SetCollectorsEffect
  <2>4. handler'[h] = "clear" /\ \A k \in Handlers \ {h} : handler'[k] = handler[k]
    BY <2>1 DEF Core, TypeOK
  <2>5. CASE Head(todo[h]) = <<g, n>>
    BY <2>1, <2>4, <2>5
  <2>6. CASE Head(todo[h]) # <<g, n>>
    BY <1>1, <2>1, <2>3, <2>4, <2>6
  <2> QED
    BY <2>5, <2>6
<1>7. ASSUME NEW h \in Handlers, Clear(h)
      PROVE  \E k \in Handlers : handler'[k] = "clear" /\ Head(todo'[k]) = <<g, n>>
  <2>1. /\ handler[h] = "clear" /\ SetCollectors(Head(todo[h]), "cleared")
        /\ handler' = [handler EXCEPT ![h] = "unregister"]
        /\ todo' = [todo EXCEPT ![h] = Tail(todo[h])]
        /\ main' = main
    BY <1>7 DEF Clear, Move, mainVars
  <2>2. Head(todo[h]) \in Listable /\ "cleared" \in CollectorStates
    BY <2>1, HeadListed DEF Core, ListedKnown, CollectorStates
  <2> DEFINE p == Head(todo[h])
  <2>a. /\ Len(registry') = Len(registry)
        /\ \A i \in 1..Len(registry), m \in Namespaces :
              registry'[i][m] = IF p = <<i, m>> THEN "cleared" ELSE registry[i][m]
    <3> HIDE DEF p
    <3>1. p \in Listable /\ SetCollectors(p, "cleared")
      BY <2>1, <2>2 DEF p
    <3> QED
      BY <2>2, <3>1, SetCollectorsEffect
  <2>b. g \in 1..Len(registry)
    BY <2>a
  <2>3. /\ Len(registry') = Len(registry)
        /\ registry'[g][n] = IF Head(todo[h]) = <<g, n>> THEN "cleared" ELSE registry[g][n]
    BY <2>a, <2>b
  <2>4. \A k \in Handlers \ {h} : handler'[k] = handler[k] /\ todo'[k] = todo[k]
    BY <2>1 DEF Core, TypeOK
  <2>5. Head(todo[h]) # <<g, n>> /\ registry[g][n] = "unregistered"
    BY <2>3
  <2> QED
    BY <1>1, <2>1, <2>3, <2>4, <2>5
<1>8. ASSUME NEW h \in Handlers,
             \/ Dispatch(h) \/ BeginCleanUp(h) \/ TakeCollectors(h) \/ SkipCleared(h)
             \/ UnregisterFails(h) \/ Swap(h) \/ Forget(h) \/ Send(h)
      PROVE  \E k \in Handlers : handler'[k] = "clear" /\ Head(todo'[k]) = <<g, n>>
  <2>1. /\ registry' = registry /\ main' = main /\ handler[h] # "clear"
        /\ \A k \in Handlers \ {h} : handler'[k] = handler[k] /\ todo'[k] = todo[k]
    BY <1>8, QuietHandlerStep
  <2> QED
    BY <1>1, <2>1
<1>9. CASE Register \/ ReadPipelines \/ StorePipelines \/ Start \/ TakeSignal
  BY <1>2, <1>9 DEF Register, ReadPipelines, StorePipelines, Start, TakeSignal, handlerVars
<1>10. CASE Sync \/ \E sig \in Signals : Signal(sig)
  BY <1>2, <1>10 DEF Sync, Signal, mainVars, handlerVars
<1>11. CASE UNCHANGED vars
  BY <1>2, <1>11 DEF vars, mainVars, handlerVars
<1> QED
  BY <1>3, <1>4, <1>5, <1>6, <1>7, <1>8, <1>9, <1>10, <1>11 DEF Next, Main, Handle

-----------------------------------------------------------------------------
(***************************************************************************)
(* A reload that has met no other finds the collectors it has taken in the *)
(* registry: nobody else takes them from it.                               *)
(***************************************************************************)
\* What a step makes of a handler is a step of its own, or its end.
LEMMA HandlerMoves ==
    ASSUME Core, [Next]_vars, NEW h \in Handlers
    PROVE  \/ handler'[h] = handler[h] /\ todo'[h] = todo[h]
           \/ handler'[h] = "idle"
           \/ Dispatch(h) \/ Handle(h)
<1>1. ASSUME NEW k \in Handlers, Dispatch(k) \/ Handle(k) \/ Send(k), k # h
      PROVE  handler'[h] = handler[h] /\ todo'[h] = todo[h]
  <2>1. CASE Unregister(k) \/ Clear(k)
    BY <1>1, <2>1 DEF Unregister, Clear, Move, Core, TypeOK
  <2>2. CASE ~(Unregister(k) \/ Clear(k))
    <3>1. \/ Dispatch(k) \/ BeginCleanUp(k) \/ TakeCollectors(k) \/ SkipCleared(k)
          \/ UnregisterFails(k) \/ Swap(k) \/ Forget(k) \/ Send(k)
      BY <1>1, <2>2 DEF Handle
    <3> QED
      BY <1>1, <3>1, QuietHandlerStep
  <2> QED
    BY <2>1, <2>2
<1>2. CASE Send(h)
  BY <1>2 DEF Send, SendHup, SendTerm, Move, Core, TypeOK
<1>3. CASE Shutdown \/ Kill \/ ReadFails
  BY <1>3 DEF Shutdown, Kill, ReadFails, Die
<1>4. CASE \/ ReadConfig \/ Register \/ ReadPipelines \/ StorePipelines \/ Start
           \/ TakeSignal \/ Restart \/ Sync \/ \E sig \in Signals : Signal(sig)
  BY <1>4 DEF ReadConfig, Register, ReadPipelines, StorePipelines, Start, TakeSignal,
              Restart, Sync, Signal, handlerVars
<1>5. CASE UNCHANGED vars
  BY <1>5 DEF vars, handlerVars
<1> QED
  BY <1>1, <1>2, <1>3, <1>4, <1>5 DEF Next, Main

\* Only Unregister and Clear change the collectors of what may be listed.
LEMMA CollectorsKept ==
    ASSUME Core, [Next]_vars, main # "exited",
           NEW g \in 1..Len(registry), NEW n \in Namespaces,
           ~ \E k \in Handlers : Unregister(k) \/ Clear(k)
    PROVE  registry'[g][n] = registry[g][n]
<1>1. registry \in Seq([Namespaces -> CollectorStates])
  BY DEF Core, TypeOK, CollectorStates
<1>2. CASE ReadConfig
  <2>1. registry' = Append(registry, [m \in Namespaces |-> "registered"])
    BY <1>2 DEF ReadConfig
  <2>2. registry'[g] = registry[g]
    BY <1>1, <2>1
  <2> QED
    BY <2>2
<1>3. CASE \/ Register \/ ReadPipelines \/ StorePipelines \/ Start \/ TakeSignal
           \/ Shutdown \/ Kill \/ ReadFails \/ Sync \/ \E sig \in Signals : Signal(sig)
  BY <1>3 DEF Register, ReadPipelines, StorePipelines, Start, TakeSignal, Shutdown, Kill,
              ReadFails, Die, Sync, Signal
<1>4. ASSUME NEW k \in Handlers, Dispatch(k) \/ Handle(k) \/ Send(k)
      PROVE  registry' = registry
  BY <1>4, QuietHandlerStep DEF Handle
<1>5. CASE UNCHANGED vars
  BY <1>5 DEF vars
<1> QED
  BY <1>2, <1>3, <1>4, <1>5 DEF Next, Main, Restart

\* Handlers at work at the same time have met; one that has met no other has
\* taken collectors that are registered.
Met == \A h, k \in Handlers : h # k /\ AtWork(h) /\ AtWork(k) => h \in met

TakenAlone ==
    \A h \in Handlers :
        handler[h] = "taken" /\ h \notin met => Collectors(Head(todo[h])) = "registered"

MetInv == Met /\ TakenAlone /\ LoneReloadsCleanUp

\* The history follows the handlers.
LEMMA HandlersMeet == [Next]_vars => Meet \/ UNCHANGED <<handler, met>>
<1>1. ASSUME NEW h \in Handlers, Dispatch(h) \/ Handle(h) \/ Send(h)
      PROVE  Meet \/ UNCHANGED <<handler, met>>
  BY <1>1 DEF Dispatch, Handle, BeginCleanUp, TakeCollectors, SkipCleared, Unregister,
              UnregisterFails, Clear, Swap, Forget, Send, SendHup, SendTerm, Move
<1>2. Shutdown \/ Kill \/ ReadFails => Meet
  BY DEF Shutdown, Kill, ReadFails, Die
<1>3. \/ ReadConfig \/ Register \/ ReadPipelines \/ StorePipelines \/ Start
      \/ TakeSignal \/ Restart \/ Sync \/ \E sig \in Signals : Signal(sig)
      => UNCHANGED <<handler, met>>
  BY DEF ReadConfig, Register, ReadPipelines, StorePipelines, Start, TakeSignal,
         Restart, Sync, Signal, handlerVars
<1>4. UNCHANGED vars => UNCHANGED <<handler, met>>
  BY DEF vars, handlerVars
<1> QED
  BY <1>1, <1>2, <1>3, <1>4 DEF Next, Main

\* A handler at work that has met no other was and is the only one at work.
LEMMA StillAlone ==
    ASSUME Met, [Next]_vars, NEW h \in Handlers, AtWork(h), AtWork(h)', h \notin met'
    PROVE  h \notin met /\ \A k \in Handlers \ {h} : ~AtWork(k)
BY HandlersMeet DEF Met, Meet, AtWork

LEMMA TakenAloneStep ==
    ASSUME Core, Unregistering, MetInv, Next, NEW h \in Handlers,
           handler'[h] = "taken", h \notin met'
    PROVE  Collectors(Head(todo[h]))' = "registered"
<1>1. (handler[h] = "taken" /\ todo'[h] = todo[h]) \/ TakeCollectors(h)
  <2>1. Dispatch(h) \/ Handle(h) => TakeCollectors(h)
    BY DEF Dispatch, Handle, BeginCleanUp, SkipCleared, Unregister, UnregisterFails, Clear,
           Swap, Forget, Move, Core, TypeOK
  <2> QED
    BY <2>1, HandlerMoves
<1>2. /\ todo[h] # <<>> /\ todo'[h] = todo[h] /\ handler[h] \in {"unregister", "taken"}
      /\ main # "exited"
  BY <1>1 DEF TakeCollectors, Core, ListedKnown, ExitedIsIdle
<1>3. h \notin met /\ \A k \in Handlers \ {h} : handler[k] = "idle"
  BY <1>2, StillAlone DEF MetInv, AtWork
<1>4. PICK g \in 1..Len(registry), n \in Namespaces : Head(todo[h]) = <<g, n>>
  BY <1>2, HeadListed
<1>5. registry[g][n] = "registered"
  <2>1. CASE handler[h] = "taken"
    BY <1>3, <1>4, <2>1 DEF MetInv, TakenAlone, Collectors
  <2>2. CASE TakeCollectors(h)
    <3>1. registry[g][n] \in CollectorStates /\ registry[g][n] # "cleared"
      BY <1>4, <2>2 DEF TakeCollectors, Collectors, Core, TypeOK, CollectorStates
    <3>2. ~ \E k \in Handlers : handler[k] = "clear"
      BY <1>2, <1>3
    <3>3. registry[g][n] # "unregistered"
      BY <1>2, <3>2 DEF Unregistering
    <3> QED
      BY <3>1, <3>3 DEF CollectorStates
  <2> QED
    BY <1>1, <2>1, <2>2
<1>6. ~ \E k \in Handlers : Unregister(k) \/ Clear(k)
  <2>1. ~(Unregister(h) \/ Clear(h))
    BY DEF Unregister, Clear, Move, Core, TypeOK
  <2>2. ASSUME NEW k \in Handlers \ {h} PROVE ~(Unregister(k) \/ Clear(k))
    BY <1>3 DEF Unregister, Clear
  <2> QED
    BY <2>1, <2>2
<1>7. registry'[g][n] = registry[g][n]
  BY <1>2, <1>6, CollectorsKept
<1> QED
  BY <1>2, <1>4, <1>5, <1>7 DEF Collectors

LEMMA SendTermStep ==
    ASSUME Core, MetInv, Next, NEW h \in Handlers,
           handler'[h] = "sendTerm"
    PROVE  h \in met'
<1> SUFFICES ASSUME h \notin met' PROVE FALSE
  OBVIOUS
<1>1. handler[h] = "sendTerm" \/ UnregisterFails(h)
  <2>1. Dispatch(h) \/ Handle(h) => UnregisterFails(h)
    BY DEF Dispatch, Handle, BeginCleanUp, TakeCollectors, SkipCleared, Unregister, Clear,
           Swap, Forget, Move, Core, TypeOK
  <2> QED
    BY <2>1, HandlerMoves
<1>2. h \notin met
  BY <1>1, StillAlone DEF MetInv, AtWork, UnregisterFails
<1> QED
  BY <1>1, <1>2 DEF MetInv, TakenAlone, LoneReloadsCleanUp, UnregisterFails

(***************************************************************************)
(* CleanUp fails, and the process is stopped, only for a reload that has   *)
(* met another one (pipeline_manager.go:79): a lone reload finds what it   *)
(* takes in the registry, whatever overlapped before it and whatever the   *)
(* race of append has listed again.                                        *)
(***************************************************************************)
THEOREM LoneReloadsCorrect == Spec => []LoneReloadsCleanUp
<1>1. Init => Unregistering /\ MetInv
  BY DEF Init, Unregistering, MetInv, Met, TakenAlone, LoneReloadsCleanUp, AtWork
<1>2. Spec => []Unregistering
  <2>1. Init => Unregistering
    BY DEF Init, Unregistering
  <2> QED
    BY <2>1, CoreAlways, UnregisteringStep, PTL DEF Spec
<1>3. Core /\ Unregistering /\ MetInv /\ [Next]_vars => MetInv'
  <2> SUFFICES ASSUME Core, Unregistering, MetInv, [Next]_vars PROVE MetInv'
    OBVIOUS
  <2>1. CASE Next
    <3>1. Met'
      BY <2>1, HandlersMeet DEF MetInv, Met, Meet, AtWork
    <3>2. TakenAlone'
      BY <2>1, TakenAloneStep DEF TakenAlone, Collectors
    <3>3. LoneReloadsCleanUp'
      BY <2>1, SendTermStep DEF LoneReloadsCleanUp
    <3> QED
      BY <3>1, <3>2, <3>3 DEF MetInv
  <2>2. CASE UNCHANGED vars
    BY <2>2 DEF vars, handlerVars, MetInv, Met, TakenAlone, LoneReloadsCleanUp,
                AtWork, Collectors
  <2> QED
    BY <2>1, <2>2
<1>4. MetInv => LoneReloadsCleanUp
  BY DEF MetInv
<1> QED
  BY <1>1, <1>2, <1>3, <1>4, CoreAlways, PTL DEF Spec
-----------------------------------------------------------------------------
(***************************************************************************)
(* A path without a route, and a route to collectors that have left the    *)
(* registry, always have somebody under way who will see to it.            *)
(***************************************************************************)
Served ==
    \A i \in 1..5 :
        router[Endpoints[i]] = 0
            => \/ main \in {"read", "shutdown", "exited"}
               \/ main \in {"register", "append", "store"} /\ i >= next
               \/ done # <<>>
               \/ \E h \in Handlers : handler[h] \in {"forget", "sendHup"}

CurrentFresh ==
    AboutToRegister => \A n \in Namespaces : registry[Len(registry)][n] = "registered"

\* Somebody is about to end the process or to swap the router.
BeingMended ==
    \/ main \in {"shutdown", "exited"}
    \/ done = <<"TERM">>
    \/ \E h \in Handlers : handler[h] \in {"unregister", "taken", "clear", "sendTerm"}

Unbroken ==
    router[EdgeNode] # 0 /\ registry[router[EdgeNode]][EdgeNode] # "registered"
        => BeingMended

LEMMA ServedStep == Core /\ Served /\ [Next]_vars => Served'
<1> SUFFICES ASSUME Core, Served, [Next]_vars, NEW i \in 1..5, router'[Endpoints[i]] = 0
             PROVE  \/ main' \in {"read", "shutdown", "exited"}
                    \/ main' \in {"register", "append", "store"} /\ i >= next'
                    \/ done' # <<>>
                    \/ \E h \in Handlers : handler'[h] \in {"forget", "sendHup"}
  BY DEF Served
<1>1. /\ Endpoints[i] \in Paths /\ i \in Nat
      /\ router[Endpoints[i]] = 0
            => \/ main \in {"read", "shutdown", "exited"}
               \/ main \in {"register", "append", "store"} /\ i >= next
               \/ done # <<>>
               \/ \E h \in Handlers : handler[h] \in {"forget", "sendHup"}
  BY EndpointFacts DEF Served
<1>2. router \in [Paths -> 0..Len(version)] /\ Len(version) \in Nat /\ next \in 1..6
  BY DEF Core, TypeOK
<1>3. CASE ReadConfig
  BY <1>1, <1>3 DEF ReadConfig
<1>4. CASE Register
  <2>1. /\ main = "register" /\ next \in 1..5 /\ Len(version) > 0 /\ next' = next + 1
        /\ done' = done /\ handler' = handler
        /\ router' = Route(router, Endpoints[next], Len(version))
        /\ main' = IF Endpoints[next] \in Namespaces THEN "append"
                   ELSE IF next = 5 THEN "start" ELSE "register"
    BY <1>4 DEF Register, Current, Core, Position, handlerVars
  <2>2. /\ router[Endpoints[i]] = 0
        /\ i # next
    BY <1>1, <1>2, <2>1 DEF Route
  <2>3. next = 5 \/ main' \in {"register", "append", "store"}
    BY <2>1
  <2> QED
    BY <1>1, <1>2, <2>1, <2>2, <2>3
<1>5. CASE ReadPipelines \/ StorePipelines
  BY <1>1, <1>5 DEF ReadPipelines, StorePipelines, handlerVars
<1>6. CASE Start \/ TakeSignal
  BY <1>1, <1>6 DEF Start, TakeSignal, handlerVars
<1>7. CASE Shutdown \/ Kill \/ ReadFails
  BY <1>7 DEF Shutdown, Kill, ReadFails, Die
<1>8. ASSUME NEW h \in Handlers,
             \/ Dispatch(h) \/ BeginCleanUp(h) \/ TakeCollectors(h) \/ SkipCleared(h)
             \/ UnregisterFails(h) \/ Unregister(h) \/ Clear(h)
      PROVE  /\ UNCHANGED <<router, main, next, done>> /\ handler[h] \notin {"forget", "sendHup"}
             /\ \A k \in Handlers \ {h} : handler'[k] = handler[k]
  BY <1>8 DEF Dispatch, BeginCleanUp, TakeCollectors, SkipCleared, UnregisterFails,
              Unregister, Clear, Move, mainVars, Core, TypeOK
<1>9. ASSUME NEW h \in Handlers, Swap(h) \/ Forget(h) \/ Send(h)
      PROVE  done' # <<>> \/ handler'[h] \in {"forget", "sendHup"}
  <2>1. CASE Swap(h) \/ Forget(h)
    BY <2>1 DEF Swap, Forget, Move, Core, TypeOK
  <2>2. CASE Send(h)
    <3>1. done' = <<"HUP">> \/ done' = <<"TERM">>
      BY <2>2 DEF Send, SendHup, SendTerm
    <3> QED
      BY <3>1
  <2> QED
    BY <1>9, <2>1, <2>2
<1>10. CASE Sync \/ \E sig \in Signals : Signal(sig)
  BY <1>1, <1>10 DEF Sync, Signal, mainVars, handlerVars
<1>11. CASE Restart
  BY <1>11 DEF Restart
<1>12. CASE UNCHANGED vars
  BY <1>1, <1>12 DEF vars, mainVars, handlerVars
<1> QED
  BY <1>1, <1>3, <1>4, <1>5, <1>6, <1>7, <1>8, <1>9, <1>10, <1>11, <1>12 DEF Next, Main, Handle

LEMMA FreshStep == Core /\ CurrentFresh /\ [Next]_vars => CurrentFresh'
<1> SUFFICES ASSUME Core, CurrentFresh, [Next]_vars, AboutToRegister', NEW n \in Namespaces
             PROVE  registry'[Len(registry')][n] = "registered"
  BY DEF CurrentFresh
<1>1. /\ registry \in Seq([Namespaces -> CollectorStates]) /\ Len(registry) \in Nat
      /\ Len(registry) = Len(version) /\ next \in 1..6
  BY DEF Core, TypeOK, CollectorStates
<1>2. AboutToRegister => Len(registry) \in 1..Len(registry)
  BY <1>1 DEF Core, Position, AboutToRegister
<1>3. AboutToRegister => registry[Len(registry)][n] = "registered"
  BY DEF CurrentFresh
<1>4. CASE ReadConfig
  <2>1. registry' = Append(registry, [m \in Namespaces |-> "registered"])
    BY <1>4 DEF ReadConfig
  <2>2. /\ Len(registry') = Len(registry) + 1
        /\ registry'[Len(registry) + 1] = [m \in Namespaces |-> "registered"]
    BY <1>1, <2>1
  <2> QED
    BY <2>2
<1>5. CASE Register \/ ReadPipelines \/ StorePipelines
  BY <1>1, <1>5 DEF Register, ReadPipelines, StorePipelines, AboutToRegister, Core, Position
<1>6. CASE Start \/ TakeSignal \/ Shutdown \/ Kill \/ ReadFails \/ Restart
  BY <1>6 DEF Start, TakeSignal, Shutdown, Kill, ReadFails, Die, Restart, AboutToRegister
<1>7. ASSUME NEW h \in Handlers, Unregister(h) \/ Clear(h)
      PROVE  registry'[Len(registry')][n] = "registered"
  <2>1. /\ UNCHANGED <<main, next>> /\ todo[h] # <<>>
        /\ \E state \in CollectorStates : SetCollectors(Head(todo[h]), state)
    BY <1>7 DEF Unregister, Clear, mainVars, Core, ListedKnown, CollectorStates
  <2>2. AboutToRegister
    BY <2>1 DEF AboutToRegister
  <2>3. PICK state \in CollectorStates : SetCollectors(Head(todo[h]), state)
    BY <2>1
  <2>4. Head(todo[h]) \in Listable /\ Head(todo[h])[1] < Len(registry)
    BY <2>1, <2>2, HeadListed
  <2> DEFINE p == Head(todo[h])
  <2>5. /\ Len(registry') = Len(registry)
        /\ \A g \in 1..Len(registry), m \in Namespaces :
              registry'[g][m] = IF p = <<g, m>> THEN state ELSE registry[g][m]
    <3> HIDE DEF p
    <3>1. p \in Listable /\ SetCollectors(p, state)
      BY <2>3, <2>4 DEF p
    <3> QED
      BY <3>1, SetCollectorsEffect
  <2>6. p # <<Len(registry), n>>
    BY <1>1, <2>4
  <2> QED
    BY <1>2, <1>3, <2>2, <2>5, <2>6
<1>8. ASSUME NEW h \in Handlers,
             \/ Dispatch(h) \/ BeginCleanUp(h) \/ TakeCollectors(h) \/ SkipCleared(h)
             \/ UnregisterFails(h) \/ Swap(h) \/ Forget(h) \/ Send(h)
      PROVE  UNCHANGED <<registry, main, next>>
  BY <1>8, QuietHandlerStep
<1>9. CASE Sync \/ \E sig \in Signals : Signal(sig)
  BY <1>3, <1>9 DEF Sync, Signal, mainVars, AboutToRegister
<1>10. CASE UNCHANGED vars
  BY <1>3, <1>10 DEF vars, mainVars, AboutToRegister
<1> QED
  BY <1>3, <1>4, <1>5, <1>6, <1>7, <1>8, <1>9, <1>10 DEF Next, Main, Handle, AboutToRegister

LEMMA UnbrokenStep ==
    Core /\ CurrentFresh /\ Unbroken /\ [Next]_vars => Unbroken'
<1> SUFFICES ASSUME Core, CurrentFresh, Unbroken, [Next]_vars, router'[EdgeNode] # 0,
                    registry'[router'[EdgeNode]][EdgeNode] # "registered"
             PROVE  BeingMended'
  BY DEF Unbroken
<1>1. /\ registry \in Seq([Namespaces -> CollectorStates]) /\ Len(registry) \in Nat
      /\ Len(registry) = Len(version)
      /\ router \in [Paths -> 0..Len(version)] /\ router[EdgeNode] \in 0..Len(registry)
  BY PathFacts DEF Core, TypeOK, CollectorStates
<1>2. router[EdgeNode] # 0 /\ registry[router[EdgeNode]][EdgeNode] # "registered" => BeingMended
  BY DEF Unbroken
<1>3. CASE ReadConfig
  <2>1. /\ main = "read" /\ UNCHANGED <<handler, done, router>>
        /\ registry' = Append(registry, [m \in Namespaces |-> "registered"])
    BY <1>3 DEF ReadConfig, handlerVars
  <2>2. registry'[router[EdgeNode]] = registry[router[EdgeNode]]
    BY <1>1, <2>1
  <2> QED
    BY <1>2, <2>1, <2>2 DEF BeingMended
<1>4. CASE Register
  <2>1. /\ main = "register" /\ next \in 1..5 /\ Len(version) > 0
        /\ UNCHANGED <<handler, done, registry>>
        /\ router' = Route(router, Endpoints[next], Len(version))
        /\ main' \notin {"shutdown", "exited"}
    BY <1>4 DEF Register, Current, Core, Position, handlerVars
  <2>2. Endpoints[next] \in Paths /\ (Endpoints[next] = EdgeNode => next = 1)
    BY <2>1, EndpointFacts
  <2>3. CASE next = 1 /\ router[EdgeNode] = 0
    <3>1. registry[Len(registry)][EdgeNode] = "registered"
      BY <2>1, <2>3 DEF CurrentFresh, AboutToRegister, Namespaces
    <3>2. router'[EdgeNode] = router[EdgeNode] \/ router'[EdgeNode] = Len(registry)
      BY <1>1, <2>1, <2>2, PathFacts DEF Route
    <3> QED
      BY <2>1, <2>3, <3>1, <3>2
  <2>4. CASE ~(next = 1 /\ router[EdgeNode] = 0)
    <3>1. router'[EdgeNode] = router[EdgeNode]
      BY <1>1, <2>1, <2>2, <2>4, PathFacts DEF Route
    <3> QED
      BY <1>2, <2>1, <3>1 DEF BeingMended
  <2> QED
    BY <2>3, <2>4
<1>5. CASE ReadPipelines \/ StorePipelines \/ Start
  BY <1>2, <1>5 DEF ReadPipelines, StorePipelines, Start, handlerVars, BeingMended
<1>6. CASE TakeSignal
  <2>1. done = <<"TERM">> => main' = "shutdown"
    BY <1>6 DEF TakeSignal
  <2> QED
    BY <1>2, <1>6, <2>1 DEF TakeSignal, handlerVars, BeingMended
<1>7. CASE Shutdown \/ Kill \/ ReadFails
  BY <1>7 DEF Shutdown, Kill, ReadFails, Die, BeingMended
<1>8. ASSUME NEW h \in Handlers,
             \/ BeginCleanUp(h) \/ TakeCollectors(h) \/ SkipCleared(h)
             \/ UnregisterFails(h) \/ Unregister(h) \/ Clear(h)
      PROVE  handler'[h] \in {"unregister", "taken", "clear", "sendTerm"}
  BY <1>8 DEF BeginCleanUp, TakeCollectors, SkipCleared, UnregisterFails, Unregister, Clear,
              Move, Core, TypeOK
<1>9. ASSUME NEW h \in Handlers, Swap(h)
      PROVE  FALSE
  BY <1>9, PathFacts DEF Swap, EmptyRouter
<1>10. ASSUME NEW h \in Handlers, Dispatch(h) \/ Forget(h) \/ SendHup(h)
       PROVE  BeingMended'
  <2>1. /\ UNCHANGED <<registry, router, main>>
        /\ handler[h] \notin {"unregister", "taken", "clear", "sendTerm"}
        /\ \A k \in Handlers \ {h} : handler'[k] = handler[k]
        /\ done' = done \/ done = <<>>
    BY <1>10 DEF Dispatch, Forget, SendHup, Move, mainVars, Core, TypeOK
  <2>2. done # <<"TERM">> \/ done' = done
    BY <2>1
  <2> QED
    BY <1>2, <2>1, <2>2 DEF BeingMended
<1>11. ASSUME NEW h \in Handlers, SendTerm(h)
       PROVE  BeingMended'
  BY <1>11 DEF SendTerm, BeingMended
<1>12. CASE Sync \/ \E sig \in Signals : Signal(sig)
  <2>1. UNCHANGED <<registry, router, main, handler>> /\ (done' = done \/ done = <<>>)
    BY <1>12 DEF Sync, Signal, mainVars, handlerVars
  <2>2. done # <<"TERM">> \/ done' = done
    BY <2>1
  <2> QED
    BY <1>2, <2>1, <2>2 DEF BeingMended
<1>13. CASE Restart
  BY <1>13, PathFacts DEF Restart, EmptyRouter
<1>14. CASE UNCHANGED vars
  BY <1>2, <1>14 DEF vars, mainVars, handlerVars, BeingMended
<1> QED
  BY <1>3, <1>4, <1>5, <1>6, <1>7, <1>8, <1>9, <1>10, <1>11, <1>12, <1>13, <1>14
  DEF Next, Main, Handle, Send, BeingMended

(***************************************************************************)
(* When nothing is under way every endpoint is served and the edge-node    *)
(* metrics come from registered collectors, whatever interleaving of       *)
(* reloads, registrations and signals went before                          *)
(* (pipeline_manager.go:131, metrics_exporter.go:127).                     *)
(***************************************************************************)
THEOREM QuietCorrect == Spec => []QuietServesAll
<1> DEFINE Mending == Served /\ CurrentFresh /\ Unbroken
<1>1. Init => Mending
  BY PathFacts DEF Init, Served, CurrentFresh, AboutToRegister, Unbroken, EmptyRouter
<1>2. Core /\ Mending /\ [Next]_vars => Mending'
  BY ServedStep, FreshStep, UnbrokenStep
<1>3. Mending => QuietServesAll
  <2> SUFFICES ASSUME Mending, Quiet
               PROVE  /\ \A p \in Paths : router[p] # 0
                      /\ Collectors(<<router[EdgeNode], EdgeNode>>) = "registered"
    BY DEF QuietServesAll
  <2>1. main = "wait" /\ done = <<>> /\ \A h \in Handlers : handler[h] = "idle"
    BY DEF Quiet
  <2>2. \A i \in 1..5 : router[Endpoints[i]] # 0
    BY <2>1 DEF Served
  <2>3. \A p \in Paths : router[p] # 0
    BY <2>2, EndpointFacts
  <2>4. done # <<"TERM">>
    BY <2>1
  <2>5. registry[router[EdgeNode]][EdgeNode] = "registered"
    BY <2>1, <2>3, <2>4, PathFacts DEF Unbroken, BeingMended
  <2> QED
    BY <2>3, <2>5 DEF Collectors
<1>4. Spec => []Mending
  BY <1>1, <1>2, CoreAlways, PTL DEF Spec
<1> QED
  BY <1>3, <1>4, PTL

-----------------------------------------------------------------------------
(***************************************************************************)
(* One reload at a time, and no SIGHUP from outside: from the swap of the  *)
(* router to the next initialization nothing registers the metrics, and    *)
(* no other reload comes in.                                               *)
(***************************************************************************)
OneReload ==
    /\ \A h, k \in Handlers : h = k
    /\ "HUP" \notin Mishaps

Registering == main \in {"register", "append", "store"}
Sending == \E h \in Handlers : handler[h] \in {"forget", "sendHup"}
CleaningUp ==
    \E h \in Handlers : handler[h] \in {"dispatched", "unregister", "taken", "clear", "sendTerm"}

\* The router has been swapped and the configuration not yet read.
Swapped == main = "read" \/ done = <<"HUP">> \/ Sending

SwappedIsEmpty ==
    Swapped => router[EdgeNode] = 0 /\ router["/reload"] = 0 /\ (Registering => next = 5)

\* Only one of the three is the case.
SwappedOnce ==
    /\ main = "read" => done # <<"HUP">> /\ ~Sending
    /\ done = <<"HUP">> => ~Sending

ReloadIsLate ==
    /\ Registering /\ next # 5 => router["/reload"] = 0
    /\ CleaningUp => ~Swapped /\ (Registering => next = 5)

MetricsAreCurrent ==
    /\ AboutToRegister => router[EdgeNode] = 0
    /\ main # "exited" => router[EdgeNode] \in {0, Len(version)}

Sequential == SwappedIsEmpty /\ SwappedOnce /\ ReloadIsLate /\ MetricsAreCurrent

LEMMA ReloadPath ==
    /\ EdgeNode \in Paths /\ "/reload" \in Paths
    /\ \A i \in 1..5 : /\ Endpoints[i] = EdgeNode <=> i = 1
                       /\ Endpoints[i] = "/reload" <=> i = 4
BY EndpointFacts DEF EdgeNode

LEMMA ChannelValues ==
    ASSUME Core
    PROVE  done = <<"HUP">> \/ done = <<"TERM">> \/ done = <<>>
<1>1. done \in Seq(Signals) /\ Len(done) <= 1
  BY DEF Core, TypeOK
<1>2. Len(done) = 0 \/ Len(done) = 1
  <2>1. \A n \in Nat : n <= 1 => n = 0 \/ n = 1
    OBVIOUS
  <2>2. Len(done) \in Nat /\ Len(done) <= 1
    BY <1>1
  <2> QED
    BY <2>1, <2>2, Zenon
<1>3. Len(done) = 0 => done = <<>>
  BY <1>1
<1>4. Len(done) = 1 => done = <<done[1]>> /\ done[1] \in Signals
  BY <1>1
<1> QED
  BY <1>2, <1>3, <1>4 DEF Signals

LEMMA SequentialMain ==
    ASSUME OneReload, Core, Sequential,
           ReadConfig \/ Register \/ ReadPipelines \/ StorePipelines \/ Start \/ TakeSignal
    PROVE  Sequential'
<1> USE DEF Sequential, SwappedIsEmpty, SwappedOnce, ReloadIsLate, MetricsAreCurrent,
            Swapped, Registering, Sending, CleaningUp, AboutToRegister
<1>1. /\ router \in [Paths -> 0..Len(version)] /\ Len(version) \in Nat
      /\ done = <<"HUP">> \/ done = <<"TERM">> \/ done = <<>>
      /\ version \in Seq(0..MaxVersion) /\ mounted \in 0..MaxVersion
  BY ChannelValues DEF Core, TypeOK
<1>2. CASE ReadConfig
  <2>1. /\ main = "read" /\ main' = "register" /\ next' = 1
        /\ UNCHANGED <<router, done, handler>>
    BY <1>2 DEF ReadConfig, handlerVars
  <2> QED
    BY <2>1
<1>3. CASE Register
  <2>1. /\ main = "register" /\ next \in 1..5 /\ Len(version) > 0 /\ next' = next + 1
        /\ UNCHANGED <<version, done, handler>>
        /\ router' = Route(router, Endpoints[next], Len(version))
        /\ main' = IF Endpoints[next] \in Namespaces THEN "append"
                   ELSE IF next = 5 THEN "start" ELSE "register"
    BY <1>3 DEF Register, Current, Core, Position, handlerVars
  <2>2. /\ next = 5 => main' = "start"
        /\ next # 5 => main' \in {"append", "register"}
    BY <2>1, EndpointFacts
  <2>3. /\ next # 1 => router'[EdgeNode] = router[EdgeNode]
        /\ next # 4 => router'["/reload"] = router["/reload"]
        /\ next = 1 => router'[EdgeNode] = Len(version)
    BY <1>1, <2>1, ReloadPath, EndpointFacts DEF Route
  <2> QED
    BY <2>1, <2>2, <2>3
<1>4. CASE ReadPipelines \/ StorePipelines
  BY <1>4 DEF ReadPipelines, StorePipelines, handlerVars, Core, Position
<1>5. CASE Start
  BY <1>5 DEF Start, handlerVars
<1>6. CASE TakeSignal
  <2>1. /\ main = "wait" /\ done' = <<>>
        /\ UNCHANGED <<router, version, handler, next>>
        /\ \/ main' = "read" /\ done = <<"HUP">>
           \/ main' = "shutdown"
    <3>1. done = <<"HUP">> => Tail(done) = <<>>
      OBVIOUS
    <3>2. done = <<"TERM">> => Tail(done) = <<>> /\ Head(done) # "HUP"
      OBVIOUS
    <3> QED
      BY <1>1, <1>6, <3>1, <3>2 DEF TakeSignal, handlerVars
  <2>2. done' # <<"HUP">>
    BY <2>1
  <2> QED
    BY <2>1, <2>2
<1> QED
  BY <1>2, <1>3, <1>4, <1>5, <1>6

LEMMA SequentialHandler ==
    ASSUME OneReload, Core, Sequential, NEW h \in Handlers,
           Dispatch(h) \/ Handle(h) \/ Send(h)
    PROVE  Sequential'
<1> USE DEF Sequential, SwappedIsEmpty, SwappedOnce, ReloadIsLate, MetricsAreCurrent,
            Swapped, Registering, Sending, CleaningUp, AboutToRegister
<1>1. /\ Handlers = {h} /\ handler \in [Handlers -> {"idle", "dispatched", "unregister",
                                "taken", "clear", "forget", "sendHup", "sendTerm"}]
  BY DEF OneReload, Core, TypeOK
<1>2. CASE Dispatch(h)
  <2>1. /\ router["/reload"] # 0 /\ handler'[h] = "dispatched"
        /\ UNCHANGED <<router, main, next, version, done>>
    BY <1>1, <1>2 DEF Dispatch, Move, mainVars
  <2> QED
    BY <1>1, <2>1
<1>3. CASE \/ BeginCleanUp(h) \/ TakeCollectors(h) \/ SkipCleared(h)
           \/ Unregister(h) \/ UnregisterFails(h) \/ Clear(h)
  <2>1. /\ handler[h] \in {"dispatched", "unregister", "taken", "clear"}
        /\ handler'[h] \in {"unregister", "taken", "clear", "sendTerm"}
        /\ UNCHANGED <<router, main, next, version, done>>
    BY <1>1, <1>3 DEF BeginCleanUp, TakeCollectors, SkipCleared, Unregister, UnregisterFails,
                      Clear, Move, mainVars
  <2> QED
    BY <1>1, <2>1
<1>4. CASE Swap(h)
  <2>1. /\ handler[h] = "unregister" /\ handler'[h] = "forget"
        /\ UNCHANGED <<main, next, version, done>>
        /\ router'[EdgeNode] = 0 /\ router'["/reload"] = 0
    BY <1>1, <1>4, ReloadPath DEF Swap, Move, mainVars, EmptyRouter
  <2> QED
    BY <1>1, <2>1
<1>5. CASE Forget(h)
  <2>1. /\ handler[h] = "forget" /\ handler'[h] = "sendHup"
        /\ UNCHANGED <<router, main, next, version, done>>
    BY <1>1, <1>5 DEF Forget, Move, mainVars
  <2> QED
    BY <1>1, <2>1
<1>6. CASE SendHup(h)
  <2>1. /\ handler[h] = "sendHup" /\ handler'[h] = "idle"
        /\ UNCHANGED <<router, main, next, version>>
    BY <1>1, <1>6 DEF SendHup, Move, mainVars
  <2> QED
    BY <1>1, <2>1
<1>7. CASE SendTerm(h)
  <2>1. /\ handler[h] = "sendTerm" /\ handler'[h] = "idle"
        /\ UNCHANGED <<router, main, next, version>> /\ done' = <<"TERM">>
    BY <1>1, <1>7 DEF SendTerm, Move, mainVars
  <2>2. done' # <<"HUP">>
    BY <2>1
  <2> QED
    BY <1>1, <2>1, <2>2
<1> QED
  BY <1>2, <1>3, <1>4, <1>5, <1>6, <1>7 DEF Handle, Send

LEMMA SequentialStep == OneReload /\ Core /\ Sequential /\ [Next]_vars => Sequential'
<1> SUFFICES ASSUME OneReload, Core, Sequential, [Next]_vars PROVE Sequential'
  OBVIOUS
<1> USE DEF Sequential, SwappedIsEmpty, SwappedOnce, ReloadIsLate, MetricsAreCurrent,
            Swapped, Registering, Sending, CleaningUp, AboutToRegister
<1>1. CASE Shutdown \/ Kill \/ ReadFails
  <2>1. /\ main' = "exited" /\ UNCHANGED <<router, done, next, version>>
        /\ \A h \in Handlers : handler'[h] = "idle"
    BY <1>1 DEF Shutdown, Kill, ReadFails, Die
  <2> QED
    BY <2>1
<1>2. CASE Sync \/ \E sig \in Signals : Signal(sig)
  <2>1. /\ UNCHANGED <<router, main, next, version, handler>>
        /\ done' \in {done, <<"TERM">>}
    BY <1>2 DEF Sync, Signal, mainVars, handlerVars, OneReload, Core, TypeOK, Signals
  <2>2. done' = <<"HUP">> => done = <<"HUP">>
    BY <2>1
  <2> QED
    BY <2>1, <2>2
<1>3. CASE Restart
  <2>1. /\ main' = "read" /\ done' = <<>> /\ handler' = handler /\ Len(version') = 0
        /\ router'[EdgeNode] = 0 /\ router'["/reload"] = 0
        /\ \A h \in Handlers : handler[h] = "idle"
    BY <1>3, ReloadPath DEF Restart, EmptyRouter, handlerVars, Core, ExitedIsIdle
  <2>2. done' # <<"HUP">>
    BY <2>1
  <2> QED
    BY <2>1, <2>2
<1>4. CASE UNCHANGED vars
  BY <1>4 DEF vars, mainVars, handlerVars
<1> QED
  BY <1>1, <1>2, <1>3, <1>4, SequentialMain, SequentialHandler DEF Next, Main

(***************************************************************************)
(* Where reloads come one at a time, as a config-reloader that holds its   *)
(* mutex sends them, and no SIGHUP comes from outside, the metrics are     *)
(* those of the configuration read last whenever nothing is under way      *)
(* (pipeline_manager.go:131, metrics_exporter.go:127).                     *)
(***************************************************************************)
THEOREM ReloadCorrect ==
    ASSUME OneReload
    PROVE  Spec => []ReloadTakesEffect
<1>1. Init => Sequential
  <2> SUFFICES ASSUME Init PROVE Sequential
    OBVIOUS
  <2>1. /\ main = "read" /\ done = <<>> /\ version = <<>>
        /\ \A h \in Handlers : handler[h] = "idle"
        /\ router[EdgeNode] = 0 /\ router["/reload"] = 0
    BY ReloadPath DEF Init, EmptyRouter
  <2>2. done # <<"HUP">>
    BY <2>1
  <2> QED
    BY <2>1, <2>2 DEF Sequential, SwappedIsEmpty, SwappedOnce, ReloadIsLate, MetricsAreCurrent,
                      Swapped, Registering, Sending, CleaningUp, AboutToRegister
<1>2. Spec => []Sequential
  BY <1>1, SequentialStep, CoreAlways, PTL DEF Spec
<1>3. Sequential /\ QuietServesAll => ReloadTakesEffect
  BY PathFacts DEF Sequential, MetricsAreCurrent, QuietServesAll, ReloadTakesEffect, Quiet,
                   Answered, Current
<1> QED
  BY <1>2, <1>3, QuietCorrect, PTL

-----------------------------------------------------------------------------
(***************************************************************************)
(* Only a router swapped in while endpoints are being registered is        *)
(* registered on in parts.  Otherwise the paths are answered from one      *)
(* initialization, or the one under way has registered the first of them   *)
(* on an empty router, or nothing is answered.                             *)
(***************************************************************************)
Whole == \E g \in 1..Current : \A p \in Paths : router[p] = g

Prefix == \A i \in 1..5 : router[Endpoints[i]] = IF i < next THEN Current ELSE 0

OneInitialization ==
    main # "exited" =>
        \/ Whole
        \/ PastFirst /\ Prefix
        \/ ~PastFirst /\ \A p \in Paths : router[p] = 0

\* No handler swaps the router while endpoints are being registered.
SwapsApart == \A h \in Handlers : Swap(h) => ~PastFirst

\* Where the other steps leave the registration of the endpoints.
LEMMA PastFirstKept ==
    ASSUME Core, [Next]_vars, main' # "exited", ~ReadConfig, ~Register, ~Restart,
           ~ \E h \in Handlers : Swap(h)
    PROVE  (PastFirst' <=> PastFirst) /\ (PastFirst => next' = next)
<1>1. CASE ReadPipelines
  BY <1>1 DEF ReadPipelines, PastFirst
<1>2. CASE StorePipelines
  <2>1. next \in {2, 3}
    BY <1>2 DEF StorePipelines, Core, Position
  <2> QED
    BY <1>2, <2>1 DEF StorePipelines, PastFirst
<1>3. CASE Start \/ TakeSignal
  BY <1>3 DEF Start, TakeSignal, PastFirst
<1>4. CASE Shutdown \/ Kill \/ ReadFails
  BY <1>4 DEF Shutdown, Kill, ReadFails, Die
<1>5. ASSUME NEW h \in Handlers, Dispatch(h) \/ Handle(h) \/ Send(h)
      PROVE  UNCHANGED mainVars
  BY <1>5 DEF Dispatch, Handle, Send, BeginCleanUp, Unregister, Clear, TakeCollectors, SkipCleared,
              UnregisterFails, Swap, Forget, SendHup, SendTerm
<1>6. CASE Sync \/ \E sig \in Signals : Signal(sig)
  BY <1>6 DEF Sync, Signal, mainVars, PastFirst
<1>7. CASE UNCHANGED vars
  BY <1>7 DEF vars, mainVars, PastFirst
<1>8. UNCHANGED mainVars => (PastFirst' <=> PastFirst) /\ next' = next
  BY DEF mainVars, PastFirst
<1> QED
  BY <1>1, <1>2, <1>3, <1>4, <1>5, <1>6, <1>7, <1>8 DEF Next, Main

LEMMA OneInitializationStep ==
    Core /\ OneInitialization /\ [SwapsApart /\ Next]_vars => OneInitialization'
<1> SUFFICES ASSUME Core, OneInitialization, [Next]_vars, main' # "exited",
                    SwapsApart \/ UNCHANGED vars
             PROVE  OneInitialization'
  BY DEF OneInitialization
<1>1. router \in [Paths -> 0..Len(version)] /\ Len(version) \in Nat
  BY DEF Core, TypeOK
<1>2. CASE ReadConfig
  <2>1. /\ main = "read" /\ main' = "register" /\ next' = 1
        /\ version' = Append(version, mounted) /\ router' = router
    BY <1>2 DEF ReadConfig
  <2>2. Len(version') = Len(version) + 1
    BY <2>1, VersionTypes
  <2>3. ~PastFirst /\ ~PastFirst'
    BY <2>1 DEF PastFirst
  <2>4. Whole => Whole'
    BY <1>1, <2>1, <2>2 DEF Whole, Current
  <2> QED
    BY <2>1, <2>3, <2>4 DEF OneInitialization
<1>3. CASE Register
  <2>1. /\ main = "register" /\ next \in 1..5 /\ Len(version) > 0
        /\ version' = version /\ next' = next + 1
        /\ router' = Route(router, Endpoints[next], Len(version))
        /\ main' = IF Endpoints[next] \in Namespaces THEN "append"
                   ELSE IF next = 5 THEN "start" ELSE "register"
    BY <1>3 DEF Register, Current, Core, Position
  <2>2. /\ \A i \in 1..5 : Endpoints[i] \in Paths
        /\ \A i \in 1..5 : Endpoints[i] = Endpoints[next] <=> i = next
        /\ Endpoints[next] \in Namespaces <=> next \in {1, 2}
    BY <2>1, EndpointFacts
  <2>3. \A p \in Paths : router'[p] = IF p = Endpoints[next] /\ router[p] = 0 THEN Len(version)
                                      ELSE router[p]
    BY <1>1, <2>1, <2>2 DEF Route
  <2>4. CASE Whole
    <3>1. PICK g \in 1..Len(version) : \A p \in Paths : router[p] = g
      BY <2>4 DEF Whole, Current
    <3>2. \A p \in Paths : router'[p] = g
      BY <2>3, <3>1
    <3>3. Whole'
      BY <2>1, <3>2 DEF Whole, Current
    <3> QED
      BY <3>3 DEF OneInitialization
  <2>5. CASE ~Whole
    <3>1. \A i \in 1..5 : router[Endpoints[i]] = IF i < next THEN Len(version) ELSE 0
      <4>1. CASE PastFirst
        BY <2>1, <2>5, <4>1 DEF OneInitialization, Prefix, Current
      <4>2. CASE ~PastFirst
        <5>1. next = 1 /\ \A p \in Paths : router[p] = 0
          BY <2>1, <2>5, <4>2 DEF OneInitialization, PastFirst
        <5> QED
          BY <2>2, <5>1
      <4> QED
        BY <4>1, <4>2
    <3>2. \A i \in 1..5 : router'[Endpoints[i]] = IF i < next' THEN Len(version') ELSE 0
      <4> SUFFICES ASSUME NEW i \in 1..5
                   PROVE  router'[Endpoints[i]] = IF i < next' THEN Len(version') ELSE 0
        OBVIOUS
      <4>1. CASE i = next
        BY <2>1, <2>2, <2>3, <3>1, <4>1
      <4>2. CASE i # next
        <5>1. router'[Endpoints[i]] = router[Endpoints[i]]
          BY <2>2, <2>3, <4>2
        <5>2. i < next' <=> i < next
          BY <2>1, <4>2
        <5> QED
          BY <2>1, <3>1, <5>1, <5>2
      <4> QED
        BY <4>1, <4>2
    <3>3. CASE next = 5
      <4>1. \A i \in 1..5 : router'[Endpoints[i]] = Len(version')
        BY <2>1, <3>2, <3>3
      <4>2. \A p \in Paths : router'[p] = Len(version')
        BY <4>1, EndpointFacts
      <4>3. Whole'
        BY <1>1, <2>1, <4>2 DEF Whole, Current
      <4> QED
        BY <4>3 DEF OneInitialization
    <3>4. CASE next # 5
      <4>1. PastFirst'
        BY <2>1, <3>4 DEF PastFirst
      <4>2. Prefix'
        BY <3>2 DEF Prefix, Current
      <4> QED
        BY <4>1, <4>2 DEF OneInitialization
    <3> QED
      BY <3>3, <3>4
  <2> QED
    BY <2>4, <2>5
<1>4. ASSUME NEW h \in Handlers, Swap(h)
      PROVE  OneInitialization'
  <2>1. UNCHANGED mainVars /\ router' = EmptyRouter
    BY <1>4 DEF Swap
  <2>2. ~PastFirst
    <3>1. CASE SwapsApart
      BY <1>4, <3>1 DEF SwapsApart
    <3>2. CASE UNCHANGED vars
      BY <1>4, <3>2 DEF Swap, Move, vars, handlerVars, Core, TypeOK
    <3> QED
      BY <3>1, <3>2
  <2>3. ~PastFirst' /\ \A p \in Paths : router'[p] = 0
    BY <2>1, <2>2 DEF PastFirst, mainVars, EmptyRouter
  <2> QED
    BY <2>3 DEF OneInitialization
<1>5. CASE Restart
  BY <1>5 DEF Restart, EmptyRouter, OneInitialization, PastFirst
<1>6. CASE ~(ReadConfig \/ Register \/ Restart \/ \E h \in Handlers : Swap(h))
  <2>1. UNCHANGED <<version, router>> /\ main # "exited"
    BY <1>6, RouterKept
  <2>2. Whole => Whole'
    BY <2>1 DEF Whole, Current
  <2>3. (PastFirst' <=> PastFirst) /\ (PastFirst => next' = next)
    BY <1>6, PastFirstKept
  <2>4. PastFirst /\ Prefix => Prefix'
    BY <2>1, <2>3 DEF Prefix, Current
  <2> QED
    BY <2>1, <2>2, <2>3, <2>4 DEF OneInitialization
<1> QED
  BY <1>2, <1>3, <1>4, <1>5, <1>6

(***************************************************************************)
(* The hash lags behind the metrics (the disagreement with                 *)
(* metrics_exporter.go:135) only after a swap that meets a registration:   *)
(* in a behaviour without one, however many reloads, signals and restarts  *)
(* overlap otherwise, the hash served when nothing is under way is that of *)
(* the configuration the edge-node metrics come from                       *)
(* (pipeline_manager.go:131, metrics_exporter.go:127).                     *)
(***************************************************************************)
THEOREM HashCurrentCorrect == Spec /\ [][SwapsApart]_vars => []HashIsCurrent
<1>1. Init => OneInitialization
  BY DEF Init, OneInitialization, PastFirst, EmptyRouter
<1>2. [Next]_vars /\ [SwapsApart]_vars => [SwapsApart /\ Next]_vars
  OBVIOUS
<1>3. OneInitialization /\ QuietServesAll => HashIsCurrent
  <2> SUFFICES ASSUME OneInitialization, QuietServesAll, Quiet
               PROVE  /\ router["/confighash"] # 0 /\ router[EdgeNode] # 0
                      /\ Answered("/confighash") = Answered(EdgeNode)
    BY DEF HashIsCurrent
  <2>1. main = "wait" /\ \A p \in Paths : router[p] # 0
    BY DEF Quiet, QuietServesAll
  <2>2. Whole
    BY <2>1, PathFacts DEF OneInitialization, PastFirst
  <2>3. router["/confighash"] = router[EdgeNode]
    BY <2>2, PathFacts DEF Whole
  <2> QED
    BY <2>1, <2>3, PathFacts DEF Answered
<1> QED
  BY <1>1, <1>2, <1>3, OneInitializationStep, CoreAlways, QuietCorrect, PTL DEF Spec
=============================================================================
