-------------------------- MODULE Collection_proofs -------------------------
(***************************************************************************)
(* Proofs about Collection, for any configurations, replies, scrapes and   *)
(* reloads.                                                                *)
(***************************************************************************)
EXTENDS Collection, FiniteSetTheorems, TLAPS

\* Metrics whose destination labels match the labels, and collectors of them.
GoodMetrics == {m \in Metrics : Len(m.dest) = Len(m.labels)}
Cols == [name : Names, metrics : Seq(GoodMetrics)]
Stats == [up : BOOLEAN, latency : Latencies \cup {0}, samples : Nat, warnings : Nat]

Typed ==
    /\ process \in {"loading", "serving", "refused", "dead", "stopped"}
    /\ file \in Files
    /\ collectors \in [DOMAIN collectors -> Cols]
    /\ scraped \in [Indices -> Cols]
    /\ answer \in {"ready", "none", "200", "500"}
    /\ stats \in [Indices -> Stats]
    /\ replies \in [Indices -> Seq(Replies)]
    /\ reported \in SUBSET Indices
    /\ clash \in BOOLEAN
    /\ scrapes \in 0..MaxScrapes
    /\ reloads \in 0..MaxReloads

\* Where the collectors of a scrape are.
Progress ==
    /\ \A i \in Indices : Len(replies[i]) <= Len(scraped[i].metrics)
    /\ \A i \in reported : Len(replies[i]) = Len(scraped[i].metrics)
    /\ answer \in {"200", "500"} => reported = Indices

\* What is exported is built from the file.
BuiltFromFile == process = "serving" => collectors = Built(file)

Shape == Typed /\ Progress /\ BuiltFromFile /\ OnlyOtherTypesKill

-----------------------------------------------------------------------------
LEMMA Bounds == MaxScrapes \in Nat /\ MaxReloads \in Nat
BY CollectionAssumption

LEMMA ElementType ==
    ASSUME NEW S, NEW s \in Seq(S), NEW i \in 1..Len(s)
    PROVE  s[i] \in S
OBVIOUS

LEMMA SeqMonotone ==
    ASSUME NEW S, NEW T, S \subseteq T, NEW s \in Seq(S)
    PROVE  s \in Seq(T)
<1>1. Len(s) \in Nat /\ s \in [1..Len(s) -> S]
  OBVIOUS
<1>2. s \in [1..Len(s) -> T]
  BY <1>1
<1> QED
  BY <1>1, <1>2

LEMMA LastOfJoined ==
    ASSUME NEW S, NEW s \in Seq(S), NEW x
    PROVE  (s \o <<x>>)[Len(s) + 1] = x
<1> DEFINE T == S \cup {x}
<1>1. S \subseteq T /\ x \in T
  OBVIOUS
<1>2. s \in Seq(T)
  BY <1>1, SeqMonotone
<1> HIDE DEF T
<1>3. <<x>> \in Seq(T)
  BY <1>1
<1> QED
  BY <1>2, <1>3

LEMMA FileMetrics ==
    ASSUME NEW config \in Files
    PROVE  /\ Len(config) \in Nat
           /\ \A f \in 1..Len(config) :
                 /\ config[f].name \in Names
                 /\ config[f].metrics \in Seq(Metrics) /\ Len(config[f].metrics) \in Nat
                 /\ \A k \in 1..Len(config[f].metrics) : config[f].metrics[k] \in Metrics
<1>1. config \in Seq([name : Names, enabled : BOOLEAN, metrics : Seq(Metrics)])
  BY CollectionAssumption
<1>2. ASSUME NEW f \in 1..Len(config)
      PROVE  config[f].name \in Names /\ config[f].metrics \in Seq(Metrics)
  <2>1. config[f] \in [name : Names, enabled : BOOLEAN, metrics : Seq(Metrics)]
    BY <1>1, ElementType
  <2> QED
    BY <2>1
<1>3. \A s \in Seq(Metrics) : Len(s) \in Nat /\ \A k \in 1..Len(s) : s[k] \in Metrics
  OBVIOUS
<1> QED
  BY <1>1, <1>2, <1>3

LEMMA NormalizedIsGood ==
    ASSUME NEW m \in Metrics
    PROVE  /\ Normalized(m) \in GoodMetrics
           /\ Normalized(m).id = m.id /\ Normalized(m).labels = m.labels
<1>1. CASE Len(m.dest) # Len(m.labels)
  <2>1. [m EXCEPT !.dest = m.labels] \in Metrics /\ [m EXCEPT !.dest = m.labels].dest = m.labels
        /\ [m EXCEPT !.dest = m.labels].labels = m.labels
        /\ [m EXCEPT !.dest = m.labels].id = m.id
    BY DEF Metrics
  <2> QED
    BY <1>1, <2>1 DEF Normalized, GoodMetrics
<1>2. CASE Len(m.dest) = Len(m.labels)
  BY <1>2 DEF Normalized, GoodMetrics
<1> QED
  BY <1>1, <1>2

LEMMA BuiltIsGood ==
    ASSUME NEW config \in Files
    PROVE  Built(config) \in [DOMAIN Built(config) -> Cols]
<1>1. ASSUME NEW i \in 1..Len(config)
      PROVE  [name |-> config[i].name,
              metrics |-> [k \in 1..Len(config[i].metrics) |-> Normalized(config[i].metrics[k])]]
                \in Cols
  <2>1. /\ config[i].name \in Names /\ Len(config[i].metrics) \in Nat
        /\ \A k \in 1..Len(config[i].metrics) : config[i].metrics[k] \in Metrics
    BY <1>1, FileMetrics
  <2>2. [k \in 1..Len(config[i].metrics) |-> Normalized(config[i].metrics[k])]
           \in [1..Len(config[i].metrics) -> GoodMetrics]
    BY <2>1, NormalizedIsGood
  <2>3. [k \in 1..Len(config[i].metrics) |-> Normalized(config[i].metrics[k])] \in Seq(GoodMetrics)
    BY <2>1, <2>2
  <2> QED
    BY <2>1, <2>3 DEF Cols
<1> QED
  BY <1>1 DEF Built

\* The values of a sample are as many as the labels of the descriptor.
LEMMA PanicsAtOtherTypes ==
    ASSUME NEW m \in GoodMetrics, NEW reply
    PROVE  Panics(m, reply) <=> OtherType(reply)
<1>1. m.dest \in Seq(Labels) /\ m.labels \in Seq(Labels) /\ Len(m.dest) = Len(m.labels)
  BY DEF GoodMetrics, Metrics
<1>2. Len(DescLabels(m)) = Len(m.labels)
  BY <1>1 DEF DescLabels
<1> QED
  BY <1>2 DEF Panics

LEMMA ReplyTypes ==
    ASSUME NEW reply \in Replies
    PROVE  /\ reply.ok \in BOOLEAN /\ reply.latency \in Latencies
           /\ reply.result.samples \in Seq(Samples) /\ Len(reply.result.samples) \in Nat
           /\ reply.result.warnings \in Nat
           /\ ~ reply.ok => reply.result = NoResult
<1>1. reply.ok \in BOOLEAN /\ reply.latency \in Latencies /\ reply.result \in Results \cup {NoResult}
      /\ (~ reply.ok => reply.result = NoResult)
  BY DEF Replies
<1>2. \A r \in Results : r.samples \in Seq(Samples) /\ r.warnings \in Nat
  BY CollectionAssumption
<1>3. NoResult.samples \in Seq(Samples) /\ NoResult.warnings \in Nat
  BY DEF NoResult
<1>4. reply.result.samples \in Seq(Samples) /\ reply.result.warnings \in Nat
  BY <1>1, <1>2, <1>3
<1>5. \A s \in Seq(Samples) : Len(s) \in Nat
  OBVIOUS
<1> QED
  BY <1>1, <1>4, <1>5

LEMMA ReconcileType ==
    ASSUME NEW s \in Stats, NEW reply \in Replies
    PROVE  Reconcile(s, QueryStats(reply)) \in Stats
<1>1. /\ reply.latency \in Latencies /\ Len(reply.result.samples) \in Nat
      /\ reply.result.warnings \in Nat
  BY ReplyTypes
<1>2. s.up \in BOOLEAN /\ s.latency \in Latencies \cup {0} /\ s.samples \in Nat /\ s.warnings \in Nat
  BY DEF Stats
<1>3. s.samples + Len(reply.result.samples) \in Nat /\ s.warnings + reply.result.warnings \in Nat
  BY <1>1, <1>2
<1>4. (s.up /\ QueryStats(reply).up) \in BOOLEAN
  OBVIOUS
<1>5. /\ QueryStats(reply).latency = reply.latency
      /\ QueryStats(reply).samples = Len(reply.result.samples)
      /\ QueryStats(reply).warnings = reply.result.warnings
  BY DEF QueryStats
<1>6. (IF QueryStats(reply).latency > s.latency THEN QueryStats(reply).latency ELSE s.latency)
        \in Latencies \cup {0}
  BY <1>1, <1>2, <1>5
<1> QED
  BY <1>3, <1>4, <1>5, <1>6 DEF Reconcile, Stats

-----------------------------------------------------------------------------
LEMMA ShapeInit == Init => Shape
<1> SUFFICES ASSUME Init PROVE Shape
    OBVIOUS
<1>1. /\ process = "loading" /\ file \in Files /\ collectors = <<>> /\ scraped = <<>>
      /\ answer = "ready" /\ stats = <<>> /\ replies = <<>> /\ reported = {}
      /\ clash = FALSE /\ scrapes = 0 /\ reloads = 0
  BY DEF Init
<1>2. /\ <<>> \in [DOMAIN <<>> -> Cols] /\ <<>> \in [DOMAIN <<>> -> Stats]
      /\ <<>> \in [DOMAIN <<>> -> Seq(Replies)] /\ DOMAIN <<>> = {}
  OBVIOUS
<1>3. Typed
  <2>1. /\ clash \in BOOLEAN
        /\ scrapes \in 0..MaxScrapes /\ reloads \in 0..MaxReloads
    <3>1. clash \in BOOLEAN
      BY <1>1
    <3>2. scrapes \in 0..MaxScrapes /\ reloads \in 0..MaxReloads
      BY <1>1, Bounds
    <3> QED
      BY <3>1, <3>2
  <2>2. collectors \in [DOMAIN collectors -> Cols] /\ scraped \in [Indices -> Cols]
        /\ stats \in [Indices -> Stats] /\ replies \in [Indices -> Seq(Replies)]
    BY <1>1, <1>2 DEF Indices
  <2> QED
    BY <1>1, <2>1, <2>2 DEF Typed
<1>4. Progress /\ BuiltFromFile
  BY <1>1, <1>2 DEF Progress, BuiltFromFile, Indices
<1>5. OnlyOtherTypesKill
  BY <1>1 DEF OnlyOtherTypesKill
<1> QED
  BY <1>3, <1>4, <1>5 DEF Shape

LEMMA LoadShape == ASSUME Shape, Load \/ Reload PROVE Shape'
<1>1. UNCHANGED <<scraped, answer, stats, replies, reported, clash, scrapes>>
  BY DEF Load, Reload, scrapeVars
<1>2. Indices' = Indices
  BY <1>1 DEF Indices
<1>3. /\ process' \in {"loading", "serving", "refused", "stopped"} /\ file' \in Files
      /\ collectors' \in [DOMAIN collectors' -> Cols] /\ reloads' \in 0..MaxReloads
      /\ BuiltFromFile'
  <2>1. CASE Load
    BY <2>1, BuiltIsGood DEF Load, Shape, Typed, BuiltFromFile
  <2>2. CASE Reload
    <3>1. reloads' \in 0..MaxReloads
      BY <2>2, Bounds DEF Reload, Shape, Typed
    <3> QED
      BY <2>2, <3>1 DEF Reload, Shape, Typed, BuiltFromFile
  <2> QED
    BY <2>1, <2>2
<1>4. Typed'
  BY <1>1, <1>2, <1>3 DEF Shape, Typed
<1>5. Progress'
  BY <1>1, <1>2 DEF Shape, Progress
<1>6. OnlyOtherTypesKill'
  BY <1>3 DEF OnlyOtherTypesKill
<1> QED
  BY <1>3, <1>4, <1>5, <1>6 DEF Shape

LEMMA ScrapeShape == ASSUME Shape, Scrape PROVE Shape'
<1>1. /\ UNCHANGED <<process, file, collectors, reloads>> /\ process = "serving"
      /\ scraped' = collectors /\ answer' = "none"
      /\ stats' = [i \in DOMAIN collectors |-> NoStats]
      /\ replies' = [i \in DOMAIN collectors |-> <<>>]
      /\ reported' = {} /\ clash' = FALSE
  BY DEF Scrape
<1>2. Indices' = DOMAIN collectors
  BY <1>1 DEF Indices
<1>3. NoStats \in Stats /\ <<>> \in Seq(Replies)
  BY DEF NoStats, Stats
<1>4. Typed'
  <2>1. scrapes' \in 0..MaxScrapes /\ clash' \in BOOLEAN
    <3>1. clash' \in BOOLEAN
      BY <1>1
    <3>2. scrapes' \in 0..MaxScrapes
      BY Bounds DEF Scrape, Shape, Typed
    <3> QED
      BY <3>1, <3>2
  <2>2. stats' \in [Indices' -> Stats] /\ replies' \in [Indices' -> Seq(Replies)]
    BY <1>1, <1>2, <1>3
  <2> QED
    BY <1>1, <1>2, <2>1, <2>2 DEF Shape, Typed
<1>5. Progress'
  <2>1. ASSUME NEW i \in Indices' PROVE Len(replies'[i]) = 0 /\ Len(scraped'[i].metrics) \in Nat
    <3>1. replies'[i] = <<>> /\ collectors[i] \in Cols
      BY <1>1, <1>2 DEF Shape, Typed
    <3> QED
      BY <1>1, <3>1 DEF Cols
  <2> QED
    BY <1>1, <2>1 DEF Progress
<1> QED
  BY <1>1, <1>4, <1>5 DEF Shape, BuiltFromFile, OnlyOtherTypesKill

\* The metric that collector i asks about, and what its answer changes.
Asked(i) == scraped[i].metrics[Len(replies[i]) + 1]

QueryWith(i, reply) ==
    /\ answer = "none" /\ Len(replies[i]) + 1 \in 1..Len(scraped[i].metrics)
    /\ process # "dead"
    /\ process' = IF OtherType(reply) THEN "dead" ELSE process
    /\ stats' = [stats EXCEPT ![i] = Reconcile(@, QueryStats(reply))]
    /\ replies' = [replies EXCEPT ![i] = Append(@, reply)]
    /\ series' = series \cup NewSeries(scraped[i], Asked(i), reply)
    /\ clash' = (clash \/ Clashes(series, NewSeries(scraped[i], Asked(i), reply))
                       \/ Cardinality(NewSeries(scraped[i], Asked(i), reply))
                              < Cardinality(Exported(Asked(i), reply)))
    /\ UNCHANGED <<file, collectors, reloads, scraped, answer, reported, scrapes>>

LEMMA QueryEffect ==
    ASSUME Shape, NEW i \in Indices, Query(i)
    PROVE  Asked(i) \in GoodMetrics /\ \E reply \in Replies : QueryWith(i, reply)
<1>1. /\ replies[i] \in Seq(Replies) /\ scraped[i].metrics \in Seq(GoodMetrics)
      /\ Len(replies[i]) < Len(scraped[i].metrics) /\ answer = "none" /\ process # "dead"
  BY DEF Shape, Typed, Cols, Query, Asking, Gathering
<1>2. Len(replies[i]) \in Nat /\ Len(scraped[i].metrics) \in Nat
  BY <1>1
<1>3. Len(replies[i]) + 1 \in 1..Len(scraped[i].metrics) /\ Asked(i) \in GoodMetrics
  BY <1>1, <1>2 DEF Asked
<1>4. PICK reply \in Replies :
          /\ process' = IF Panics(Asked(i), reply) THEN "dead" ELSE process
          /\ stats' = [stats EXCEPT ![i] = Reconcile(@, QueryStats(reply))]
          /\ replies' = [replies EXCEPT ![i] = Append(@, reply)]
          /\ series' = series \cup NewSeries(scraped[i], Asked(i), reply)
          /\ clash' = (clash \/ Clashes(series, NewSeries(scraped[i], Asked(i), reply))
                             \/ Cardinality(NewSeries(scraped[i], Asked(i), reply))
                                    < Cardinality(Exported(Asked(i), reply)))
  BY DEF Query, Asked
<1>5. process' = IF OtherType(reply) THEN "dead" ELSE process
  BY <1>3, <1>4, PanicsAtOtherTypes
<1>6. UNCHANGED <<file, collectors, reloads, scraped, answer, reported, scrapes>>
  BY DEF Query
<1> QED
  BY <1>1, <1>3, <1>4, <1>5, <1>6 DEF QueryWith

LEMMA QueryShape == ASSUME Shape, NEW i \in Indices, Query(i) PROVE Shape'
<1>1. PICK reply \in Replies :
        /\ answer = "none" /\ Len(replies[i]) + 1 \in 1..Len(scraped[i].metrics)
        /\ process # "dead"
        /\ process' = IF OtherType(reply) THEN "dead" ELSE process
        /\ stats' = [stats EXCEPT ![i] = Reconcile(@, QueryStats(reply))]
        /\ replies' = [replies EXCEPT ![i] = Append(@, reply)]
        /\ UNCHANGED <<file, collectors, reloads, scraped, answer, reported, scrapes>>
  BY QueryEffect DEF QueryWith
<1>2. Indices' = Indices
  BY <1>1 DEF Indices
<1>3. \A j \in Indices : replies[j] \in Seq(Replies) /\ stats[j] \in Stats
  BY DEF Shape, Typed
<1>4. Append(replies[i], reply) \in Seq(Replies) /\ Len(Append(replies[i], reply)) = Len(replies[i]) + 1
  BY <1>3
<1>5. Reconcile(stats[i], QueryStats(reply)) \in Stats
  BY <1>3, ReconcileType
<1>6. clash' \in BOOLEAN
  BY DEF Query
<1>7. Typed'
  <2>1. stats' \in [Indices -> Stats] /\ replies' \in [Indices -> Seq(Replies)]
    BY <1>1, <1>4, <1>5 DEF Shape, Typed
  <2> QED
    BY <1>1, <1>2, <1>6, <2>1 DEF Shape, Typed
<1>8. Progress'
  <2>1. \A j \in Indices : replies'[j] = IF j = i THEN Append(replies[i], reply) ELSE replies[j]
    BY <1>1 DEF Shape, Typed
  <2>2. i \notin reported
    <3>1. Len(scraped[i].metrics) \in Nat /\ Len(replies[i]) \in Nat
      BY <1>3 DEF Shape, Typed, Cols
    <3> QED
      BY <1>1, <3>1 DEF Shape, Progress
  <2>3. reported \subseteq Indices
    BY DEF Shape, Typed
  <2>4. \A j \in Indices : Len(replies'[j]) <= Len(scraped[j].metrics)
    BY <1>1, <1>4, <2>1 DEF Shape, Progress
  <2>5. \A j \in reported : Len(replies'[j]) = Len(scraped[j].metrics)
    BY <2>1, <2>2, <2>3 DEF Shape, Progress
  <2> QED
    BY <1>1, <1>2, <2>4, <2>5 DEF Progress
<1>9. OnlyOtherTypesKill'
  <2> SUFFICES ASSUME process' = "dead"
               PROVE  \E j \in Indices : \E k \in 1..Len(replies'[j]) : OtherType(replies'[j][k])
    BY <1>2 DEF OnlyOtherTypesKill, OtherType
  <2>1. OtherType(reply)
    BY <1>1
  <2>2. replies'[i] = Append(replies[i], reply)
    BY <1>1 DEF Shape, Typed
  <2>3. /\ Len(replies[i]) + 1 \in 1..Len(replies'[i])
        /\ replies'[i][Len(replies[i]) + 1] = reply
    BY <1>3, <1>4, <2>2
  <2> QED
    BY <2>1, <2>3
<1> QED
  BY <1>1, <1>7, <1>8, <1>9 DEF Shape, BuiltFromFile

LEMMA ReportShape == ASSUME Shape, Answer \/ \E i \in Indices : Report(i) PROVE Shape'
<1>1. /\ UNCHANGED <<process, file, collectors, reloads, scraped, stats, replies, scrapes>>
      /\ Indices' = Indices
  BY DEF Report, Answer, Indices
<1>2. ASSUME NEW i \in Indices, Report(i) PROVE Shape'
  <2>1. /\ UNCHANGED answer /\ answer = "none" /\ reported' = reported \cup {i}
        /\ Len(replies[i]) = Len(scraped[i].metrics) /\ clash' \in BOOLEAN
    BY <1>2 DEF Report, Gathering
  <2>2. Typed'
    BY <1>1, <2>1 DEF Shape, Typed
  <2>3. Progress'
    BY <1>1, <2>1 DEF Shape, Progress
  <2> QED
    BY <1>1, <2>2, <2>3 DEF Shape, BuiltFromFile, OnlyOtherTypesKill
<1>3. CASE Answer
  <2>1. answer' \in {"200", "500"} /\ UNCHANGED <<clash, reported>> /\ reported = Indices
    BY <1>3 DEF Answer
  <2>2. Typed'
    BY <1>1, <2>1 DEF Shape, Typed
  <2>3. Progress'
    BY <1>1, <2>1 DEF Shape, Progress
  <2> QED
    BY <1>1, <2>2, <2>3 DEF Shape, BuiltFromFile, OnlyOtherTypesKill
<1> QED
  BY <1>2, <1>3

LEMMA ShapeStep == Shape /\ [Next]_vars => Shape'
<1> SUFFICES ASSUME Shape, [Next]_vars PROVE Shape'
    OBVIOUS
<1>1. CASE UNCHANGED vars
  BY <1>1 DEF vars, scrapeVars, Shape, Typed, Progress, BuiltFromFile, OnlyOtherTypesKill, Indices
<1> QED
  BY <1>1, LoadShape, ScrapeShape, QueryShape, ReportShape DEF Next, Finish

LEMMA ShapeAlways == Spec => []Shape
BY ShapeInit, ShapeStep, PTL DEF Spec

-----------------------------------------------------------------------------
(***************************************************************************)
(* The type invariant.                                                     *)
(***************************************************************************)
THEOREM TypeCorrect == Spec => []TypeOK
<1>1. Shape => TypeOK
  BY DEF Shape, Typed, Progress, Stats, TypeOK
<1> QED
  BY <1>1, ShapeAlways, PTL

(***************************************************************************)
(* The process dies of no reply but a result that is no vector, whatever   *)
(* destination labels the file gives (internal/impl/config.go:45,          *)
(* querier.go:52, querier.go:58).                                          *)
(***************************************************************************)
THEOREM OtherTypesCorrect == Spec => []OnlyOtherTypesKill
<1>1. Shape => OnlyOtherTypesKill
  BY DEF Shape
<1> QED
  BY <1>1, ShapeAlways, PTL

(***************************************************************************)
(* Each descriptor that is exported has the labels that the documentation  *)
(* gives for a metric of the file (doc-metrics.go:128).                    *)
(***************************************************************************)
THEOREM DocumentationCorrect == Spec => []ExportedAsDocumented
<1>1. Shape => ExportedAsDocumented
  <2> SUFFICES ASSUME Shape, process = "serving",
                      NEW i \in DOMAIN collectors, NEW m \in ElementsOf(collectors[i].metrics)
               PROVE  \E f \in 1..Len(file) : \E n \in ElementsOf(file[f].metrics) :
                         /\ FQName(file[f], n.id) = FQName(collectors[i], m.id)
                         /\ DocumentedLabels(n) = DescLabels(m)
      BY DEF ExportedAsDocumented
  <2>1. /\ file \in Files /\ i \in 1..Len(file)
        /\ collectors[i].name = file[i].name
        /\ collectors[i].metrics =
             [k \in 1..Len(file[i].metrics) |-> Normalized(file[i].metrics[k])]
    <3>1. file \in Files /\ collectors = Built(file)
      BY DEF Shape, Typed, BuiltFromFile
    <3>2. i \in {j \in 1..Len(file) : file[j].enabled}
      BY <3>1 DEF Built
    <3> QED
      BY <3>1, <3>2 DEF Built
  <2>2. Len(file[i].metrics) \in Nat /\ \A k \in 1..Len(file[i].metrics) : file[i].metrics[k] \in Metrics
    BY <2>1, FileMetrics
  <2>3. Len(collectors[i].metrics) = Len(file[i].metrics)
    BY <2>1, <2>2
  <2>4. PICK k \in 1..Len(file[i].metrics) : m = Normalized(file[i].metrics[k])
    BY <2>1, <2>3 DEF ElementsOf
  <2> DEFINE n == file[i].metrics[k]
  <2>5. n \in ElementsOf(file[i].metrics) /\ n \in Metrics
    BY <2>2 DEF ElementsOf
  <2>6. FQName(file[i], n.id) = FQName(collectors[i], m.id)
    BY <2>1, <2>4, <2>5, NormalizedIsGood DEF FQName
  <2>7. DocumentedLabels(n) = DescLabels(m)
    <3>1. /\ n.dest \in Seq(Labels) /\ n.labels \in Seq(Labels)
          /\ m.labels = n.labels /\ m.dest = DocumentedLabels(n)
      BY <2>4, <2>5, NormalizedIsGood DEF Metrics, Normalized, DocumentedLabels
    <3>2. m \in GoodMetrics
      BY <2>4, <2>5, NormalizedIsGood
    <3>3. m.dest = <<>> => m.labels = <<>>
      BY <3>1, <3>2 DEF GoodMetrics
    <3> QED
      BY <3>1, <3>3 DEF DescLabels
  <2> QED
    BY <2>1, <2>5, <2>6, <2>7
<1> QED
  BY <1>1, ShapeAlways, PTL

-----------------------------------------------------------------------------
(***************************************************************************)
(* What has been contributed to a scrape so far, and what a step adds.     *)
(***************************************************************************)
Contributed == (UNION {SampleIndices(i) : i \in Indices}) \cup reported \X {0} \X (1..4)

LEMMA SampleIndicesAre ==
    ASSUME NEW i
    PROVE  /\ \A c : c \in SampleIndices(i) <=>
                        \E k \in 1..Len(replies[i]) :
                           \E a \in Exported(scraped[i].metrics[k], replies[i][k]) : c = <<i, k, a>>
           /\ \A c : c \in SampleIndices(i)' <=>
                        \E k \in 1..Len(replies'[i]) :
                           \E a \in Exported(scraped'[i].metrics[k], replies'[i][k]) : c = <<i, k, a>>
<1>1. SampleIndices(i) = UNION {{<<i, k, a>> : a \in Exported(scraped[i].metrics[k], replies[i][k])} :
                                    k \in 1..Len(replies[i])}
  BY DEF SampleIndices, Exported, Known
<1>2. SampleIndices(i)' = UNION {{<<i, k, a>> : a \in Exported(scraped'[i].metrics[k], replies'[i][k])} :
                                     k \in 1..Len(replies'[i])}
  BY DEF SampleIndices, Exported, Known
<1>3. \A c : c \in SampleIndices(i) <=>
                \E k \in 1..Len(replies[i]) :
                   \E a \in Exported(scraped[i].metrics[k], replies[i][k]) : c = <<i, k, a>>
  BY <1>1
<1>4. \A c : c \in SampleIndices(i)' <=>
                \E k \in 1..Len(replies'[i]) :
                   \E a \in Exported(scraped'[i].metrics[k], replies'[i][k]) : c = <<i, k, a>>
  BY <1>2
<1> QED
  BY <1>3, <1>4

LEMMA ContributedAre ==
    /\ \A c : c \in Contributed <=> \/ \E i \in Indices : c \in SampleIndices(i)
                                    \/ \E i \in reported, f \in 1..4 : c = <<i, 0, f>>
    /\ \A c : c \in Contributed' <=> \/ \E i \in Indices' : c \in SampleIndices(i)'
                                     \/ \E i \in reported', f \in 1..4 : c = <<i, 0, f>>
<1> DEFINE Figs(S) == S \X {0} \X (1..4)
           Old == UNION {SampleIndices(i) : i \in Indices}
           New == UNION {SampleIndices(i)' : i \in Indices'}
<1>1. \A S, c : c \in Figs(S) <=> \E i \in S, f \in 1..4 : c = <<i, 0, f>>
  OBVIOUS
<1>2. Contributed = Old \cup Figs(reported)
  BY Zenon DEF Contributed
<1>4. Contributed' = New \cup Figs(reported')
  BY Zenon DEF Contributed
<1>3. /\ \A c : c \in Old <=> \E i \in Indices : c \in SampleIndices(i)
      /\ \A c : c \in New <=> \E i \in Indices' : c \in SampleIndices(i)'
  OBVIOUS
<1> HIDE DEF Figs, Old, New
<1> QED
  BY <1>1, <1>2, <1>3, <1>4

\* The samples of the answer that collector i is given.
Fresh(i, reply) == {<<i, Len(replies[i]) + 1, a>> : a \in Exported(Asked(i), reply)}

LEMMA QueryContributes ==
    ASSUME Shape, NEW i \in Indices, NEW reply \in Replies, QueryWith(i, reply)
    PROVE  /\ SampleIndices(i)' = SampleIndices(i) \cup Fresh(i, reply)
           /\ \A j \in Indices : j # i => SampleIndices(j)' = SampleIndices(j)
           /\ Contributed' = Contributed \cup Fresh(i, reply)
           /\ Contributed \cap Fresh(i, reply) = {}
           /\ \A c \in Contributed : Given(c)' = Given(c)
           /\ \A k, a : k = Len(replies[i]) + 1 /\ a \in Exported(Asked(i), reply)
                 => Given(<<i, k, a>>)' = SeriesOf(scraped[i], Asked(i), reply.result.samples[a])
<1> DEFINE k == Len(replies[i]) + 1
<1>1. /\ Indices' = Indices /\ scraped' = scraped /\ reported' = reported
      /\ replies' = [replies EXCEPT ![i] = Append(@, reply)]
  BY DEF QueryWith, Indices
<1>2. /\ \A j \in Indices : replies[j] \in Seq(Replies) /\ Len(replies[j]) \in Nat
      /\ reported \subseteq Indices /\ i \notin reported
  <2>1. \A j \in Indices : replies[j] \in Seq(Replies)
    BY DEF Shape, Typed
  <2>2. \A j \in Indices : Len(replies[j]) \in Nat
    BY <2>1
  <2>3. Len(scraped[i].metrics) \in Nat /\ Len(replies[i]) < Len(scraped[i].metrics)
    BY <2>2 DEF QueryWith, Shape, Typed, Cols
  <2> QED
    BY <2>1, <2>2, <2>3 DEF Shape, Typed, Progress
<1>3. /\ \A j \in Indices : j # i => replies'[j] = replies[j]
      /\ Len(replies'[i]) = k /\ replies'[i][k] = reply
      /\ \A l \in 1..Len(replies[i]) : replies'[i][l] = replies[i][l]
  <2>1. /\ \A j \in Indices : j # i => replies'[j] = replies[j]
        /\ replies'[i] = Append(replies[i], reply)
    BY <1>1 DEF Shape, Typed
  <2> QED
    BY <1>2, <2>1
<1>4. \A l : l \in 1..k <=> l \in 1..Len(replies[i]) \/ l = k
  BY <1>2
<1>5. SampleIndices(i)' = SampleIndices(i) \cup Fresh(i, reply)
  <2>1. ASSUME NEW c PROVE c \in SampleIndices(i)' <=> c \in SampleIndices(i) \cup Fresh(i, reply)
    <3> DEFINE Of(l, r) == \E a \in Exported(scraped[i].metrics[l], r) : c = <<i, l, a>>
    <3>1. c \in SampleIndices(i)' <=> \E l \in 1..k : Of(l, replies'[i][l])
      BY <1>1, <1>3, SampleIndicesAre
    <3>2. c \in SampleIndices(i) <=> \E l \in 1..Len(replies[i]) : Of(l, replies[i][l])
      BY SampleIndicesAre
    <3>3. c \in Fresh(i, reply) <=> Of(k, reply)
      BY DEF Fresh, Asked
    <3> HIDE DEF Of, k
    <3>4. (\E l \in 1..k : Of(l, replies'[i][l]))
             <=> (\E l \in 1..Len(replies[i]) : Of(l, replies[i][l])) \/ Of(k, reply)
      BY <1>3, <1>4
    <3> QED
      BY <3>1, <3>2, <3>3, <3>4
  <2> QED
    BY <2>1
<1>6. \A j \in Indices : j # i => SampleIndices(j)' = SampleIndices(j)
  BY <1>1, <1>3 DEF SampleIndices
<1>7. Contributed' = Contributed \cup Fresh(i, reply)
  BY <1>1, <1>5, <1>6, ContributedAre
<1>8. Contributed \cap Fresh(i, reply) = {}
  <2>1. \A c \in Fresh(i, reply) : c[1] = i /\ c[2] = k
    BY DEF Fresh
  <2>2. ASSUME NEW c \in Contributed, c[1] = i, c[2] = k PROVE FALSE
    <3>1. k \notin 1..Len(replies[i]) /\ k # 0
      BY <1>2
    <3>2. \A j \in Indices : c \in SampleIndices(j) => c[1] = j /\ c[2] \in 1..Len(replies[j])
      BY SampleIndicesAre
    <3> QED
      BY <2>2, <3>1, <3>2, ContributedAre
  <2> QED
    BY <2>1, <2>2
<1>9. \A c \in Contributed : Given(c)' = Given(c)
  <2>1. ASSUME NEW j \in Indices, NEW c \in SampleIndices(j)
        PROVE  Given(c)' = Given(c)
    <3>1. PICK l \in 1..Len(replies[j]) :
             \E a \in Exported(scraped[j].metrics[l], replies[j][l]) : c = <<j, l, a>>
      BY <2>1, SampleIndicesAre
    <3>2. c[1] = j /\ c[2] = l /\ replies'[j][l] = replies[j][l]
      BY <1>3, <3>1
    <3> QED
      BY <1>1, <3>2 DEF Given
  <2>2. ASSUME NEW j \in reported, NEW f \in 1..4
        PROVE  Given(<<j, 0, f>>)' = Given(<<j, 0, f>>)
    BY <1>1 DEF Given
  <2>3. ASSUME NEW c \in Contributed PROVE Given(c)' = Given(c)
    <3>1. CASE \E j \in Indices : c \in SampleIndices(j)
      BY <2>1, <3>1
    <3>2. CASE \E j \in reported, f \in 1..4 : c = <<j, 0, f>>
      BY <2>2, <3>2
    <3> QED
      BY <3>1, <3>2, ContributedAre
  <2> QED
    BY <2>3
<1>10. ASSUME NEW l, NEW a, l = Len(replies[i]) + 1, a \in Exported(Asked(i), reply)
       PROVE  Given(<<i, l, a>>)' = SeriesOf(scraped[i], Asked(i), reply.result.samples[a])
  <2>1. l # 0
    BY <1>2, <1>10
  <2>2. Given(<<i, l, a>>)' = SeriesOf(scraped'[i], scraped'[i].metrics[l],
                                       replies'[i][l].result.samples[a])
    BY <2>1 DEF Given
  <2> QED
    BY <1>1, <1>3, <1>10, <2>2 DEF Asked
<1> QED
  BY <1>5, <1>6, <1>7, <1>8, <1>9, <1>10

\* The figures that collector i reports.
FigureIndices(i) == {<<i, 0, f>> : f \in 1..4}

LEMMA ReportContributes ==
    ASSUME Shape, NEW i \in Indices, Report(i)
    PROVE  /\ Contributed' = Contributed \cup FigureIndices(i)
           /\ Contributed \cap FigureIndices(i) = {}
           /\ \A c \in Contributed : Given(c)' = Given(c)
           /\ \A f \in 1..4 : Given(<<i, 0, f>>)' = Figure(scraped[i], f)
<1>1. /\ Indices' = Indices /\ UNCHANGED <<scraped, replies>> /\ reported' = reported \cup {i}
      /\ i \notin reported
  BY DEF Report, Indices
<1>2. \A j \in Indices : SampleIndices(j)' = SampleIndices(j)
  BY <1>1 DEF SampleIndices
<1>3. Contributed' = Contributed \cup FigureIndices(i)
  BY <1>1, <1>2, ContributedAre DEF FigureIndices
<1>4. Contributed \cap FigureIndices(i) = {}
  <2>1. ASSUME NEW f \in 1..4, <<i, 0, f>> \in Contributed PROVE FALSE
    <3>1. \A j \in Indices : <<i, 0, f>> \notin SampleIndices(j)
      <4>1. \A j \in Indices : \A c : c \in SampleIndices(j) => c[2] \in 1..Len(replies[j])
        BY SampleIndicesAre
      <4> QED
        BY <4>1
    <3> QED
      BY <1>1, <2>1, <3>1, ContributedAre
  <2> QED
    BY <2>1 DEF FigureIndices
<1>5. \A c : Given(c)' = Given(c)
  BY <1>1 DEF Given
<1>6. \A f \in 1..4 : Given(<<i, 0, f>>) = Figure(scraped[i], f)
  BY DEF Given
<1> QED
  BY <1>3, <1>4, <1>5, <1>6

-----------------------------------------------------------------------------
(***************************************************************************)
(* The series of a scrape are what has been contributed.                   *)
(***************************************************************************)
Gathered == series = {Given(c) : c \in Contributed}

LEMMA GatheredStep == Shape /\ Gathered /\ [Next]_vars => Gathered'
<1> SUFFICES ASSUME Shape, Gathered, [Next]_vars PROVE Gathered'
    OBVIOUS
<1>1. CASE Load \/ Reload \/ Answer \/ UNCHANGED vars
  <2>1. UNCHANGED <<scraped, replies, reported, series>>
    BY <1>1 DEF Load, Reload, Answer, vars, scrapeVars
  <2>2. Contributed' = Contributed /\ \A c : Given(c)' = Given(c)
    BY <2>1 DEF Contributed, SampleIndices, Given, Indices
  <2> QED
    BY <2>1, <2>2 DEF Gathered
<1>2. CASE Scrape
  <2>1. /\ series' = {} /\ reported' = {} /\ Indices' = DOMAIN collectors
        /\ replies' = [i \in DOMAIN collectors |-> <<>>]
    BY <1>2 DEF Scrape, Indices
  <2>2. \A i \in Indices' : \A c : c \notin SampleIndices(i)'
    <3>1. \A i \in Indices' : 1..Len(replies'[i]) = {}
      BY <2>1
    <3> QED
      BY <3>1, SampleIndicesAre
  <2>3. Contributed' = {}
    BY <2>1, <2>2, ContributedAre
  <2> QED
    BY <2>1, <2>3 DEF Gathered
<1>3. ASSUME NEW i \in Indices, Query(i) PROVE Gathered'
  <2>1. PICK reply \in Replies : QueryWith(i, reply)
    BY <1>3, QueryEffect
  <2>2. series' = series \cup NewSeries(scraped[i], Asked(i), reply)
    BY <2>1 DEF QueryWith
  <2>3. NewSeries(scraped[i], Asked(i), reply) = {Given(c)' : c \in Fresh(i, reply)}
    <3>1. PICK k : k = Len(replies[i]) + 1
      OBVIOUS
    <3>2. \A a \in Exported(Asked(i), reply) :
             Given(<<i, k, a>>)' = SeriesOf(scraped[i], Asked(i), reply.result.samples[a])
      BY <2>1, <3>1, QueryContributes
    <3>3. Fresh(i, reply) = {<<i, k, a>> : a \in Exported(Asked(i), reply)}
      BY <3>1 DEF Fresh
    <3> QED
      BY <3>2, <3>3 DEF NewSeries
  <2>4. series = {Given(c)' : c \in Contributed}
    BY <2>1, QueryContributes DEF Gathered
  <2> QED
    BY <2>1, <2>2, <2>3, <2>4, QueryContributes DEF Gathered
<1>4. ASSUME NEW i \in Indices, Report(i) PROVE Gathered'
  <2>1. series' = series \cup OwnSeries(scraped[i])
    BY <1>4 DEF Report
  <2>2. OwnSeries(scraped[i]) = {Given(c)' : c \in FigureIndices(i)}
    BY <1>4, ReportContributes DEF OwnSeries, FigureIndices
  <2>3. series = {Given(c)' : c \in Contributed}
    BY <1>4, ReportContributes DEF Gathered
  <2> QED
    BY <1>4, <2>1, <2>2, <2>3, ReportContributes DEF Gathered
<1> QED
  BY <1>1, <1>2, <1>3, <1>4 DEF Next, Finish

LEMMA GatheredAlways == Spec => []Gathered
<1>1. Init => Gathered
  <2> SUFFICES ASSUME Init PROVE Gathered
      OBVIOUS
  <2>1. series = {} /\ reported = {} /\ Indices = {}
    BY DEF Init, Indices
  <2>2. Contributed = {}
    BY <2>1, ContributedAre
  <2> QED
    BY <2>1, <2>2 DEF Gathered
<1> QED
  BY <1>1, GatheredStep, ShapeAlways, PTL DEF Spec

(***************************************************************************)
(* A query that fails and a sample without a value cost the answer nothing *)
(* else: it holds every other sample and the figures of all                *)
(* (generic_collector.go:117, querier.go:34).                              *)
(***************************************************************************)
THEOREM NothingElseMissing == Spec => []FailureCostsNoOther
<1>1. Shape /\ Gathered => FailureCostsNoOther
  <2>1. reported = Indices => Contributed = Contributions
    BY DEF Contributed, Contributions
  <2> QED
    BY <2>1 DEF Shape, Progress, Gathered, FailureCostsNoOther
<1> QED
  BY <1>1, ShapeAlways, GatheredAlways, PTL

-----------------------------------------------------------------------------
(***************************************************************************)
(* The registry has refused a series just when two contributions are the   *)
(* same or differ in kind under one name.                                  *)
(***************************************************************************)
Conflict(x, y) == x.name = y.name /\ (x = y \/ x.kind # y.kind)

Conflicting == \E c, d \in Contributed : c # d /\ Conflict(Given(c), Given(d))

ClashTells ==
    /\ clash <=> Conflicting
    /\ answer = "500" => clash
    /\ answer = "200" => ~ clash

\* A function on a finite set takes fewer values just when it takes one twice.
LEMMA ImageCount ==
    ASSUME NEW S, IsFiniteSet(S), NEW f, f = [x \in S |-> f[x]]
    PROVE  /\ IsFiniteSet({f[x] : x \in S})
           /\ Cardinality({f[x] : x \in S}) \in Nat /\ Cardinality(S) \in Nat
           /\ Cardinality({f[x] : x \in S}) <= Cardinality(S)
           /\ Cardinality({f[x] : x \in S}) < Cardinality(S)
                 <=> \E x, y \in S : x # y /\ f[x] = f[y]
<1> DEFINE T == {f[x] : x \in S}
<1>1. f \in Surjection(S, T)
  BY DEF Surjection
<1>2. /\ IsFiniteSet(T) /\ Cardinality(T) <= Cardinality(S)
      /\ Cardinality(T) = Cardinality(S) <=> f \in Injection(S, T)
  BY <1>1, FS_Surjection
<1>3. Cardinality(T) \in Nat /\ Cardinality(S) \in Nat
  BY <1>2, FS_CardinalityType
<1>4. f \in Injection(S, T) <=> ~ \E x, y \in S : x # y /\ f[x] = f[y]
  BY DEF Injection, IsInjective
<1> QED
  BY <1>2, <1>3, <1>4

LEMMA ExportedFinite ==
    ASSUME NEW m, NEW reply \in Replies
    PROVE  IsFiniteSet(Exported(m, reply))
<1>1. IsFiniteSet(1..Len(reply.result.samples))
  BY ReplyTypes, FS_Interval
<1>2. Exported(m, reply) \in SUBSET (1..Len(reply.result.samples))
  BY DEF Exported
<1> QED
  BY <1>1, <1>2, FS_Subset

\* The series of one query have one name and one kind.
LEMMA OneQuery ==
    ASSUME NEW col, NEW m, NEW reply \in Replies
    PROVE  Cardinality(NewSeries(col, m, reply)) < Cardinality(Exported(m, reply))
              <=> \E a, b \in Exported(m, reply) :
                     /\ a # b
                     /\ Conflict(SeriesOf(col, m, reply.result.samples[a]),
                                 SeriesOf(col, m, reply.result.samples[b]))
<1> DEFINE E == Exported(m, reply)
           f == [a \in E |-> SeriesOf(col, m, reply.result.samples[a])]
<1>1. Cardinality({f[a] : a \in E}) < Cardinality(E) <=> \E a, b \in E : a # b /\ f[a] = f[b]
  <2>1. IsFiniteSet(E) /\ f = [a \in E |-> f[a]]
    BY ExportedFinite
  <2> HIDE DEF E, f
  <2> QED
    BY <2>1, ImageCount
<1>2. {f[a] : a \in E} = NewSeries(col, m, reply)
  BY DEF NewSeries
<1>3. \A s, t : Conflict(SeriesOf(col, m, s), SeriesOf(col, m, t))
                   <=> SeriesOf(col, m, s) = SeriesOf(col, m, t)
  BY DEF Conflict, SeriesOf
<1>4. \A a \in E : f[a] = SeriesOf(col, m, reply.result.samples[a])
  OBVIOUS
<1> HIDE DEF f
<1> QED
  BY <1>1, <1>2, <1>3, <1>4

\* The names of a collector's figures are different.
LEMMA FiguresDiffer ==
    ASSUME NEW col \in Cols, NEW f \in 1..4, NEW g \in 1..4, f # g
    PROVE  ~ Conflict(Figure(col, f), Figure(col, g))
<1>1. col.name \in Seq(STRING)
  BY DEF Cols, Names
<1>2. Figures[f] # Figures[g]
  <2>1. /\ Figures[1] = "up" /\ Figures[2] = "query_latency_milliseconds"
        /\ Figures[3] = "warnings" /\ Figures[4] = "query_samples"
    BY DEF Figures
  <2>2. \A h \in 1..4 : h = 1 \/ h = 2 \/ h = 3 \/ h = 4
    OBVIOUS
  <2> QED
    BY <2>1, <2>2
<1>3. col.name \o <<Figures[f]>> # col.name \o <<Figures[g]>>
  <2>1. ASSUME NEW x
        PROVE  (col.name \o <<x>>)[Len(col.name) + 1] = x
    BY <1>1, LastOfJoined
  <2> QED
    BY <1>2, <2>1
<1> QED
  BY <1>3 DEF Conflict, Figure, FQName

\* Differing in kind under one name, or being the same, goes both ways.
LEMMA ConflictSymmetric == \A x, y : Conflict(x, y) <=> Conflict(y, x)
BY DEF Conflict

\* A new series clashes with one of the gathered ones when the two conflict.
LEMMA ClashesConflict ==
    \A S, N : Clashes(S, N) <=> \E x \in S, y \in N : Conflict(x, y)
<1>1. \A x, y : Conflict(x, y) <=> x = y \/ Differ(y, x)
  BY DEF Conflict, Differ
<1> QED
  BY <1>1 DEF Clashes

LEMMA QueryClash ==
    ASSUME Shape, Gathered, clash <=> Conflicting, NEW i \in Indices, Query(i)
    PROVE  clash' <=> Conflicting'
<1>1. PICK reply \in Replies : QueryWith(i, reply)
  BY QueryEffect
<1>2. PICK k : k = Len(replies[i]) + 1
  OBVIOUS
<1> DEFINE A == Contributed
           F == Fresh(i, reply)
           E == Exported(Asked(i), reply)
           new == NewSeries(scraped[i], Asked(i), reply)
           G == [c \in A \cup F |-> Given(c)']
<1>3. /\ Contributed' = A \cup F /\ A \cap F = {}
      /\ \A c \in A : Given(c)' = Given(c)
      /\ \A a \in E : Given(<<i, k, a>>)' = SeriesOf(scraped[i], Asked(i), reply.result.samples[a])
  BY <1>1, <1>2, QueryContributes
<1>4. F = {<<i, k, a>> : a \in E}
  BY <1>2 DEF Fresh
<1>5. /\ \A c \in A : G[c] = Given(c)
      /\ \A a \in E : G[<<i, k, a>>] = SeriesOf(scraped[i], Asked(i), reply.result.samples[a])
      /\ \A c \in A \cup F : G[c] = Given(c)'
  BY <1>3, <1>4
<1> HIDE DEF A, F, E, G
<1>6. /\ {G[c] : c \in A} = series
      /\ {G[c] : c \in F} = new
  <2>1. {G[c] : c \in A} = series
    BY <1>5 DEF Gathered, A
  <2>2. {G[c] : c \in F} = {G[<<i, k, a>>] : a \in E}
    BY <1>4
  <2>3. {G[<<i, k, a>>] : a \in E} = new
    BY <1>5 DEF NewSeries, E
  <2> QED
    BY <2>1, <2>2, <2>3
<1>7. Conflicting' <=> \E c, d \in A \cup F : c # d /\ Conflict(G[c], G[d])
  BY <1>3, <1>5 DEF Conflicting
<1>8. Conflicting <=> \E c, d \in A : c # d /\ Conflict(G[c], G[d])
  BY <1>5 DEF Conflicting, A
<1>9. Cardinality(new) < Cardinality(E) <=> \E c, d \in F : c # d /\ Conflict(G[c], G[d])
  <2>1. Cardinality(new) < Cardinality(E)
           <=> \E a, b \in E : a # b /\ Conflict(G[<<i, k, a>>], G[<<i, k, b>>])
    <3>1. Cardinality(new) < Cardinality(E)
             <=> \E a, b \in E :
                    /\ a # b
                    /\ Conflict(SeriesOf(scraped[i], Asked(i), reply.result.samples[a]),
                                SeriesOf(scraped[i], Asked(i), reply.result.samples[b]))
      BY OneQuery DEF E
    <3> QED
      BY <1>5, <3>1
  <2> QED
    BY <1>4, <2>1
<1>10. clash' <=> clash \/ Clashes(series, new) \/ Cardinality(new) < Cardinality(E)
  BY <1>1 DEF QueryWith, E
<1>11. (\E c, d \in A \cup F : c # d /\ Conflict(G[c], G[d]))
          <=> \/ \E c, d \in A : c # d /\ Conflict(G[c], G[d])
              \/ \E c, d \in F : c # d /\ Conflict(G[c], G[d])
              \/ Clashes(series, new)
  <2>1. /\ \A x : x \in series <=> \E c \in A : x = G[c]
        /\ \A x : x \in new <=> \E c \in F : x = G[c]
    BY <1>6
  <2>2. Clashes(series, new) <=> \E c \in A, d \in F : Conflict(G[c], G[d])
    <3>1. Clashes(series, new) <=> \E x \in series, y \in new : Conflict(x, y)
      BY ClashesConflict
    <3> HIDE DEF new
    <3> QED
      BY <2>1, <3>1
  <2>3. \A c \in A, d \in F : c # d
    BY <1>3
  <2>4. \A c, d : Conflict(G[c], G[d]) <=> Conflict(G[d], G[c])
    BY ConflictSymmetric
  <2> QED
    BY <2>2, <2>3, <2>4
<1> QED
  BY <1>7, <1>8, <1>9, <1>10, <1>11

LEMMA ReportClash ==
    ASSUME Shape, Gathered, clash <=> Conflicting, NEW i \in Indices, Report(i)
    PROVE  clash' <=> Conflicting'
<1> DEFINE A == Contributed
           F == FigureIndices(i)
           G == [c \in A \cup F |-> Given(c)']
<1>1. /\ Contributed' = A \cup F /\ A \cap F = {}
      /\ \A c \in A : Given(c)' = Given(c)
      /\ \A f \in 1..4 : Given(<<i, 0, f>>)' = Figure(scraped[i], f)
  BY ReportContributes
<1>2. F = {<<i, 0, f>> : f \in 1..4}
  BY DEF FigureIndices
<1>3. /\ \A c \in A : G[c] = Given(c)
      /\ \A f \in 1..4 : G[<<i, 0, f>>] = Figure(scraped[i], f)
      /\ \A c \in A \cup F : G[c] = Given(c)'
  BY <1>1, <1>2
<1> HIDE DEF A, F, G
<1>4. {G[c] : c \in A} = series /\ {G[c] : c \in F} = OwnSeries(scraped[i])
  BY <1>2, <1>3 DEF Gathered, A, OwnSeries
<1>5. Conflicting' <=> \E c, d \in A \cup F : c # d /\ Conflict(G[c], G[d])
  BY <1>1, <1>3 DEF Conflicting
<1>6. Conflicting <=> \E c, d \in A : c # d /\ Conflict(G[c], G[d])
  BY <1>3 DEF Conflicting, A
<1>7. ~ \E c, d \in F : c # d /\ Conflict(G[c], G[d])
  <2>1. scraped[i] \in Cols
    BY DEF Shape, Typed
  <2> QED
    BY <1>2, <1>3, <2>1, FiguresDiffer
<1>8. clash' <=> clash \/ Clashes(series, OwnSeries(scraped[i]))
  BY DEF Report
<1>9. (\E c, d \in A \cup F : c # d /\ Conflict(G[c], G[d]))
         <=> \/ \E c, d \in A : c # d /\ Conflict(G[c], G[d])
             \/ \E c, d \in F : c # d /\ Conflict(G[c], G[d])
             \/ Clashes(series, OwnSeries(scraped[i]))
  <2>1. /\ \A x : x \in series <=> \E c \in A : x = G[c]
        /\ \A x : x \in OwnSeries(scraped[i]) <=> \E c \in F : x = G[c]
    BY <1>4
  <2>2. Clashes(series, OwnSeries(scraped[i])) <=> \E c \in A, d \in F : Conflict(G[c], G[d])
    <3>1. Clashes(series, OwnSeries(scraped[i])) <=> \E x \in series, y \in OwnSeries(scraped[i]) : Conflict(x, y)
      BY ClashesConflict
    <3> QED
      BY <2>1, <3>1
  <2>3. \A c \in A, d \in F : c # d
    BY <1>1
  <2>4. \A c, d : Conflict(G[c], G[d]) <=> Conflict(G[d], G[c])
    BY ConflictSymmetric
  <2> QED
    BY <2>2, <2>3, <2>4
<1> QED
  BY <1>5, <1>6, <1>7, <1>8, <1>9

LEMMA ClashStep == Shape /\ Gathered /\ ClashTells /\ [Next]_vars => ClashTells'
<1> SUFFICES ASSUME Shape, Gathered, ClashTells, [Next]_vars PROVE ClashTells'
    OBVIOUS
<1>1. CASE Load \/ Reload \/ Answer \/ UNCHANGED vars
  <2>1. UNCHANGED <<scraped, replies, reported, clash>>
    BY <1>1 DEF Load, Reload, Answer, vars, scrapeVars
  <2>2. Contributed' = Contributed /\ \A c : Given(c)' = Given(c)
    BY <2>1 DEF Contributed, SampleIndices, Given, Indices
  <2>3. Conflicting' <=> Conflicting
    BY <2>2 DEF Conflicting
  <2>4. answer' = answer \/ answer' = IF clash THEN "500" ELSE "200"
    BY <1>1 DEF Load, Reload, Answer, vars, scrapeVars
  <2>5. clash' = clash /\ (answer' = "500" => clash) /\ (answer' = "200" => ~ clash)
    BY <2>1, <2>4 DEF ClashTells
  <2> QED
    BY <2>3, <2>5 DEF ClashTells
<1>2. CASE Scrape
  <2>1. /\ clash' = FALSE /\ reported' = {} /\ Indices' = DOMAIN collectors /\ answer' = "none"
        /\ replies' = [i \in DOMAIN collectors |-> <<>>]
    BY <1>2 DEF Scrape, Indices
  <2>2. \A i \in Indices' : \A c : c \notin SampleIndices(i)'
    <3>1. \A i \in Indices' : 1..Len(replies'[i]) = {}
      BY <2>1
    <3> QED
      BY <3>1, SampleIndicesAre
  <2>3. Contributed' = {}
    BY <2>1, <2>2, ContributedAre
  <2> QED
    BY <2>1, <2>3 DEF ClashTells, Conflicting
<1>3. ASSUME NEW i \in Indices, Query(i) PROVE ClashTells'
  BY <1>3, QueryClash DEF ClashTells, Query, Asking, Gathering
<1>4. ASSUME NEW i \in Indices, Report(i) PROVE ClashTells'
  BY <1>4, ReportClash DEF ClashTells, Report, Gathering
<1> QED
  BY <1>1, <1>2, <1>3, <1>4 DEF Next, Finish

LEMMA ClashAlways == Spec => []ClashTells
<1>1. Init => ClashTells
  <2> SUFFICES ASSUME Init PROVE ClashTells
      OBVIOUS
  <2>1. clash = FALSE /\ reported = {} /\ Indices = {} /\ answer = "ready"
    BY DEF Init, Indices
  <2>2. Contributed = {}
    BY <2>1, ContributedAre
  <2> QED
    BY <2>1, <2>2 DEF ClashTells, Conflicting
<1> QED
  BY <1>1, ClashStep, ShapeAlways, GatheredAlways, PTL DEF Spec

(***************************************************************************)
(* A scrape is refused, with all its series, just when two of them are the *)
(* same or differ in kind under one name, in whichever order the           *)
(* collectors come.                                                        *)
(***************************************************************************)
THEOREM RefusalCorrect == Spec => []RefusedForClashOnly
<1>1. Shape /\ ClashTells => RefusedForClashOnly
  <2> SUFFICES ASSUME Shape, ClashTells, answer \in {"200", "500"}
               PROVE  answer = "500" <=> \E c, d \in Contributions :
                                            /\ c # d
                                            /\ Given(c).name = Given(d).name
                                            /\ \/ Given(c) = Given(d)
                                               \/ Given(c).kind # Given(d).kind
      BY DEF RefusedForClashOnly
  <2>1. Contributed = Contributions
    BY DEF Contributed, Contributions, Shape, Progress
  <2>2. answer = "500" <=> Conflicting
    BY DEF ClashTells
  <2> QED
    BY <2>1, <2>2 DEF Conflicting, Conflict
<1> QED
  BY <1>1, ShapeAlways, ClashAlways, PTL

-----------------------------------------------------------------------------
(***************************************************************************)
(* The figures of a collector so far.                                      *)
(***************************************************************************)
AllKnown(i) == \A k \in 1..Len(replies[i]) : Known(scraped[i].metrics[k])

FiguresOf(i) ==
    /\ IsFiniteSet(SampleIndices(i))
    /\ stats[i].up => /\ \A k \in 1..Len(replies[i]) : replies[i][k].ok
                      /\ AllKnown(i) => Cardinality(SampleIndices(i)) = stats[i].samples
    /\ \A k \in 1..Len(replies[i]) : replies[i][k].latency <= stats[i].latency
    /\ IF Len(replies[i]) = 0 THEN stats[i].latency = 0
       ELSE \E k \in 1..Len(replies[i]) : replies[i][k].latency = stats[i].latency

FiguresSoFar == \A i \in Indices : FiguresOf(i)

\* A query whose samples all have a value and whose type is known exports them all.
LEMMA FreshCount ==
    ASSUME NEW i, NEW reply \in Replies
    PROVE  /\ IsFiniteSet(Fresh(i, reply))
           /\ QueryStats(reply).up /\ Known(Asked(i))
                 => Cardinality(Fresh(i, reply)) = Len(reply.result.samples)
<1> DEFINE E == Exported(Asked(i), reply)
           k == Len(replies[i]) + 1
           f == [a \in E |-> <<i, k, a>>]
<1>1. IsFiniteSet(E)
  BY ExportedFinite
<1>2. f \in Bijection(E, Fresh(i, reply))
  BY DEF Bijection, Injection, Surjection, IsInjective, Fresh
<1>3. IsFiniteSet(Fresh(i, reply)) /\ Cardinality(Fresh(i, reply)) = Cardinality(E)
  BY <1>1, <1>2, FS_Bijection DEF ExistsBijection
<1>4. ASSUME QueryStats(reply).up, Known(Asked(i))
      PROVE  Cardinality(E) = Len(reply.result.samples)
  <2>1. E = 1..Len(reply.result.samples)
    BY <1>4 DEF QueryStats, Exported, Known
  <2> QED
    BY <2>1, ReplyTypes, FS_Interval
<1> QED
  BY <1>3, <1>4

LEMMA QueryFigures ==
    ASSUME Shape, FiguresSoFar, NEW i \in Indices, Query(i)
    PROVE  FiguresSoFar'
<1>1. PICK reply \in Replies : QueryWith(i, reply)
  BY QueryEffect
<1> DEFINE n == Len(replies[i])
           k == n + 1
           q == QueryStats(reply)
<1>2. /\ Indices' = Indices /\ scraped' = scraped
      /\ stats'[i] = Reconcile(stats[i], q)
      /\ replies'[i] = Append(replies[i], reply)
      /\ \A j \in Indices : j # i => stats'[j] = stats[j] /\ replies'[j] = replies[j]
  BY <1>1 DEF QueryWith, Indices, Shape, Typed
<1>3. replies[i] \in Seq(Replies) /\ n \in Nat /\ stats[i] \in Stats
  <2>1. replies[i] \in Seq(Replies) /\ stats[i] \in Stats
    BY DEF Shape, Typed
  <2> QED
    BY <2>1
<1>4. /\ Len(replies'[i]) = k /\ replies'[i][k] = reply
      /\ \A l \in 1..n : replies'[i][l] = replies[i][l]
      /\ \A l : l \in 1..k <=> l \in 1..n \/ l = k
  BY <1>2, <1>3
<1>5. /\ q.latency = reply.latency /\ q.samples = Len(reply.result.samples)
      /\ q.up => reply.ok
  BY DEF QueryStats
<1>6. /\ stats'[i].up <=> stats[i].up /\ q.up
      /\ stats'[i].latency = IF q.latency > stats[i].latency THEN q.latency ELSE stats[i].latency
      /\ stats'[i].samples = stats[i].samples + q.samples
  <2>1. stats'[i] = [up |-> stats[i].up /\ q.up,
                     latency |-> IF q.latency > stats[i].latency THEN q.latency
                                 ELSE stats[i].latency,
                     samples |-> stats[i].samples + q.samples,
                     warnings |-> stats[i].warnings + q.warnings]
    BY <1>2 DEF Reconcile
  <2> HIDE DEF q
  <2>2. stats'[i].up = (stats[i].up /\ q.up)
    BY <2>1
  <2>3. /\ stats'[i].latency = IF q.latency > stats[i].latency THEN q.latency ELSE stats[i].latency
        /\ stats'[i].samples = stats[i].samples + q.samples
    BY <2>1
  <2> QED
    BY <2>2, <2>3, Zenon
<1>7. /\ \A j \in Indices : j # i => SampleIndices(j)' = SampleIndices(j)
      /\ SampleIndices(i)' = SampleIndices(i) \cup Fresh(i, reply)
      /\ SampleIndices(i) \cap Fresh(i, reply) = {}
  <2>1. SampleIndices(i) \subseteq Contributed
    BY ContributedAre
  <2> QED
    BY <1>1, <2>1, QueryContributes
<1>8. IsFiniteSet(SampleIndices(i)')
  <2>1. IsFiniteSet(SampleIndices(i)) /\ IsFiniteSet(Fresh(i, reply))
    BY FreshCount DEF FiguresSoFar, FiguresOf
  <2>2. IsFiniteSet(SampleIndices(i) \cup Fresh(i, reply))
    BY <2>1, FS_Union
  <2> QED
    BY <1>7, <2>2
<1>9. ASSUME stats'[i].up, AllKnown(i)'
      PROVE  Cardinality(SampleIndices(i)') = stats'[i].samples
  <2>1. AllKnown(i) /\ Known(Asked(i))
    BY <1>2, <1>4, <1>9 DEF AllKnown, Asked
  <2>2. /\ IsFiniteSet(SampleIndices(i)) /\ Cardinality(SampleIndices(i)) = stats[i].samples
        /\ IsFiniteSet(Fresh(i, reply)) /\ Cardinality(Fresh(i, reply)) = q.samples
    BY <1>5, <1>6, <1>9, <2>1, FreshCount DEF FiguresSoFar, FiguresOf
  <2>3. Cardinality(SampleIndices(i)')
           = stats[i].samples + q.samples - Cardinality(SampleIndices(i) \cap Fresh(i, reply))
    BY <1>7, <2>2, FS_Union
  <2>4. Cardinality(SampleIndices(i) \cap Fresh(i, reply)) = 0
    BY <1>7, FS_EmptySet
  <2>5. stats[i].samples \in Nat /\ q.samples \in Nat
    BY <1>3, <1>5, ReplyTypes DEF Stats
  <2> QED
    BY <1>6, <2>3, <2>4, <2>5
<1>10. stats'[i].up => \A l \in 1..k : replies'[i][l].ok
  BY <1>4, <1>5, <1>6 DEF FiguresSoFar, FiguresOf
<1>11. /\ \A l \in 1..k : replies'[i][l].latency <= stats'[i].latency
       /\ \E l \in 1..k : replies'[i][l].latency = stats'[i].latency
  <2>1. q.latency \in Nat /\ stats[i].latency \in Nat
        /\ \A l \in 1..n : replies[i][l].latency \in Nat
    <3>1. Latencies \subseteq Nat
      BY CollectionAssumption
    <3>2. \A l \in 1..n : replies[i][l].latency \in Latencies
      BY <1>3, ElementType, ReplyTypes
    <3> QED
      <4>1. q.latency \in Latencies
        BY <1>5, ReplyTypes
      <4>2. stats[i].latency \in Latencies \cup {0}
        BY <1>3 DEF Stats
      <4>3. q.latency \in Nat
        BY <3>1, <4>1
      <4>4. stats[i].latency \in Nat
        <5>1. CASE stats[i].latency \in Latencies
          BY <3>1, <5>1
        <5>2. CASE stats[i].latency = 0
          BY <5>2
        <5> QED
          BY <4>2, <5>1, <5>2
      <4>5. \A l \in 1..n : replies[i][l].latency \in Nat
        BY <3>1, <3>2
      <4> QED
        BY <4>3, <4>4, <4>5
  <2>2. \A l \in 1..n : replies[i][l].latency <= stats[i].latency
    BY DEF FiguresSoFar, FiguresOf
  <2>3. IF n = 0 THEN stats[i].latency = 0
        ELSE \E l \in 1..n : replies[i][l].latency = stats[i].latency
    BY DEF FiguresSoFar, FiguresOf
  <2> HIDE DEF q
  <2>4. \A l \in 1..k : replies'[i][l].latency <= stats'[i].latency
    <3>1. stats[i].latency <= stats'[i].latency /\ q.latency <= stats'[i].latency
          /\ stats'[i].latency \in Nat
      BY <1>6, <2>1
    <3>2. ASSUME NEW l \in 1..n PROVE replies'[i][l].latency <= stats'[i].latency
      <4>1. replies'[i][l].latency = replies[i][l].latency
        BY <1>4
      <4> QED
        BY <2>1, <2>2, <3>1, <4>1
    <3>3. replies'[i][k].latency <= stats'[i].latency
      BY <1>4, <1>5, <3>1
    <3> QED
      BY <1>4, <3>2, <3>3
  <2>5. CASE q.latency > stats[i].latency
    BY <1>4, <1>5, <1>6, <2>4, <2>5
  <2>6. CASE ~ (q.latency > stats[i].latency) /\ n = 0
    <3>1. q.latency = stats[i].latency
      BY <2>1, <2>3, <2>6
    <3> QED
      BY <1>4, <1>5, <1>6, <2>6, <2>4, <3>1
  <2>7. CASE ~ (q.latency > stats[i].latency) /\ n # 0
    <3>1. \E l \in 1..n : replies[i][l].latency = stats'[i].latency
      BY <1>6, <2>3, <2>7
    <3> QED
      BY <1>4, <2>4, <3>1
  <2> QED
    BY <2>5, <2>6, <2>7
<1>12. FiguresOf(i)'
  <2>1. k # 0
    BY <1>3
  <2> QED
    BY <1>4, <1>8, <1>9, <1>10, <1>11, <2>1 DEF FiguresOf
<1>13. ASSUME NEW j \in Indices, j # i PROVE FiguresOf(j)'
  BY <1>2, <1>7, <1>13 DEF FiguresSoFar, FiguresOf, AllKnown
<1> QED
  BY <1>2, <1>12, <1>13 DEF FiguresSoFar

LEMMA FiguresStep == Shape /\ FiguresSoFar /\ [Next]_vars => FiguresSoFar'
<1> SUFFICES ASSUME Shape, FiguresSoFar, [Next]_vars PROVE FiguresSoFar'
    OBVIOUS
<1>1. CASE Load \/ Reload \/ Answer \/ (\E i \in Indices : Report(i)) \/ UNCHANGED vars
  <2>1. UNCHANGED <<scraped, replies, stats>>
    BY <1>1 DEF Load, Reload, Answer, Report, vars, scrapeVars
  <2> QED
    <3>1. \A i : SampleIndices(i)' = SampleIndices(i)
      BY <2>1 DEF SampleIndices
    <3>2. \A i : FiguresOf(i)' <=> FiguresOf(i)
      BY <2>1, <3>1 DEF FiguresOf, AllKnown
    <3> QED
      BY <2>1, <3>2 DEF FiguresSoFar, Indices
<1>2. CASE Scrape
  <2>1. ASSUME NEW i \in Indices' PROVE FiguresOf(i)'
    <3>1. replies'[i] = <<>> /\ stats'[i] = NoStats
      BY <1>2 DEF Scrape, Indices
    <3>2. Len(replies'[i]) = 0 /\ 1..Len(replies'[i]) = {}
      BY <3>1
    <3>3. SampleIndices(i)' = {}
      BY <3>2, SampleIndicesAre
    <3>4. stats'[i].latency = 0 /\ stats'[i].samples = 0
      BY <3>1 DEF NoStats
    <3> QED
      BY <3>2, <3>3, <3>4, FS_EmptySet DEF FiguresOf
  <2> QED
    BY <2>1 DEF FiguresSoFar
<1> QED
  BY <1>1, <1>2, QueryFigures DEF Next, Finish

LEMMA FiguresAlways == Spec => []FiguresSoFar
<1>1. Init => FiguresSoFar
  BY DEF Init, Indices, FiguresSoFar
<1> QED
  BY <1>1, FiguresStep, ShapeAlways, PTL DEF Spec

\* The series of a collector are as many as its samples, unless two of them clash.
LEMMA NoneLost ==
    ASSUME ~ Conflicting, NEW i \in Indices, IsFiniteSet(SampleIndices(i))
    PROVE  Cardinality({Given(c) : c \in SampleIndices(i)}) = Cardinality(SampleIndices(i))
<1> DEFINE S == SampleIndices(i)
           f == [c \in S |-> Given(c)]
<1>1. S \subseteq Contributed
  BY ContributedAre
<1>2. ~ \E c, d \in S : c # d /\ f[c] = f[d]
  BY <1>1 DEF Conflicting, Conflict
<1>3. {f[c] : c \in S} = {Given(c) : c \in S}
  OBVIOUS
<1>4. IsFiniteSet(S) /\ f = [c \in S |-> f[c]]
  OBVIOUS
<1> HIDE DEF S, f
<1>5. /\ Cardinality({f[c] : c \in S}) \in Nat /\ Cardinality(S) \in Nat
      /\ Cardinality({f[c] : c \in S}) <= Cardinality(S)
      /\ ~ Cardinality({f[c] : c \in S}) < Cardinality(S)
  BY <1>2, <1>4, ImageCount
<1>6. Cardinality({f[c] : c \in S}) = Cardinality(S)
  BY <1>5
<1> QED
  BY <1>3, <1>6 DEF S

(***************************************************************************)
(* The figures of a collector tell what is missing of its series: with up  *)
(* no query has failed and every sample is there; the latency is that of   *)
(* the slowest query (generic_collector.go:86).                            *)
(***************************************************************************)
THEOREM FiguresCorrect == Spec => []FiguresTellTheTruth
<1>1. Shape /\ ClashTells /\ FiguresSoFar => FiguresTellTheTruth
  <2> SUFFICES ASSUME Shape, ClashTells, FiguresSoFar, answer = "200", NEW i \in Indices
               PROVE  /\ stats[i].up =>
                            /\ \A k \in 1..Len(replies[i]) : replies[i][k].ok
                            /\ KnownTypes(scraped[i]) =>
                                  Cardinality({Given(c) : c \in SampleIndices(i)})
                                      = stats[i].samples
                      /\ \A k \in 1..Len(replies[i]) : replies[i][k].latency <= stats[i].latency
                      /\ scraped[i].metrics # <<>> =>
                            \E k \in 1..Len(replies[i]) : replies[i][k].latency = stats[i].latency
      BY DEF FiguresTellTheTruth
  <2>1. ~ Conflicting
    BY DEF ClashTells
  <2>2. FiguresOf(i) /\ Len(replies[i]) = Len(scraped[i].metrics)
    BY DEF FiguresSoFar, Shape, Progress
  <2>3. KnownTypes(scraped[i]) => AllKnown(i)
    BY <2>2 DEF KnownTypes, AllKnown
  <2>4. scraped[i].metrics # <<>> => Len(replies[i]) # 0
    <3>1. scraped[i].metrics \in Seq(GoodMetrics)
      BY DEF Shape, Typed, Cols
    <3> QED
      BY <2>2, <3>1
  <2>5. Cardinality({Given(c) : c \in SampleIndices(i)}) = Cardinality(SampleIndices(i))
    BY <2>1, <2>2, NoneLost DEF FiguresOf
  <2> QED
    BY <2>2, <2>3, <2>4, <2>5 DEF FiguresOf
<1> QED
  BY <1>1, ShapeAlways, ClashAlways, FiguresAlways, PTL
=============================================================================
