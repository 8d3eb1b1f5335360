----------------------------- MODULE Collection -----------------------------
(***************************************************************************)
(* One pipeline of the metrics-exporter and its scrapes: the collectors    *)
(* that a configuration file describes (internal/metrics, internal/impl),  *)
(* the registry that gathers them, and the answer of the endpoint.         *)
(*                                                                         *)
(* A scrape runs each collector in a goroutine of its own; a collector     *)
(* sends its queries one after the other and turns the samples into        *)
(* series, which the registry checks against all the others as they come.  *)
(* Scrapes share nothing that changes, so one at a time is modelled.       *)
(*                                                                         *)
(* Numbers are left out: a series is its name, kind and label values.  A   *)
(* name is a sequence of words, as the code joins its parts by "_".        *)
(***************************************************************************)
EXTENDS Naturals, Sequences, FiniteSets

CONSTANTS
    Files,          \* configurations the file may hold
    Labels,         \* names of labels
    Values,         \* values of labels, the empty one of an absent label included
    Results,        \* what Mimir may answer to a query, but for a failure
    Latencies,      \* how long a query may take
    MaxScrapes,     \* bound: scrapes
    MaxReloads      \* bound: reloads

\* A metric of the configuration, and a sample of a result; timed is FALSE for a
\* sample that came without a value.  A result is a vector of samples, or of another
\* type (a scalar, a matrix), as the query of the file has it; no result at all is
\* an empty vector.
Names == Seq(STRING)
Metrics == [id : Names, labels : Seq(Labels), dest : Seq(Labels), type : STRING]
Samples == [labels : [Labels -> Values], timed : BOOLEAN]

ASSUME CollectionAssumption ==
    /\ Files \subseteq Seq([name : Names, enabled : BOOLEAN, metrics : Seq(Metrics)])
    /\ Results \subseteq [vector : BOOLEAN, samples : Seq(Samples), warnings : Nat]
    /\ Latencies \subseteq Nat
    /\ MaxScrapes \in Nat
    /\ MaxReloads \in Nat

VARIABLES
    process,    \* loading or serving; refused, dead or stopped for good
                \* (by the registry, by a reply, by a signal)
    file,       \* the configuration file
    collectors, \* the collectors of the pipeline, by their places in the file
    scraped,    \* the collectors of the scrape, as the registry copied them
    answer,     \* none while the scrape is under way, or its status code
    stats,      \* the figures of each collector
    replies,    \* what each query was answered
    reported,   \* collectors that have reported their figures
    series,     \* the series gathered so far
    clash,      \* the registry has refused a series
    scrapes,    \* scrapes so far
    reloads     \* reloads so far

scrapeVars == <<scraped, answer, stats, replies, reported, series, clash, scrapes>>
vars == <<process, file, collectors, reloads, scrapeVars>>

Indices == DOMAIN scraped

TypeOK ==
    /\ process \in {"loading", "serving", "refused", "dead", "stopped"}
    /\ file \in Files
    /\ answer \in {"ready", "none", "200", "500"}
    /\ \A i \in Indices : Len(replies[i]) <= Len(scraped[i].metrics)
    /\ stats \in [Indices -> [up : BOOLEAN, latency : Latencies \cup {0},
                              samples : Nat, warnings : Nat]]
    /\ reported \subseteq Indices
    /\ clash \in BOOLEAN
    /\ scrapes \in 0..MaxScrapes
    /\ reloads \in 0..MaxReloads

Init ==
    /\ process = "loading"
    /\ file \in Files
    /\ collectors = <<>>
    /\ scraped = <<>>
    /\ answer = "ready"
    /\ stats = <<>>
    /\ replies = <<>>
    /\ reported = {}
    /\ series = {}
    /\ clash = FALSE
    /\ scrapes = 0
    /\ reloads = 0

-----------------------------------------------------------------------------
(***************************************************************************)
(* Loading the configuration.                                              *)
(***************************************************************************)
\* For mutation: destination labels are kept as they are.
NotNormalized(m) == m

\* For mutation: destination labels are replaced only when there are none.
NormalizedEmpty(m) == IF m.dest = <<>> THEN [m EXCEPT !.dest = m.labels] ELSE m

\* normalizeDestLabels: destination labels that do not match the labels one to one
\* are replaced.
Normalized(m) == IF Len(m.dest) # Len(m.labels) THEN [m EXCEPT !.dest = m.labels] ELSE m

\* BuildCollectorsFromConfig: the enabled collectors, all their metrics.
Built(config) ==
    [i \in {j \in 1..Len(config) : config[j].enabled} |->
        [name |-> config[i].name,
         metrics |-> [k \in 1..Len(config[i].metrics) |-> Normalized(config[i].metrics[k])]]]

\* The labels of a metric's descriptor.
DescLabels(m) == IF m.dest = <<>> THEN m.labels ELSE m.dest

\* BuildFQName, within the namespace.
FQName(col, id) == col.name \o id

ElementsOf(list) == {list[a] : a \in 1..Len(list)}

\* The registry takes a descriptor whose labels are distinct, and no name twice
\* but in one collector and with the same labels (and help).
Registers(built) ==
    \A i, j \in DOMAIN built :
        \A k \in 1..Len(built[i].metrics), l \in 1..Len(built[j].metrics) :
            LET m == built[i].metrics[k]
                n == built[j].metrics[l]
            IN  /\ Cardinality(ElementsOf(DescLabels(m))) = Len(DescLabels(m))
                /\ FQName(built[i], m.id) = FQName(built[j], n.id)
                      => /\ i = j
                         /\ ElementsOf(DescLabels(m)) = ElementsOf(DescLabels(n))

\* NewPipeline and AddCollectors, which panics where the registry refuses, and ends
\* the process and the scrape under way.
Load ==
    /\ process = "loading"
    /\ collectors' = Built(file)
    /\ process' = IF Registers(collectors') THEN "serving" ELSE "refused"
    /\ UNCHANGED <<file, reloads, scrapeVars>>

\* The registry finds a collector by its descriptors: one that has none was taken
\* unchecked, and is not found.
Unregisters(col) == col.metrics # <<>>

\* A reload unregisters the collectors and loads the file, which may have changed;
\* where it cannot, it stops the process.
Reload ==
    /\ process = "serving"
    /\ reloads < MaxReloads
    /\ reloads' = reloads + 1
    /\ IF \A i \in DOMAIN collectors : Unregisters(collectors[i])
       THEN process' = "loading" /\ file' \in Files
       ELSE process' = "stopped" /\ file' = file
    /\ UNCHANGED <<collectors, scrapeVars>>

-----------------------------------------------------------------------------
(***************************************************************************)
(* A scrape.                                                               *)
(***************************************************************************)
NoStats == [up |-> TRUE, latency |-> 0, samples |-> 0, warnings |-> 0]

\* The endpoint is asked for its metrics; the registry copies its collectors.
Scrape ==
    /\ process = "serving"
    /\ answer # "none"
    /\ scrapes < MaxScrapes
    /\ scrapes' = scrapes + 1
    /\ scraped' = collectors
    /\ answer' = "none"
    /\ stats' = [i \in DOMAIN collectors |-> NoStats]
    /\ replies' = [i \in DOMAIN collectors |-> <<>>]
    /\ reported' = {}
    /\ series' = {}
    /\ clash' = FALSE
    /\ UNCHANGED <<process, file, collectors, reloads>>

\* A query that has failed has no samples.
NoResult == [vector |-> TRUE, samples |-> <<>>, warnings |-> 0]

Replies ==
    [ok : {TRUE}, result : Results, latency : Latencies]
        \cup [ok : {FALSE}, result : {NoResult}, latency : Latencies]

\* For mutation: the samples after one without a value are left out.
ExportedUntilUntimed(m, reply) ==
    {a \in 1..Len(reply.result.samples) :
        /\ \A b \in 1..a : reply.result.samples[b].timed
        /\ m.type \in {"Counter", "Gauge"}}

\* The samples of a reply that become series.
Exported(m, reply) ==
    {a \in 1..Len(reply.result.samples) :
        reply.result.samples[a].timed /\ m.type \in {"Counter", "Gauge"}}

\* The value of a destination label is that of the label in the same place.
SeriesOf(col, m, sample) ==
    [name |-> FQName(col, m.id), kind |-> m.type,
     values |-> [k \in 1..Len(m.labels) |-> sample.labels[m.labels[k]]]]

NewSeries(col, m, reply) ==
    {SeriesOf(col, m, reply.result.samples[a]) : a \in Exported(m, reply)}

\* The registry refuses a series it has, and a name in two kinds; the help texts
\* of a collector's own figures make them a kind of their own.
Differ(x, y) == x.name = y.name /\ x.kind # y.kind

Clashes(old, new) == \/ old \cap new # {}
                     \/ \E x \in new, y \in old : Differ(x, y)

\* For mutation: an incomplete sample leaves the figure up as it is.
QueryStatsLenient(reply) ==
    [up |-> reply.ok, latency |-> reply.latency,
     samples |-> Len(reply.result.samples), warnings |-> reply.result.warnings]

\* The figures of one query.
QueryStats(reply) ==
    [up |-> reply.ok /\ \A a \in 1..Len(reply.result.samples) : reply.result.samples[a].timed,
     latency |-> reply.latency,
     samples |-> Len(reply.result.samples), warnings |-> reply.result.warnings]

\* For mutation: the latencies of the queries are added up.
ReconcileSum(s, q) ==
    [up |-> s.up /\ q.up, latency |-> s.latency + q.latency,
     samples |-> s.samples + q.samples, warnings |-> s.warnings + q.warnings]

\* reconcileStats
Reconcile(s, q) ==
    [up |-> s.up /\ q.up,
     latency |-> IF q.latency > s.latency THEN q.latency ELSE s.latency,
     samples |-> s.samples + q.samples, warnings |-> s.warnings + q.warnings]

\* A scrape is under way.  A stopped process still answers it, as its shutdown waits.
Gathering == answer = "none" /\ process \notin {"refused", "dead"}

\* For mutation: the queries after one that failed are not sent.
AskingUntilFailure(i) ==
    /\ Gathering
    /\ Len(replies[i]) < Len(scraped[i].metrics)
    /\ stats[i].up

Asking(i) ==
    /\ Gathering
    /\ Len(replies[i]) < Len(scraped[i].metrics)

OtherType(reply) == reply.ok /\ ~ reply.result.vector

\* The type assertion panics on a result that is no vector, and MustNewConstMetric
\* when the values are not as many as the labels of the descriptor.
Panics(m, reply) ==
    \/ OtherType(reply)
    \/ Exported(m, reply) # {} /\ Len(DescLabels(m)) # Len(m.labels)

\* For mutation: of samples that the labels do not tell apart one is exported.
QueryDistinct(i) ==
    /\ Asking(i)
    /\ \E reply \in Replies :
          LET m == scraped[i].metrics[Len(replies[i]) + 1]
              new == NewSeries(scraped[i], m, reply)
          IN  /\ process' = IF Panics(m, reply) THEN "dead" ELSE process
              /\ stats' = [stats EXCEPT ![i] = Reconcile(@, QueryStats(reply))]
              /\ replies' = [replies EXCEPT ![i] = Append(@, reply)]
              /\ series' = series \cup new
              /\ clash' = (clash \/ Clashes(series, new))
    /\ UNCHANGED <<file, collectors, reloads, scraped, answer, reported, scrapes>>

\* The next query of collector i is answered or fails, and its samples are exported.
Query(i) ==
    /\ Asking(i)
    /\ \E reply \in Replies :
          LET m == scraped[i].metrics[Len(replies[i]) + 1]
              new == NewSeries(scraped[i], m, reply)
          IN  /\ process' = IF Panics(m, reply) THEN "dead" ELSE process
              /\ stats' = [stats EXCEPT ![i] = Reconcile(@, QueryStats(reply))]
              /\ replies' = [replies EXCEPT ![i] = Append(@, reply)]
              /\ series' = series \cup new
              /\ clash' = (clash \/ Clashes(series, new)
                                 \/ Cardinality(new) < Cardinality(Exported(m, reply)))
    /\ UNCHANGED <<file, collectors, reloads, scraped, answer, reported, scrapes>>

Figures == <<"up", "query_latency_milliseconds", "warnings", "query_samples">>

Figure(col, f) == [name |-> FQName(col, <<Figures[f]>>), kind |-> "figure", values |-> <<>>]

OwnSeries(col) == {Figure(col, f) : f \in 1..4}

\* A collector that has sent its queries reports its figures.
Report(i) ==
    /\ Gathering
    /\ i \notin reported
    /\ Len(replies[i]) = Len(scraped[i].metrics)
    /\ reported' = reported \cup {i}
    /\ series' = series \cup OwnSeries(scraped[i])
    /\ clash' = (clash \/ Clashes(series, OwnSeries(scraped[i])))
    /\ UNCHANGED <<process, file, collectors, reloads, scraped, answer, stats, replies, scrapes>>

\* When all have reported, the endpoint answers with the series; with an error
\* and nothing else when the registry has refused one.
Answer ==
    /\ Gathering
    /\ reported = Indices
    /\ answer' = IF clash THEN "500" ELSE "200"
    /\ UNCHANGED <<process, file, collectors, reloads, scraped, stats, replies, reported,
                   series, clash, scrapes>>

Finish == (\E i \in Indices : Report(i)) \/ Answer

Next == Load \/ Reload \/ Scrape \/ (\E i \in Indices : Query(i)) \/ Finish

Spec == Init /\ [][Next]_vars

\* The goroutines of a scrape are scheduled; that a query ends is another matter.
FairSpec == Spec /\ WF_vars(Finish)

-----------------------------------------------------------------------------
(***************************************************************************)
(* The process that serves the metrics dies of no reply but a result of    *)
(* another type (querier.go:52 asserts a vector): neither of a failure,    *)
(* nor of missing values, labels or samples, whatever destination labels   *)
(* the file gives (internal/impl/config.go:45, generic_collector.go:73,    *)
(* querier.go:58).                                                         *)
(***************************************************************************)
OnlyOtherTypesKill ==
    process = "dead" =>
        \E i \in Indices : \E k \in 1..Len(replies[i]) : OtherType(replies[i][k])

Known(m) == m.type \in {"Counter", "Gauge"}

\* What a scrape has to give: the samples with a value of the queries of each
\* collector, unless of an unknown type, and, as if of a query 0, its figures.
SampleIndices(i) ==
    UNION {{<<i, k, a>> : a \in {b \in 1..Len(replies[i][k].result.samples) :
                                   /\ Known(scraped[i].metrics[k])
                                   /\ replies[i][k].result.samples[b].timed}} :
               k \in 1..Len(replies[i])}

Contributions == (UNION {SampleIndices(i) : i \in Indices}) \cup Indices \X {0} \X (1..4)

Given(c) ==
    IF c[2] = 0 THEN Figure(scraped[c[1]], c[3])
    ELSE SeriesOf(scraped[c[1]], scraped[c[1]].metrics[c[2]],
                  replies[c[1]][c[2]].result.samples[c[3]])

(***************************************************************************)
(* A query that fails, and a sample without a value, cost the answer       *)
(* nothing else: it holds every other sample of every collector, and the   *)
(* figures of all (generic_collector.go:117, querier.go:34).               *)
(***************************************************************************)
FailureCostsNoOther ==
    answer = "200" => series = {Given(c) : c \in Contributions}

(***************************************************************************)
(* A scrape is refused, with all its series, just when two of them are the *)
(* same or differ in kind under one name, in whichever order the           *)
(* collectors come: when a query tells apart what its labels do not, when  *)
(* two metrics or two collectors go by one name, or a metric by that of a  *)
(* figure.                                                                 *)
(***************************************************************************)
RefusedForClashOnly ==
    answer \in {"200", "500"} =>
        (answer = "500" <=> \E c, d \in Contributions :
                                /\ c # d
                                /\ Given(c).name = Given(d).name
                                /\ \/ Given(c) = Given(d)
                                   \/ Given(c).kind # Given(d).kind)

KnownTypes(col) == \A k \in 1..Len(col.metrics) : Known(col.metrics[k])

(***************************************************************************)
(* The figures of a collector tell what is missing of its series: if up is *)
(* 1, no query has failed ("Were all the last backend queries successful", *)
(* generic_collector.go:86), and unless a metric has an unknown type the   *)
(* answer holds as many of its series as query_samples says; the latency   *)
(* is that of the slowest query.                                           *)
(***************************************************************************)
FiguresTellTheTruth ==
    answer = "200" =>
        \A i \in Indices :
            /\ stats[i].up =>
                  /\ \A k \in 1..Len(replies[i]) : replies[i][k].ok
                  /\ KnownTypes(scraped[i]) =>
                        Cardinality({Given(c) : c \in SampleIndices(i)})
                            = stats[i].samples
            /\ \A k \in 1..Len(replies[i]) : replies[i][k].latency <= stats[i].latency
            /\ scraped[i].metrics # <<>> =>
                  \E k \in 1..Len(replies[i]) : replies[i][k].latency = stats[i].latency

\* The labels that the documentation gives for a metric of the file.
DocumentedLabels(m) == IF Len(m.dest) # Len(m.labels) THEN m.labels ELSE m.dest

(***************************************************************************)
(* The generated documentation names the labels of what is exported: each  *)
(* descriptor is that of a metric of the file, with the labels that        *)
(* doc-metrics.go:128 writes in its row.                                   *)
(***************************************************************************)
ExportedAsDocumented ==
    process = "serving" =>
        \A i \in DOMAIN collectors : \A m \in ElementsOf(collectors[i].metrics) :
            \E f \in 1..Len(file) : \E n \in ElementsOf(file[f].metrics) :
                /\ FQName(file[f], n.id) = FQName(collectors[i], m.id)
                /\ DocumentedLabels(n) = DescLabels(m)

\* What the code leaves to Mimir, whom it asks to keep a time limit: its own context
\* has none (querier.go:27).
QueriesEnd == WF_vars(\E i \in Indices : Query(i))

(***************************************************************************)
(* If every query ends, every scrape is answered, whatever fails and       *)
(* whatever is reloaded meanwhile, unless the process dies of it: each     *)
(* query is followed by the next one (generic_collector.go:118), and each  *)
(* collector reports.                                                      *)
(***************************************************************************)
ScrapesAnswered ==
    QueriesEnd => (answer = "none" ~> (answer # "none" \/ process \in {"refused", "dead"}))
=============================================================================
