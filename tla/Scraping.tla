------------------------------- MODULE Scraping ------------------------------
(***************************************************************************)
(* The scraping goroutine of the metrics-exporter (internal/scraping): at  *)
(* every tick it reads the metrics of the OpenTelemetry Collector and logs *)
(* each metric whose value, or whose change since the sample before, has   *)
(* crossed a threshold.  The log is what an operator sees of it: a line    *)
(* "went above the threshold" raises an alarm, "went below" ends it.       *)
(*                                                                         *)
(* Between two ticks the collector may restart (counters start again, and  *)
(* may be missing until they are first incremented), be out of reach, or   *)
(* expose a metric as another type.                                        *)
(***************************************************************************)
EXTENDS Integers

CONSTANTS
    Metrics,        \* positions in scrapedOtelMetricsList
    CheckType,      \* "ValueThreshold" or "RateThreshold", for each metric
    MetricType,     \* "counter", "gauge", or one that is not recognized
    Threshold,
    Values,         \* what the collector may expose
    Missing         \* the metric is not exposed, or its type not recognized

\* The thresholds of metrics_list.go; the values are counts and sizes, never NaN.
ASSUME ScrapingAssumption ==
    /\ CheckType \in [Metrics -> {"ValueThreshold", "RateThreshold"}]
    /\ MetricType \in [Metrics -> {"counter", "gauge", "histogram"}]
    /\ Threshold \in [Metrics -> Nat]
    /\ Values \subseteq Nat
    /\ 0 \in Values
    /\ Missing \notin Int

VARIABLES
    previousValues,
    previousDiffs,
    lines,          \* the line the last scrape logged for each metric, if any
    alarm,          \* what the last line logged for each metric says
    last,           \* the last sample taken of each metric, 0 before the first
    before          \* the sample taken before that

vars == <<previousValues, previousDiffs, lines, alarm, last, before>>

Diffs == {v - w : v \in Values, w \in Values}

TypeOK ==
    /\ previousValues \in [Metrics -> Values]
    /\ previousDiffs \in [Metrics -> Diffs]
    /\ lines \in [Metrics -> {"above", "below", "none"}]
    /\ alarm \in [Metrics -> {"above", "below"}]
    /\ last \in [Metrics -> Values]
    /\ before \in [Metrics -> Values]

\* NewScrapeEventDesc.
Init ==
    /\ previousValues = [m \in Metrics |-> 0]
    /\ previousDiffs = [m \in Metrics |-> 0]
    /\ lines = [m \in Metrics |-> "none"]
    /\ alarm = [m \in Metrics |-> "below"]
    /\ last = [m \in Metrics |-> 0]
    /\ before = [m \in Metrics |-> 0]

-----------------------------------------------------------------------------
\* What the collector exposes of a metric: nothing, or a family of some type.
Families == {Missing} \cup [type : {"counter", "gauge"}, value : Values]

\* The accessors of a family of another type return 0.
getValue(m, family) ==
    IF family = Missing \/ MetricType[m] \notin {"counter", "gauge"} THEN Missing
    ELSE IF family.type = MetricType[m] THEN family.value
    ELSE 0

\* For mutation: one of the two comparisons is strict.
evalThresholdStrict(m, value, previousValue, previousDiff) ==
    LET old == IF CheckType[m] = "ValueThreshold" THEN previousValue ELSE previousDiff
        new == IF CheckType[m] = "ValueThreshold" THEN value ELSE value - previousValue
    IN  IF new > Threshold[m] /\ old <= Threshold[m] THEN "above"
        ELSE IF new < Threshold[m] /\ old > Threshold[m] THEN "below"
        ELSE "none"

\* The line to be logged for a metric, if any.
evalThreshold(m, value, previousValue, previousDiff) ==
    LET old == IF CheckType[m] = "ValueThreshold" THEN previousValue ELSE previousDiff
        new == IF CheckType[m] = "ValueThreshold" THEN value ELSE value - previousValue
    IN  IF new > Threshold[m] /\ old <= Threshold[m] THEN "above"
        ELSE IF new <= Threshold[m] /\ old > Threshold[m] THEN "below"
        ELSE "none"

\* The value of each metric in the families a scrape has returned.
Sample(families) == [m \in Metrics |-> getValue(m, families[m])]

\* A metric that is missing is passed over, and what is kept of it stays.
Keep(sample, old, new) == [m \in Metrics |-> IF sample[m] = Missing THEN old[m] ELSE new[m]]

\* The history of samples and of logged lines, which the code does not keep.
Record(sample) ==
    /\ lines' = [m \in Metrics |->
                    IF sample[m] = Missing THEN "none"
                    ELSE evalThreshold(m, sample[m], previousValues[m], previousDiffs[m])]
    /\ alarm' = [m \in Metrics |-> IF lines'[m] = "none" THEN alarm[m] ELSE lines'[m]]
    /\ last' = Keep(sample, last, sample)
    /\ before' = Keep(sample, before, last)

\* The change of each metric since the value kept.
Change(sample) == [m \in Metrics |-> IF sample[m] = Missing THEN 0
                                     ELSE sample[m] - previousValues[m]]

\* For mutation: a missing metric counts as 0 in the values kept.
logWarningsZero(sample) ==
    /\ previousValues' = [m \in Metrics |-> IF sample[m] = Missing THEN 0 ELSE sample[m]]
    /\ previousDiffs' = Keep(sample, previousDiffs, Change(sample))
    /\ Record(sample)

\* For mutation: the values kept are those of the families, missing or not.
logWarningsUnchecked(sample) ==
    /\ previousValues' = sample
    /\ previousDiffs' = Keep(sample, previousDiffs, Change(sample))
    /\ Record(sample)

logWarnings(sample) ==
    /\ previousValues' = Keep(sample, previousValues, sample)
    /\ previousDiffs' = Keep(sample, previousDiffs, Change(sample))
    /\ Record(sample)

-----------------------------------------------------------------------------
\* A tick whose scrape succeeds; one that fails changes nothing.
ScrapeMetrics == \E families \in [Metrics -> Families] : logWarnings(Sample(families))

Next == ScrapeMetrics

Spec == Init /\ [][Next]_vars

-----------------------------------------------------------------------------
\* What is compared with the threshold, from the samples really taken.
Measured(m) == IF CheckType[m] = "ValueThreshold" THEN last[m] ELSE last[m] - before[m]

(***************************************************************************)
(* The log tells the state: the last line logged for a metric says "above" *)
(* if and only if the last sample taken, or its change since the sample    *)
(* taken before, is above the threshold.  No crossing is missed and none   *)
(* invented when scrapes fail, the metric is missing for some scrapes or   *)
(* the collector's counters start again (scrape.go:90-106).                *)
(***************************************************************************)
LogTellsState == \A m \in Metrics : alarm[m] = "above" <=> Measured(m) > Threshold[m]

(***************************************************************************)
(* The lines logged for a metric alternate, the first being "above": every *)
(* line is news (scrape.go:134-147).                                       *)
(***************************************************************************)
LinesAlternate ==
    [][\A m \in Metrics : lines'[m] # "none" => lines'[m] # alarm[m]]_vars
=============================================================================
