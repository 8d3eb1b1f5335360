--------------------------- MODULE Scraping_proofs ---------------------------
(***************************************************************************)
(* What the log says, for any metrics, thresholds and values.  The code    *)
(* keeps the last value and the last difference of each metric; that these *)
(* are the ones of the samples really taken, whichever scrapes missed the  *)
(* metric, is what makes the log right.                                    *)
(***************************************************************************)
EXTENDS Scraping, TLAPS

\* The values kept are those of the samples taken.
KeptAreTaken ==
    /\ previousValues = last
    /\ \A m \in Metrics : previousDiffs[m] = last[m] - before[m]

Inv == TypeOK /\ KeptAreTaken /\ LogTellsState

\* A scrape returns a value or nothing for each metric.
LEMMA SampleType ==
    ASSUME NEW families \in [Metrics -> Families]
    PROVE  Sample(families) \in [Metrics -> Values \cup {Missing}]
<1>1. ASSUME NEW m \in Metrics
      PROVE  getValue(m, families[m]) \in Values \cup {Missing}
  <2>1. families[m] \in Families
    OBVIOUS
  <2>2. CASE families[m] = Missing
    BY <2>2 DEF getValue
  <2>3. CASE families[m] # Missing
    <3>1. families[m].value \in Values
      BY <2>1, <2>3 DEF Families
    <3> QED
      BY <2>3, <3>1, ScrapingAssumption DEF getValue
  <2> QED
    BY <2>2, <2>3
<1> QED
  BY <1>1 DEF Sample

\* One metric that was sampled: the line logged for it and its history agree
\* again afterwards, and the line says something new.
LEMMA CrossingStep ==
    ASSUME NEW m \in Metrics, NEW old \in Values, NEW older \in Values, NEW value \in Values,
           NEW was \in {"above", "below"},
           was = "above" <=> (IF CheckType[m] = "ValueThreshold" THEN old ELSE old - older)
                                > Threshold[m]
    PROVE  LET line == evalThreshold(m, value, old, old - older) IN
           /\ line \in {"above", "below", "none"}
           /\ line # "none" => line # was
           /\ (IF line = "none" THEN was ELSE line) = "above"
                <=> (IF CheckType[m] = "ValueThreshold" THEN value ELSE value - old)
                       > Threshold[m]
<1>1. /\ old \in Int /\ older \in Int /\ value \in Int
      /\ Threshold[m] \in Int
  BY ScrapingAssumption
<1> QED
  BY <1>1 DEF evalThreshold

LEMMA InvInitially == Init => Inv
<1> SUFFICES ASSUME Init PROVE Inv
  OBVIOUS
<1>1. 0 \in Values /\ 0 \in Diffs
  BY ScrapingAssumption DEF Diffs
<1>2. TypeOK /\ KeptAreTaken
  BY <1>1 DEF Init, TypeOK, KeptAreTaken
<1>3. LogTellsState
  <2> SUFFICES ASSUME NEW m \in Metrics PROVE alarm[m] = "above" <=> Measured(m) > Threshold[m]
    BY DEF LogTellsState
  <2>1. alarm[m] = "below" /\ last[m] = 0 /\ before[m] = 0
    BY DEF Init
  <2>2. Measured(m) = 0
    BY <2>1 DEF Measured
  <2>3. ~(0 > Threshold[m])
    BY ScrapingAssumption
  <2> QED
    BY <2>1, <2>2, <2>3
<1> QED
  BY <1>2, <1>3 DEF Inv

\* A scrape keeps the invariant, and what it logs is news.
LEMMA ScrapeStep ==
    Inv /\ ScrapeMetrics
        => Inv' /\ \A m \in Metrics : lines'[m] # "none" => lines'[m] # alarm[m]
<1> SUFFICES ASSUME Inv, NEW families \in [Metrics -> Families],
                    logWarnings(Sample(families))
             PROVE  Inv' /\ \A m \in Metrics : lines'[m] # "none" => lines'[m] # alarm[m]
  BY DEF ScrapeMetrics
<1> DEFINE sample == Sample(families)
<1>1. sample \in [Metrics -> Values \cup {Missing}]
  BY SampleType
<1> HIDE DEF sample
<1>2. /\ previousValues' = [m \in Metrics |-> IF sample[m] = Missing THEN previousValues[m]
                                              ELSE sample[m]]
      /\ previousDiffs' = [m \in Metrics |-> IF sample[m] = Missing THEN previousDiffs[m]
                                             ELSE sample[m] - previousValues[m]]
      /\ lines' = [m \in Metrics |->
                     IF sample[m] = Missing THEN "none"
                     ELSE evalThreshold(m, sample[m], previousValues[m], previousDiffs[m])]
      /\ alarm' = [m \in Metrics |-> IF lines'[m] = "none" THEN alarm[m] ELSE lines'[m]]
      /\ last' = [m \in Metrics |-> IF sample[m] = Missing THEN last[m] ELSE sample[m]]
      /\ before' = [m \in Metrics |-> IF sample[m] = Missing THEN before[m] ELSE last[m]]
  <2>1. Change(sample) = [m \in Metrics |-> IF sample[m] = Missing THEN 0
                                            ELSE sample[m] - previousValues[m]]
    BY DEF Change
  <2> QED
    BY <2>1 DEF logWarnings, Record, Keep, sample
<1>3. ASSUME NEW m \in Metrics
      PROVE  /\ previousValues'[m] \in Values /\ previousDiffs'[m] \in Diffs
             /\ lines'[m] \in {"above", "below", "none"}
             /\ alarm'[m] \in {"above", "below"}
             /\ last'[m] \in Values /\ before'[m] \in Values
             /\ previousValues'[m] = last'[m]
             /\ previousDiffs'[m] = last'[m] - before'[m]
             /\ alarm'[m] = "above" <=> Measured(m)' > Threshold[m]
             /\ lines'[m] # "none" => lines'[m] # alarm[m]
  <2>1. /\ previousValues[m] = last[m] /\ previousDiffs[m] = last[m] - before[m]
        /\ previousDiffs[m] \in Diffs
        /\ last[m] \in Values /\ before[m] \in Values
        /\ alarm[m] \in {"above", "below"}
        /\ alarm[m] = "above" <=> Measured(m) > Threshold[m]
    BY DEF Inv, TypeOK, KeptAreTaken, LogTellsState
  <2>2. CASE sample[m] = Missing
    <3>1. /\ last'[m] = last[m] /\ before'[m] = before[m] /\ lines'[m] = "none"
          /\ alarm'[m] = alarm[m] /\ previousValues'[m] = previousValues[m]
          /\ previousDiffs'[m] = previousDiffs[m]
      BY <1>2, <2>2
    <3>2. Measured(m)' = Measured(m)
      BY <3>1 DEF Measured
    <3> QED
      BY <2>1, <3>1, <3>2
  <2>3. CASE sample[m] # Missing
    <3>1. sample[m] \in Values
      BY <1>1, <2>3
    <3>2. /\ last'[m] = sample[m] /\ before'[m] = last[m]
          /\ previousValues'[m] = sample[m] /\ previousDiffs'[m] = sample[m] - last[m]
          /\ lines'[m] = evalThreshold(m, sample[m], last[m], last[m] - before[m])
          /\ alarm'[m] = IF lines'[m] = "none" THEN alarm[m] ELSE lines'[m]
      BY <1>2, <2>1, <2>3
    <3>3. alarm[m] = "above"
             <=> (IF CheckType[m] = "ValueThreshold" THEN last[m] ELSE last[m] - before[m])
                    > Threshold[m]
      BY <2>1 DEF Measured
    <3>4. /\ lines'[m] \in {"above", "below", "none"}
          /\ lines'[m] # "none" => lines'[m] # alarm[m]
          /\ alarm'[m] = "above"
                <=> (IF CheckType[m] = "ValueThreshold" THEN sample[m] ELSE sample[m] - last[m])
                       > Threshold[m]
      BY <2>1, <3>1, <3>2, <3>3, CrossingStep
    <3>5. Measured(m)' = IF CheckType[m] = "ValueThreshold" THEN sample[m]
                         ELSE sample[m] - last[m]
      BY <3>2 DEF Measured
    <3>6. sample[m] - last[m] \in Diffs
      BY <2>1, <3>1 DEF Diffs
    <3> QED
      BY <2>1, <3>1, <3>2, <3>4, <3>5, <3>6
  <2> QED
    BY <2>2, <2>3
<1>4. TypeOK'
  BY <1>2, <1>3 DEF TypeOK
<1>5. KeptAreTaken'
  BY <1>2, <1>3 DEF KeptAreTaken, Inv
<1>6. LogTellsState'
  BY <1>3 DEF LogTellsState
<1> QED
  BY <1>3, <1>4, <1>5, <1>6 DEF Inv

\* A step that changes nothing keeps the invariant.
LEMMA InvUnchanged == Inv /\ UNCHANGED vars => Inv'
BY DEF Inv, TypeOK, KeptAreTaken, LogTellsState, Measured, vars

THEOREM InvAlways == Spec => []Inv
<1>1. Inv /\ [Next]_vars => Inv'
  BY ScrapeStep, InvUnchanged DEF Next
<1> QED
  BY InvInitially, <1>1, PTL DEF Spec

(***************************************************************************)
(* The variables keep their types.                                         *)
(***************************************************************************)
THEOREM TypeCorrect == Spec => []TypeOK
<1>1. Inv => TypeOK
  BY DEF Inv
<1> QED
  BY InvAlways, <1>1, PTL

(***************************************************************************)
(* The last line logged for a metric says "above" if and only if what was  *)
(* measured last is above the threshold (scrape.go:90-106).                *)
(***************************************************************************)
THEOREM LogCorrect == Spec => []LogTellsState
<1>1. Inv => LogTellsState
  BY DEF Inv
<1> QED
  BY InvAlways, <1>1, PTL

(***************************************************************************)
(* No line repeats what the line before it said (scrape.go:134-147).       *)
(***************************************************************************)
THEOREM AlternationCorrect == Spec => LinesAlternate
<1>1. Inv /\ [Next]_vars
        => [\A m \in Metrics : lines'[m] # "none" => lines'[m] # alarm[m]]_vars
  BY ScrapeStep DEF Next
<1> QED
  BY InvAlways, <1>1, PTL DEF Spec, LinesAlternate
==============================================================================
