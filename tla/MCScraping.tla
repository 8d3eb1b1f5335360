----------------------------- MODULE MCScraping ------------------------------
(***************************************************************************)
(* A small instance of Scraping for TLC: the rate of a counter, the value  *)
(* of a gauge, and a metric of a type that is not recognized.              *)
(***************************************************************************)
EXTENDS Scraping, TLC

CONSTANTS sent, memory, other

MCMetrics == {sent, memory, other}

MCCheckType == sent :> "RateThreshold" @@ memory :> "ValueThreshold" @@ other :> "ValueThreshold"

MCMetricType == sent :> "counter" @@ memory :> "gauge" @@ other :> "histogram"

MCThreshold == sent :> 0 @@ memory :> 1 @@ other :> 0
==============================================================================
