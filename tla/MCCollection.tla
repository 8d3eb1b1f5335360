---------------------------- MODULE MCCollection ----------------------------
(***************************************************************************)
(* Small instances of Collection for TLC.                                  *)
(***************************************************************************)
EXTENDS Collection, TLC

Metric(id, labels, dest, type) ==
    [id |-> <<id>>, labels |-> labels, dest |-> dest, type |-> type]

Collector(name, metrics) == [name |-> name, enabled |-> TRUE, metrics |-> metrics]

One == Metric("one", <<"l">>, <<>>, "Gauge")
Two == Metric("two", <<"l", "m">>, <<"n", "o">>, "Counter")

\* Destination labels absent, matching, too few and too many; an unknown type; a
\* disabled collector.
Plain ==
    <<Collector(<<"a">>, <<One, Two>>),
      Collector(<<"b">>, <<Metric("one", <<"l">>, <<"n", "o">>, "Gauge")>>)>>

Mismatched ==
    <<Collector(<<"a">>, <<Metric("one", <<"l", "m">>, <<"n">>, "Gauge"),
                           Metric("two", <<"m">>, <<"n">>, "Histogram")>>),
      [Collector(<<"a">>, <<One>>) EXCEPT !.enabled = FALSE]>>

\* Two collectors, two metrics or a metric and a figure go by one name.
SameCollector == <<Collector(<<"a">>, <<One>>), Collector(<<"a">>, <<Two>>)>>
SameMetric ==
    <<Collector(<<"a">>, <<One, Metric("one", <<"l">>, <<>>, "Counter")>>)>>
FigureName ==
    <<Collector(<<"a">>, <<Metric("up", <<>>, <<>>, "Gauge")>>)>>
Joined ==
    <<Collector(<<"a">>, <<[One EXCEPT !.id = <<"b", "up">>]>>), Collector(<<"a", "b">>, <<One>>)>>

\* The registry refuses these.
Refused ==
    {<<Collector(<<"a">>, <<One>>), Collector(<<"a">>, <<One>>)>>,
     <<Collector(<<"a">>, <<Metric("one", <<"l", "l">>, <<>>, "Gauge")>>)>>}

\* The registry takes this one, and does not find it again.
Empty == <<Collector(<<"a">>, <<>>)>>

MCFiles ==
    {Plain, Mismatched, SameCollector, SameMetric, FigureName, Joined, Empty} \cup Refused

Sample(l, m) == [labels |-> [x \in Labels |-> IF x = "l" THEN l ELSE m], timed |-> TRUE]

Result(samples, warnings) == [vector |-> TRUE, samples |-> samples, warnings |-> warnings]

Untimed(s) == [s EXCEPT !.timed = FALSE]

\* Two samples that the label l tells apart or not, one without a value, none;
\* a scalar.
MCResults ==
    {Result(<<Sample("x", ""), Sample("y", "")>>, 0),
     Result(<<Sample("x", "x"), Sample("x", "y")>>, 0),
     Result(<<Untimed(Sample("x", "")), Sample("y", "")>>, 1),
     Result(<<>>, 0),
     [Result(<<>>, 0) EXCEPT !.vector = FALSE]}
=============================================================================
