----------------------------- MODULE MCAnalyzer -----------------------------
(***************************************************************************)
(* Instances of Analyzer.tla for TLC.                                      *)
(***************************************************************************)
EXTENDS Analyzer

CONSTANTS q, utc,       \* pieces of texts: a question, a time zone
          a, b          \* pieces of the names of metrics

\* What a client that follows the code sends, and one that follows the
\* documentation.
ServerFields == {"question", "start_time", "end_time", "metrics"}
DocFields == {"query", "time_range", "metrics"}

Body(fields, start, end, metrics) ==
    [json |-> TRUE, fields |-> fields,
     request |-> [question |-> <<q>>, start |-> start, end |-> end, metrics |-> metrics]]

\* Two metrics, one metric whose name is the two run together, and all metrics.
TwoMetrics == Body(ServerFields, <<0, utc>>, <<1, utc>>, << <<a>>, <<b>> >>)
OneJoined  == Body(ServerFields, <<0, utc>>, <<1, utc>>, << <<a, b>> >>)
AllMetrics == Body(ServerFields, <<0, utc>>, <<1, utc>>, <<>>)

\* The question of AllMetrics about another range, and one metric.
OneLater   == Body(ServerFields, <<0, utc>>, <<2, utc>>, << <<a>> >>)

\* A body that follows docs/openapi.yaml.
Documented == Body(DocFields, <<0, utc>>, <<1, utc>>, << <<a>>, <<b>> >>)

Overlapping == {AllMetrics, OneLater, Documented}
MixedBodies == {TwoMetrics, OneJoined}
OneBody == {OneJoined}

\* Prometheus knows no metric.
NoMetric == {<<>>}
=============================================================================
