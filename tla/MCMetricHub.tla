----------------------------- MODULE MCMetricHub -----------------------------
(* MetricHub for TLC: every subscriber watches the first job, and metrics come
   for a second one too.                                                      *)
EXTENDS MetricHub, TLC

CONSTANTS s1, s2, t1, t2

MCSubscribers == {s1, s2}
MCTopics      == {t1, t2}
MCTopicOf     == [s \in MCSubscribers |-> t1]

\* One subscriber is enough to see it lose the hub.
MCOne   == {s1}
MCOneOf == [s \in MCOne |-> t1]
=============================================================================
