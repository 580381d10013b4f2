----------------------------- MODULE MCMonitoring ------------------------------
(* Small instance of Monitoring: a plan under a high-risk decision, replaced by *)
(* an enhanced one when the risk of the version is decided again.              *)
EXTENDS Monitoring

MCRiskDecisions ==
  {[version |-> "v1", requirements |-> {"monitoring_plan"}],
   [version |-> "v1", requirements |-> {"enhanced_monitoring"}]}

Metric(id, kind, direction, warning, breach) ==
  [id |-> id, kind |-> kind, direction |-> direction, warning |-> warning,
   breach |-> breach, minSamples |-> 2]
Accuracy == Metric("accuracy", "performance", "below_is_worse", 1, 0)
Psi == Metric("psi", "data_drift", "above_is_worse", 1, 2)
Errors == Metric("errors", "operational", "above_is_worse", 1, 2)
MCMetricSets == {{Accuracy, Psi}, {Accuracy, Psi, Errors}}
MCSchedules == {[cadence |-> 1, maxStaleness |-> 1]}

Reading(value, samples) == [value |-> value, samples |-> samples, source |-> "s"]
MCReadings == {Reading(0, 2), Reading(1, 2), Reading(2, 2), Reading(1, 1)}

\* Observations are made by time 2 and assessed up to 3, a third one is of the
\* same plan and known to it; assessments of one selection are compared, and a
\* revalidation is derived from the only one.
Comparable ==
  /\ \A p \in plans : Cardinality(p.metrics) = 3 => "enhanced_monitoring" \in p.risk.requirements
  /\ \A o \in observations : o.observedAt =< 2
  /\ Cardinality(observations) = 3 =>
        \A o, e \in observations : o.plan = e.plan /\ KnownMetric(o, o.plan)
  /\ \A a, b \in assessments :
        a # b => /\ a.plan = b.plan /\ a.selected = b.selected /\ a.asOf # b.asOf
                 /\ revalidations = {}
================================================================================
