------------------------------ MODULE Monitoring -------------------------------
(***************************************************************************)
(* Monitoring of a model in use (monitoring.py): plans bound to an exact   *)
(* model version and risk decision, observations of their metrics, and     *)
(* assessments of the observations a caller presents at a represented      *)
(* time.  Observations are made, delayed, repeated and left out in any     *)
(* way; the state is the pool of artefacts made so far.  Values and        *)
(* thresholds are numbers of which only the order is read.                 *)
(***************************************************************************)
EXTENDS Integers, FiniteSets

CONSTANTS
  RiskDecisions,  \* risk decisions: [version, requirements, ...]
  MetricSets,     \* the metric definitions a plan may hold
  Schedules,      \* [cadence, maxStaleness]
  Readings,       \* what may be measured: [value, samples, source]
  MaxTime,        \* the bound on every timestamp
  MaxPlans, MaxObservations, MaxAssessments, MaxRevalidations  \* bounds on the pools

Times == 0 .. MaxTime

DriftKinds == {"data_drift", "prediction_drift"}

\* MetricDefinition.__post_init__, and the unique ids of MonitoringPlan.
WellFormedMetrics(ms) ==
  /\ ms # {} /\ IsFiniteSet(ms)
  /\ \A m, n \in ms : m.id = n.id => m = n
  /\ \A m \in ms :
       /\ m.warning \in Int /\ m.breach \in Int /\ m.minSamples \in Nat \ {0}
       /\ \/ m.direction = "above_is_worse" /\ m.warning < m.breach
          \/ m.direction = "below_is_worse" /\ m.breach < m.warning

ASSUME MetricSetsAssumption == \A ms \in MetricSets : WellFormedMetrics(ms)
ASSUME SchedulesAssumption ==
  \A s \in Schedules : /\ s.cadence \in Nat \ {0} /\ s.maxStaleness \in Nat
                       /\ s.cadence =< s.maxStaleness
ASSUME ReadingsAssumption == \A r \in Readings : r.value \in Int /\ r.samples \in Nat

VARIABLES
  plans,         \* MonitoringPlan
  observations,  \* MonitoringObservation
  assessments,   \* MonitoringAssessment
  revalidations  \* RevalidationRequirement

vars == <<plans, observations, assessments, revalidations>>

Init == plans = {} /\ observations = {} /\ assessments = {} /\ revalidations = {}

Versions == {d.version : d \in RiskDecisions}
MetricIds == {m.id : m \in UNION MetricSets}

--------------------------------------------------------------------------------
\* A mutant of the plan: the enhanced level is not enforced.
AnyMetricsSuffice(d, ms) == TRUE

\* Enhanced monitoring takes three metrics, one of them of drift.
MetricsSuffice(d, ms) ==
  "enhanced_monitoring" \in d.requirements =>
    /\ Cardinality(ms) >= 3
    /\ \E m \in ms : m.kind \in DriftKinds

\* build_monitoring_plan.
BuildPlan(v, d, ms, schedule) ==
  /\ d.version = v
  /\ MetricsSuffice(d, ms)
  /\ Cardinality(plans) < MaxPlans
  /\ plans' = plans \cup {[version |-> v, risk |-> d, metrics |-> ms, schedule |-> schedule]}
  /\ UNCHANGED <<observations, assessments, revalidations>>

\* An observation is not made before the end of its window, which is positive.
AfterWindow(at) == at >= 1

\* A MonitoringObservation, of any metric.  A reading stands for its value, its
\* sample size and its source evidence.
Observe(p, id, reading, at) ==
  /\ AfterWindow(at)
  /\ Cardinality(observations) < MaxObservations
  /\ observations' = observations \cup
       {[plan |-> p, metric |-> id, reading |-> reading, observedAt |-> at]}
  /\ UNCHANGED <<plans, assessments, revalidations>>

--------------------------------------------------------------------------------
Of(m, obs) == {o \in obs : o.metric = m.id}

\* A mutant of the selection: the oldest observation of a metric is taken.
Oldest(m, obs) == {o \in Of(m, obs) : \A e \in Of(m, obs) : o.observedAt =< e.observedAt}

\* The observations of a metric with the latest observed_at; more than one of
\* them conflict.
Latest(m, obs) == {o \in Of(m, obs) : \A e \in Of(m, obs) : e.observedAt =< o.observedAt}

Reached(m, value, threshold) ==
  IF m.direction = "above_is_worse" THEN value >= threshold ELSE value =< threshold

\* A mutant of the evaluation: a threshold must be exceeded.
Exceeded(m, value, threshold) ==
  IF m.direction = "above_is_worse" THEN value > threshold ELSE value < threshold

StrictStatus(m, obs, asOf, maxStaleness) ==
  IF obs = {} THEN "missing" ELSE
  LET o == CHOOSE x \in obs : TRUE IN
  IF asOf - o.observedAt > maxStaleness THEN "stale"
  ELSE IF o.reading.samples < m.minSamples THEN "insufficient_samples"
  ELSE IF Exceeded(m, o.reading.value, m.breach) THEN "breach"
  ELSE IF Exceeded(m, o.reading.value, m.warning) THEN "warning"
  ELSE "pass"

\* _evaluate_metric over what was selected, at most one observation.
MetricStatus(m, obs, asOf, maxStaleness) ==
  IF obs = {} THEN "missing" ELSE
  LET o == CHOOSE x \in obs : TRUE IN
  IF asOf - o.observedAt > maxStaleness THEN "stale"
  ELSE IF o.reading.samples < m.minSamples THEN "insufficient_samples"
  ELSE IF Reached(m, o.reading.value, m.breach) THEN "breach"
  ELSE IF Reached(m, o.reading.value, m.warning) THEN "warning"
  ELSE "pass"

\* A mutant of _INCOMPLETE_STATUSES: a stale metric is forgotten.
StaleForgotten == {"missing", "insufficient_samples"}

IncompleteStatuses == {"missing", "stale", "insufficient_samples"}

StateOf(statuses) ==
  IF statuses \cap IncompleteStatuses # {} THEN "incomplete"
  ELSE IF "breach" \in statuses THEN "breached"
  ELSE IF "warning" \in statuses THEN "degraded"
  ELSE "healthy"

NeedsRevalidation(a) == a.state \in {"breached", "incomplete"}

\* A mutant of assess_monitoring: the plan an observation is bound to is not read.
KnownMetric(o, p) == \E m \in p.metrics : m.id = o.metric

Bound(o, p) == o.plan = p /\ \E m \in p.metrics : m.id = o.metric

\* assess_monitoring of the observations the caller presents; conflicting latest
\* ones fail closed.
Assess(p, v, d, obs, asOf) ==
  LET status == [m \in p.metrics |->
                   MetricStatus(m, Latest(m, obs), asOf, p.schedule.maxStaleness)] IN
  /\ p.version = v /\ d.version = v /\ p.risk = d
  /\ \A o \in obs : Bound(o, p) /\ o.observedAt =< asOf
  /\ \A m \in p.metrics : Cardinality(Latest(m, obs)) =< 1
  /\ Cardinality(assessments) < MaxAssessments
  /\ assessments' = assessments \cup
       {[plan |-> p, asOf |-> asOf, status |-> status,
         selected |-> UNION {Latest(m, obs) : m \in p.metrics},
         state |-> StateOf({status[m] : m \in p.metrics})]}
  /\ UNCHANGED <<plans, observations, revalidations>>

\* A mutant of the rationale: only what is incomplete is named.
OnlyIncomplete(a) == {m \in a.plan.metrics : a.status[m] \in IncompleteStatuses}

Actionable(a) == {m \in a.plan.metrics : a.status[m] \in IncompleteStatuses \cup {"breach"}}

\* derive_monitoring_revalidation.
DeriveRevalidation(a, v, d) ==
  /\ NeedsRevalidation(a)
  /\ a.plan.version = v /\ d.version = v /\ a.plan.risk = d
  /\ Cardinality(revalidations) < MaxRevalidations
  /\ revalidations' = revalidations \cup {[assessment |-> a, reasons |-> Actionable(a)]}
  /\ UNCHANGED <<plans, observations, assessments>>

Next ==
  \/ \E v \in Versions, d \in RiskDecisions, ms \in MetricSets, s \in Schedules :
        BuildPlan(v, d, ms, s)
  \/ \E p \in plans, id \in MetricIds, r \in Readings, at \in Times : Observe(p, id, r, at)
  \/ \E p \in plans, v \in Versions, d \in RiskDecisions, asOf \in Times :
        \E obs \in SUBSET observations : Assess(p, v, d, obs, asOf)
  \/ \E a \in assessments, v \in Versions, d \in RiskDecisions : DeriveRevalidation(a, v, d)

Spec == Init /\ [][Next]_vars

--------------------------------------------------------------------------------
\* An observation that clears a metric: fresh, large enough and on the good side
\* of the breach threshold.
Clears(o, m, a) ==
  /\ o.plan = a.plan /\ o.metric = m.id
  /\ o.observedAt \in a.asOf - a.plan.schedule.maxStaleness .. a.asOf
  /\ o.reading.samples >= m.minSamples
  /\ IF m.direction = "above_is_worse"
       THEN o.reading.value < m.breach
       ELSE o.reading.value > m.breach

\* An assessment gets by without a revalidation exactly if each metric of its
\* plan is cleared by an observation it names, made for that very plan, however
\* the observations of several plans and times were mixed (assess_monitoring).
\* If the risk decision asks for enhanced monitoring there are three of them.
ClearedOnEvidence ==
  \A a \in assessments :
    /\ ~ NeedsRevalidation(a) <=> \A m \in a.plan.metrics : \E o \in a.selected : Clears(o, m, a)
    /\ ~ NeedsRevalidation(a) /\ "enhanced_monitoring" \in a.plan.risk.requirements
         => Cardinality(a.selected) >= 3

\* Time alone never improves a model: an assessment that names no observation
\* the earlier one had not named for the metric, but is made as of a later time,
\* finds every metric as it was, or stale; what needed revalidation still does.
AgeingNeverClears ==
  \A a, b \in assessments :
    a.plan = b.plan /\ a.selected = b.selected /\ a.asOf =< b.asOf =>
      /\ \A m \in a.plan.metrics : b.status[m] \in {a.status[m], "stale"}
      /\ NeedsRevalidation(a) => NeedsRevalidation(b)

\* An observation that arrives late, older than the one a metric was judged on,
\* changes nothing: assessing again with it, in whatever number and order such
\* observations were delivered, gives the same result (assess_monitoring).
LateObservationsChangeNothing ==
  \A a \in assessments :
    LET late == {o \in observations : /\ Bound(o, a.plan)
                                     /\ \E s \in a.selected : /\ s.metric = o.metric
                                                              /\ o.observedAt < s.observedAt}
    IN  \A m \in a.plan.metrics :
          MetricStatus(m, Latest(m, a.selected \cup late), a.asOf, a.plan.schedule.maxStaleness)
            = a.status[m]

\* A revalidation names every metric in breach even if others are incomplete,
\* and it never comes without a reason (derive_monitoring_revalidation).
RevalidationNamesEveryReason ==
  \A r \in revalidations :
    /\ r.reasons # {}
    /\ \A o \in r.assessment.selected : \A m \in r.assessment.plan.metrics \ r.reasons :
         o.metric = m.id => Clears(o, m, r.assessment)
================================================================================
