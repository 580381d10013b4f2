--------------------------- MODULE MonitoringProofs ----------------------------
(***************************************************************************)
(* Proofs about Monitoring, for every set of risk decisions, metric        *)
(* definitions, schedules and readings, and every bound on time and on the *)
(* pools.  The inductive invariant says that an assessment is a function   *)
(* of the plan, of the observations it names and of the time it is made    *)
(* as of: what the caller presented beside them leaves no trace.           *)
(***************************************************************************)
EXTENDS Monitoring, FiniteSetTheorems, TLAPS

\* What building a plan established.
PlansHold ==
  \A p \in plans :
    /\ p.metrics \in MetricSets /\ p.schedule \in Schedules
    /\ MetricsSuffice(p.risk, p.metrics)

ObservationsHold ==
  /\ IsFiniteSet(observations)
  /\ \A o \in observations : o.reading \in Readings /\ o.observedAt \in Times

\* The observations an assessment names are of its plan, of its time, and one per
\* metric; its statuses are read off them, and its state off the statuses.
Sound(a) ==
  /\ a.plan \in plans
  /\ a.asOf \in Times
  /\ a.selected \subseteq observations
  /\ \A o \in a.selected : Bound(o, a.plan) /\ o.observedAt =< a.asOf
  /\ \A o, e \in a.selected : o.metric = e.metric => o = e
  /\ a.status = [m \in a.plan.metrics |->
                   MetricStatus(m, Of(m, a.selected), a.asOf, a.plan.schedule.maxStaleness)]
  /\ a.state = StateOf({a.status[m] : m \in a.plan.metrics})

AssessmentsHold == \A a \in assessments : Sound(a)

RevalidationsHold ==
  \A r \in revalidations : /\ r.assessment \in assessments
                           /\ NeedsRevalidation(r.assessment)
                           /\ r.reasons = Actionable(r.assessment)

MonitoringInv == PlansHold /\ ObservationsHold /\ AssessmentsHold /\ RevalidationsHold

--------------------------------------------------------------------------------
\* A set of at most one element holds no two.
LEMMA AtMostOne ==
  ASSUME NEW S, IsFiniteSet(S), Cardinality(S) =< 1, NEW x \in S, NEW y \in S
  PROVE  x = y
<1>1. Cardinality(S) \in Nat
  BY FS_CardinalityType
<1>2. Cardinality(S) # 0
  BY FS_EmptySet
<1>3. Cardinality(S) = 1
  BY <1>1, <1>2
<1>4. \E z : S = {z}
  BY <1>3, FS_Singleton
<1> QED BY <1>4

\* The fields of a plan's metrics and of its schedule, from the assumptions.
LEMMA PlanFields ==
  ASSUME PlansHold, NEW p \in plans, NEW m \in p.metrics
  PROVE  /\ m.warning \in Int /\ m.breach \in Int /\ m.minSamples \in Nat
         /\ \/ m.direction = "above_is_worse" /\ m.warning < m.breach
            \/ m.direction = "below_is_worse" /\ m.breach < m.warning
         /\ p.schedule.maxStaleness \in Nat
         /\ \A n \in p.metrics : m.id = n.id => m = n
BY MetricSetsAssumption, SchedulesAssumption DEF PlansHold, WellFormedMetrics

LEMMA ObservationFields ==
  ASSUME ObservationsHold, NEW o \in observations
  PROVE  /\ o.observedAt \in Int
         /\ o.reading.value \in Int /\ o.reading.samples \in Nat
BY ReadingsAssumption DEF ObservationsHold, Times

\* Of what is selected, the latest observations of a metric are those selected for
\* it: the ids of a plan's metrics are distinct.
LEMMA SelectionReadsBack ==
  ASSUME PlansHold, NEW p \in plans, NEW obs, NEW m \in p.metrics
  PROVE  Of(m, UNION {Latest(n, obs) : n \in p.metrics}) = Latest(m, obs)
BY PlanFields DEF Of, Latest

--------------------------------------------------------------------------------
LEMMA Init_Inv == Init => MonitoringInv
<1>1. IsFiniteSet({})
  BY FS_EmptySet
<1> QED BY <1>1 DEF Init, MonitoringInv, PlansHold, ObservationsHold, AssessmentsHold,
                    RevalidationsHold

\* What is sound stays so while plans and observations are added.
LEMMA SoundKept ==
  ASSUME NEW a, Sound(a), plans \subseteq plans', observations \subseteq observations'
  PROVE  Sound(a)'
BY DEF Sound

LEMMA BuildPlan_Inv ==
  ASSUME MonitoringInv, NEW v, NEW d, NEW ms \in MetricSets, NEW s \in Schedules,
         BuildPlan(v, d, ms, s)
  PROVE  MonitoringInv'
<1>1. PlansHold'
  BY DEF BuildPlan, MonitoringInv, PlansHold
<1>2. ObservationsHold' /\ RevalidationsHold'
  BY DEF BuildPlan, MonitoringInv, ObservationsHold, RevalidationsHold
<1>3. AssessmentsHold'
  BY SoundKept DEF BuildPlan, MonitoringInv, AssessmentsHold
<1> QED BY <1>1, <1>2, <1>3 DEF MonitoringInv

LEMMA Observe_Inv ==
  ASSUME MonitoringInv, NEW p, NEW id, NEW r \in Readings, NEW at \in Times,
         Observe(p, id, r, at)
  PROVE  MonitoringInv'
<1>1. PlansHold' /\ RevalidationsHold'
  BY DEF Observe, MonitoringInv, PlansHold, RevalidationsHold
<1>2. ObservationsHold'
  <2> DEFINE o == [plan |-> p, metric |-> id, reading |-> r, observedAt |-> at]
  <2>1. observations' = observations \cup {o}
    BY DEF Observe
  <2>2. IsFiniteSet(observations \cup {o})
    BY FS_AddElement DEF MonitoringInv, ObservationsHold
  <2> QED BY <2>1, <2>2 DEF MonitoringInv, ObservationsHold
<1>3. AssessmentsHold'
  BY SoundKept DEF Observe, MonitoringInv, AssessmentsHold
<1> QED BY <1>1, <1>2, <1>3 DEF MonitoringInv

LEMMA Assess_Inv ==
  ASSUME MonitoringInv, NEW p \in plans, NEW v, NEW d, NEW obs \in SUBSET observations,
         NEW asOf \in Times, Assess(p, v, d, obs, asOf)
  PROVE  MonitoringInv'
<1> DEFINE selected == UNION {Latest(m, obs) : m \in p.metrics}
           status == [m \in p.metrics |->
                        MetricStatus(m, Latest(m, obs), asOf, p.schedule.maxStaleness)]
           a == [plan |-> p, asOf |-> asOf, status |-> status, selected |-> selected,
                 state |-> StateOf({status[m] : m \in p.metrics})]
<1>1. /\ \A o \in obs : Bound(o, p) /\ o.observedAt =< asOf
      /\ \A m \in p.metrics : Cardinality(Latest(m, obs)) =< 1
      /\ assessments' = assessments \cup {a}
      /\ UNCHANGED <<plans, observations, revalidations>>
  BY DEF Assess
<1>2. PlansHold' /\ ObservationsHold' /\ RevalidationsHold'
  BY <1>1 DEF MonitoringInv, PlansHold, ObservationsHold, RevalidationsHold
<1>3. selected \subseteq obs
  BY DEF Latest, Of
<1>4. \A m \in p.metrics : Of(m, selected) = Latest(m, obs)
  BY SelectionReadsBack DEF MonitoringInv
<1>5. ASSUME NEW o \in selected, NEW e \in selected, o.metric = e.metric PROVE o = e
  <2>1. PICK m \in p.metrics : o \in Latest(m, obs)
    OBVIOUS
  <2>2. e \in Latest(m, obs)
    BY <1>4, <1>5, <2>1 DEF Of, Latest
  <2>3. IsFiniteSet(Latest(m, obs))
    BY FS_Subset DEF Latest, Of, MonitoringInv, ObservationsHold
  <2> QED BY <1>1, <2>1, <2>2, <2>3, AtMostOne
<1>6. status = [m \in p.metrics |->
                  MetricStatus(m, Of(m, selected), asOf, p.schedule.maxStaleness)]
  BY <1>4
<1>7. Sound(a)
  <2> HIDE DEF selected, status
  <2> QED BY <1>1, <1>3, <1>5, <1>6 DEF Sound
<1>8. AssessmentsHold'
  <2>1. \A b \in assessments \cup {a} : Sound(b)
    BY <1>7 DEF MonitoringInv, AssessmentsHold
  <2> QED BY <1>1, <2>1, SoundKept DEF AssessmentsHold
<1> QED BY <1>2, <1>8 DEF MonitoringInv

LEMMA Derive_Inv ==
  ASSUME MonitoringInv, NEW a \in assessments, NEW v, NEW d, DeriveRevalidation(a, v, d)
  PROVE  MonitoringInv'
<1>1. PlansHold' /\ ObservationsHold'
  BY DEF DeriveRevalidation, MonitoringInv, PlansHold, ObservationsHold
<1>2. AssessmentsHold'
  BY SoundKept DEF DeriveRevalidation, MonitoringInv, AssessmentsHold
<1>3. RevalidationsHold'
  BY DEF DeriveRevalidation, MonitoringInv, RevalidationsHold
<1> QED BY <1>1, <1>2, <1>3 DEF MonitoringInv

LEMMA Next_Inv == MonitoringInv /\ [Next]_vars => MonitoringInv'
<1> SUFFICES ASSUME MonitoringInv, [Next]_vars PROVE MonitoringInv'
  OBVIOUS
<1>1. ASSUME NEW v \in Versions, NEW d \in RiskDecisions, NEW ms \in MetricSets,
             NEW s \in Schedules, BuildPlan(v, d, ms, s)
      PROVE  MonitoringInv'
  BY <1>1, BuildPlan_Inv
<1>2. ASSUME NEW p \in plans, NEW id \in MetricIds, NEW r \in Readings, NEW at \in Times,
             Observe(p, id, r, at)
      PROVE  MonitoringInv'
  BY <1>2, Observe_Inv
<1>3. ASSUME NEW p \in plans, NEW v \in Versions, NEW d \in RiskDecisions, NEW asOf \in Times,
             NEW obs \in SUBSET observations, Assess(p, v, d, obs, asOf)
      PROVE  MonitoringInv'
  BY <1>3, Assess_Inv
<1>4. ASSUME NEW a \in assessments, NEW v \in Versions, NEW d \in RiskDecisions,
             DeriveRevalidation(a, v, d)
      PROVE  MonitoringInv'
  BY <1>4, Derive_Inv
<1>5. CASE UNCHANGED vars
  BY <1>5, SoundKept
  DEF vars, MonitoringInv, PlansHold, ObservationsHold, AssessmentsHold, RevalidationsHold
<1> QED BY <1>1, <1>2, <1>3, <1>4, <1>5 DEF Next

LEMMA MonitoringInvariant == Spec => []MonitoringInv
<1> QED BY Init_Inv, Next_Inv, PTL DEF Spec

--------------------------------------------------------------------------------
\* The statuses that ask for nothing.
Cleared == {"pass", "warning"}

\* A metric is cleared in its status exactly if the one observation named for it
\* clears it.
LEMMA StatusClears ==
  ASSUME MonitoringInv, NEW a \in assessments, NEW m \in a.plan.metrics
  PROVE  /\ a.status[m] \in Cleared \cup {"breach"} \cup IncompleteStatuses
         /\ a.status[m] \in Cleared <=> \E o \in a.selected : Clears(o, m, a)
<1> DEFINE stale == a.plan.schedule.maxStaleness
<1>1. Sound(a)
  BY DEF MonitoringInv, AssessmentsHold
<1>2. a.status[m] = MetricStatus(m, Of(m, a.selected), a.asOf, stale)
  BY <1>1 DEF Sound
<1>3. CASE Of(m, a.selected) = {}
  <2>1. a.status[m] = "missing"
    BY <1>2, <1>3 DEF MetricStatus
  <2>2. ~ \E o \in a.selected : Clears(o, m, a)
    BY <1>3 DEF Clears, Of
  <2> QED BY <2>1, <2>2 DEF Cleared, IncompleteStatuses
<1>4. CASE Of(m, a.selected) # {}
  <2>1. PICK o \in a.selected : o.metric = m.id
    BY <1>4 DEF Of
  <2>2. Of(m, a.selected) = {o}
    BY <1>1, <2>1 DEF Of, Sound
  <2>3. a.status[m] =
          IF a.asOf - o.observedAt > stale THEN "stale"
          ELSE IF o.reading.samples < m.minSamples THEN "insufficient_samples"
          ELSE IF Reached(m, o.reading.value, m.breach) THEN "breach"
          ELSE IF Reached(m, o.reading.value, m.warning) THEN "warning"
          ELSE "pass"
    <3>1. (CHOOSE x \in {o} : TRUE) = o
      OBVIOUS
    <3> QED BY <1>2, <2>2, <3>1 DEF MetricStatus
  <2>4. (\E e \in a.selected : Clears(e, m, a)) <=> Clears(o, m, a)
    BY <2>1, <2>2 DEF Clears, Of
  <2>5. /\ a.asOf \in Int /\ stale \in Nat
        /\ m.warning \in Int /\ m.breach \in Int /\ m.minSamples \in Nat
        /\ \/ m.direction = "above_is_worse" /\ m.warning < m.breach
           \/ m.direction = "below_is_worse" /\ m.breach < m.warning
    BY <1>1, PlanFields DEF Sound, Times, MonitoringInv
  <2>6. /\ o.observedAt \in Int /\ o.reading.value \in Int /\ o.reading.samples \in Nat
        /\ o.plan = a.plan /\ o.observedAt =< a.asOf
    BY <1>1, <2>1, ObservationFields DEF Sound, Bound, MonitoringInv
  <2>7. Clears(o, m, a) <=> /\ ~ (a.asOf - o.observedAt > stale)
                            /\ ~ (o.reading.samples < m.minSamples)
                            /\ ~ Reached(m, o.reading.value, m.breach)
    BY <2>1, <2>5, <2>6 DEF Clears, Reached
  <2> HIDE DEF stale
  <2> QED BY <2>3, <2>4, <2>7 DEF Cleared, IncompleteStatuses
<1> QED BY <1>3, <1>4

\* The state asks for revalidation exactly if some metric is not cleared.
LEMMA NeedsMeans ==
  ASSUME MonitoringInv, NEW a \in assessments
  PROVE  NeedsRevalidation(a) <=> \E m \in a.plan.metrics : a.status[m] \notin Cleared
<1> DEFINE statuses == {a.status[m] : m \in a.plan.metrics}
<1>1. a.state = StateOf(statuses)
  BY DEF MonitoringInv, AssessmentsHold, Sound
<1>2. \A m \in a.plan.metrics : a.status[m] \in Cleared \cup {"breach"} \cup IncompleteStatuses
  BY StatusClears
<1>3. statuses \subseteq Cleared \cup {"breach"} \cup IncompleteStatuses
  BY <1>2
<1>4. (\E m \in a.plan.metrics : a.status[m] \notin Cleared) <=> ~ (statuses \subseteq Cleared)
  OBVIOUS
<1>5. NeedsRevalidation(a) <=> \/ statuses \cap IncompleteStatuses # {}
                              \/ "breach" \in statuses
  <2> HIDE DEF statuses
  <2> QED BY <1>1 DEF NeedsRevalidation, StateOf
<1>6. ~ (statuses \subseteq Cleared) <=> \/ statuses \cap IncompleteStatuses # {}
                                         \/ "breach" \in statuses
  <2> HIDE DEF statuses
  <2> QED BY <1>3 DEF Cleared, IncompleteStatuses
<1> QED BY <1>4, <1>5, <1>6

\* If every metric is cleared the observations named are as many as the metrics.
LEMMA OnePerMetric ==
  ASSUME MonitoringInv, NEW a \in assessments,
         \A m \in a.plan.metrics : \E o \in a.selected : o.metric = m.id
  PROVE  Cardinality(a.plan.metrics) =< Cardinality(a.selected)
<1> DEFINE f == [m \in a.plan.metrics |-> CHOOSE o \in a.selected : o.metric = m.id]
<1>1. Sound(a)
  BY DEF MonitoringInv, AssessmentsHold
<1>2. \A m \in a.plan.metrics : f[m] \in a.selected /\ f[m].metric = m.id
  OBVIOUS
<1>3. \A m, n \in a.plan.metrics : m.id = n.id => m = n
  BY <1>1, PlanFields DEF Sound, MonitoringInv
<1>4. f \in Injection(a.plan.metrics, a.selected)
  BY <1>2, <1>3 DEF Injection, IsInjective
<1>5. IsFiniteSet(a.selected)
  BY <1>1, FS_Subset DEF Sound, MonitoringInv, ObservationsHold
<1> HIDE DEF f
<1> QED BY <1>4, <1>5, FS_Injection

--------------------------------------------------------------------------------
\* An assessment gets by without a revalidation exactly if fresh and sufficient
\* evidence made for its plan clears each metric, three of them under enhanced
\* monitoring (build_monitoring_plan, assess_monitoring).
THEOREM AssessmentsRestOnEvidence == Spec => []ClearedOnEvidence
<1>1. MonitoringInv => ClearedOnEvidence
  <2> SUFFICES ASSUME MonitoringInv, NEW a \in assessments
               PROVE  /\ ~ NeedsRevalidation(a) <=>
                           \A m \in a.plan.metrics : \E o \in a.selected : Clears(o, m, a)
                      /\ ~ NeedsRevalidation(a)
                           /\ "enhanced_monitoring" \in a.plan.risk.requirements
                         => Cardinality(a.selected) >= 3
    BY DEF ClearedOnEvidence
  <2>1. ~ NeedsRevalidation(a) <=>
          \A m \in a.plan.metrics : \E o \in a.selected : Clears(o, m, a)
    BY StatusClears, NeedsMeans
  <2>2. ASSUME ~ NeedsRevalidation(a), "enhanced_monitoring" \in a.plan.risk.requirements
        PROVE  Cardinality(a.selected) >= 3
    <3>1. Cardinality(a.plan.metrics) =< Cardinality(a.selected)
      BY <2>1, <2>2, OnePerMetric DEF Clears
    <3>2. Cardinality(a.plan.metrics) >= 3 /\ IsFiniteSet(a.plan.metrics)
      BY <2>2, MetricSetsAssumption
      DEF MonitoringInv, AssessmentsHold, Sound, PlansHold, MetricsSuffice, WellFormedMetrics
    <3>3. IsFiniteSet(a.selected)
      BY FS_Subset DEF MonitoringInv, ObservationsHold, AssessmentsHold, Sound
    <3>4. Cardinality(a.plan.metrics) \in Nat /\ Cardinality(a.selected) \in Nat
      BY <3>2, <3>3, FS_CardinalityType
    <3> QED BY <3>1, <3>2, <3>4
  <2> QED BY <2>1, <2>2
<1> QED BY <1>1, MonitoringInvariant, PTL

\* Reassessing the same evidence as of a later time finds every metric as it was,
\* or stale (_evaluate_metric).
THEOREM TimeNeverClears == Spec => []AgeingNeverClears
<1>1. MonitoringInv => AgeingNeverClears
  <2> SUFFICES ASSUME MonitoringInv, NEW a \in assessments, NEW b \in assessments,
                      a.plan = b.plan, a.selected = b.selected, a.asOf =< b.asOf
               PROVE  /\ \A m \in a.plan.metrics : b.status[m] \in {a.status[m], "stale"}
                      /\ NeedsRevalidation(a) => NeedsRevalidation(b)
    BY DEF AgeingNeverClears
  <2>1. Sound(a) /\ Sound(b)
    BY DEF MonitoringInv, AssessmentsHold
  <2>2. ASSUME NEW m \in a.plan.metrics PROVE b.status[m] \in {a.status[m], "stale"}
    <3> DEFINE obs == Of(m, a.selected)
               stale == a.plan.schedule.maxStaleness
    <3>1. /\ a.status[m] = MetricStatus(m, obs, a.asOf, stale)
          /\ b.status[m] = MetricStatus(m, obs, b.asOf, stale)
      BY <2>1 DEF Sound
    <3>2. CASE obs = {}
      BY <3>1, <3>2 DEF MetricStatus
    <3>3. CASE obs # {}
      <4> DEFINE o == CHOOSE x \in obs : TRUE
      <4>1. o \in obs
        BY <3>3
      <4>2. o.observedAt \in Int
        BY <2>1, <4>1, ObservationFields DEF Of, Sound, MonitoringInv
      <4>3. a.asOf \in Int /\ b.asOf \in Int /\ stale \in Nat
        BY <2>1, PlanFields DEF Sound, Times, MonitoringInv
      <4>4. a.asOf - o.observedAt > stale => b.asOf - o.observedAt > stale
        BY <4>2, <4>3
      <4> HIDE DEF obs, stale
      <4> QED BY <3>1, <3>3, <4>4 DEF MetricStatus
    <3> QED BY <3>2, <3>3
  <2>3. ASSUME NeedsRevalidation(a) PROVE NeedsRevalidation(b)
    <3>1. PICK m \in a.plan.metrics : a.status[m] \notin Cleared
      BY <2>3, NeedsMeans
    <3>2. b.status[m] \notin Cleared
      BY <2>2, <3>1 DEF Cleared
    <3> QED BY <3>1, <3>2, NeedsMeans
  <2> QED BY <2>2, <2>3
<1> QED BY <1>1, MonitoringInvariant, PTL

\* Observations that arrive behind the ones a metric was judged on, in whatever
\* number, leave an assessment as it is (assess_monitoring).
THEOREM LateObservationsAreIdle == Spec => []LateObservationsChangeNothing
<1>1. MonitoringInv => LateObservationsChangeNothing
  <2> SUFFICES ASSUME MonitoringInv, NEW a \in assessments, NEW m \in a.plan.metrics,
                      NEW late \in SUBSET observations,
                      \A o \in late : \E s \in a.selected : /\ s.metric = o.metric
                                                           /\ o.observedAt < s.observedAt
               PROVE  MetricStatus(m, Latest(m, a.selected \cup late), a.asOf,
                                   a.plan.schedule.maxStaleness)
                        = a.status[m]
    <3> DEFINE lateOf(a) ==
                 {o \in observations : /\ Bound(o, a.plan)
                                      /\ \E s \in a.selected : /\ s.metric = o.metric
                                                               /\ o.observedAt < s.observedAt}
    <3>1. \A a \in assessments :
            /\ lateOf(a) \in SUBSET observations
            /\ \A o \in lateOf(a) : \E s \in a.selected : /\ s.metric = o.metric
                                                           /\ o.observedAt < s.observedAt
      OBVIOUS
    <3> QED BY <3>1 DEF LateObservationsChangeNothing
  <2>1. Sound(a)
    BY DEF MonitoringInv, AssessmentsHold
  <2>2. \A o \in a.selected \cup late : o.observedAt \in Int
    BY <2>1, ObservationFields DEF Sound, MonitoringInv
  <2>3. Latest(m, a.selected \cup late) \subseteq Of(m, a.selected)
    BY <2>2 DEF Latest, Of
  <2>4. Of(m, a.selected) \subseteq Latest(m, a.selected \cup late)
    <3> SUFFICES ASSUME NEW s \in a.selected, s.metric = m.id,
                        NEW e \in a.selected \cup late, e.metric = m.id
                 PROVE  e.observedAt =< s.observedAt
      BY DEF Of, Latest
    <3>1. CASE e \in a.selected
      BY <2>1, <2>2, <3>1 DEF Sound
    <3>2. CASE e \in late
      BY <2>1, <2>2, <3>2 DEF Sound
    <3> QED BY <3>1, <3>2
  <2>5. Latest(m, a.selected \cup late) = Of(m, a.selected)
    BY <2>3, <2>4
  <2>6. a.status[m] = MetricStatus(m, Of(m, a.selected), a.asOf, a.plan.schedule.maxStaleness)
    BY <2>1 DEF Sound
  <2> QED BY <2>5, <2>6
<1> QED BY <1>1, MonitoringInvariant, PTL

\* A revalidation names every metric its assessment did not clear, and there is one
\* (derive_monitoring_revalidation).
THEOREM EveryReasonIsNamed == Spec => []RevalidationNamesEveryReason
<1>1. MonitoringInv => RevalidationNamesEveryReason
  <2> SUFFICES ASSUME MonitoringInv, NEW r \in revalidations
               PROVE  /\ r.reasons # {}
                      /\ \A o \in r.assessment.selected :
                           \A m \in r.assessment.plan.metrics \ r.reasons :
                             o.metric = m.id => Clears(o, m, r.assessment)
    BY DEF RevalidationNamesEveryReason
  <2> DEFINE a == r.assessment
  <2>1. a \in assessments /\ NeedsRevalidation(a) /\ r.reasons = Actionable(a)
    BY DEF MonitoringInv, RevalidationsHold
  <2>2. \A m \in a.plan.metrics : m \in r.reasons <=> a.status[m] \notin Cleared
    <3>1. \A m \in a.plan.metrics :
            a.status[m] \in Cleared \cup {"breach"} \cup IncompleteStatuses
      BY <2>1, StatusClears
    <3> HIDE DEF a
    <3> QED BY <2>1, <3>1 DEF Actionable, Cleared, IncompleteStatuses
  <2>3. r.reasons # {}
    BY <2>1, <2>2, NeedsMeans
  <2>4. ASSUME NEW o \in a.selected, NEW m \in a.plan.metrics \ r.reasons, o.metric = m.id
        PROVE  Clears(o, m, a)
    <3>1. PICK e \in a.selected : Clears(e, m, a)
      BY <2>1, <2>2, StatusClears
    <3>2. e.metric = o.metric
      BY <2>4, <3>1 DEF Clears
    <3>3. e = o
      BY <2>1, <3>2 DEF MonitoringInv, AssessmentsHold, Sound
    <3> QED BY <3>1, <3>3
  <2> QED BY <2>3, <2>4
<1> QED BY <1>1, MonitoringInvariant, PTL
================================================================================
