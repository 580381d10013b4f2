---------------------------- MODULE GenAIEvaluation ----------------------------
(***************************************************************************)
(* The evaluation of a generative-AI model (genai.py, genai_runtime.py):   *)
(* an overlay snapshot of the artefacts a model version runs with, plans   *)
(* bound to it, observations, and assessments of those a caller presents   *)
(* at a represented time.  Unlike monitoring, contradictory observations   *)
(* are not refused: they leave the metric incomplete.                      *)
(***************************************************************************)
EXTENDS Integers, FiniteSets

CONSTANTS
  ModelVersions,    \* contents of model versions: [id, ...]
  Foundations,      \* FoundationModelDependency: [version, ...], version an id
  Prompts,          \* PromptPolicyArtifact, likewise
  Rags,             \* RAGConfiguration, likewise
  UseCases,         \* GenAIUseCaseProfile: [version, humanReview, highImpact, ...]
  GenAIMetricSets,  \* the metric definitions a plan may hold
  Readings,         \* what may be observed: [value, samples]
  None,             \* a RAG configuration or warning threshold that is not there
  MaxTime,          \* the bound on every timestamp
  MaxPlans, MaxObservations, MaxAssessments  \* bounds on the pools

Times == 0 .. MaxTime

\* GenAIMetricDefinition.__post_init__, and the unique ids and kinds of a plan.
WellFormedMetrics(ms) ==
  /\ ms # {} /\ IsFiniteSet(ms)
  /\ \A m, n \in ms : m.id = n.id \/ m.kind = n.kind => m = n
  /\ \A m \in ms :
       /\ m.pass \in Int /\ m.minSamples \in Nat \ {0} /\ m.maxAge \in Nat \ {0}
       /\ m.direction \in {"higher_is_better", "lower_is_better"}
       /\ m.warning # None =>
            /\ m.warning \in Int
            /\ IF m.direction = "higher_is_better" THEN m.warning =< m.pass
                                                   ELSE m.warning >= m.pass

ASSUME MetricSetsAssumption == \A ms \in GenAIMetricSets : WellFormedMetrics(ms)
ASSUME NoneAssumption == None \notin Int
ASSUME ReadingsAssumption == \A r \in Readings : r.value \in Int /\ r.samples \in Nat \ {0}

\* build_genai_overlay_snapshot: the snapshots of artefacts of one version.
Overlays ==
  {o \in [foundation : Foundations, prompt : Prompts, useCase : UseCases,
          rag : Rags \cup {None}] :
     /\ o.foundation.version = o.useCase.version
     /\ o.prompt.version = o.useCase.version
     /\ o.rag # None => o.rag.version = o.useCase.version}

\* version_id of a snapshot.
ScopeOf(o) == o.useCase.version

VARIABLES
  plans,         \* GenAIEvaluationPlan
  observations,  \* GenAIEvaluationObservation
  assessments    \* GenAIEvaluationAssessment

evaluationVars == <<plans, observations, assessments>>

EvaluationInit == plans = {} /\ observations = {} /\ assessments = {}

\* build_genai_evaluation_plan.
BuildPlan(v, o, ms, at) ==
  /\ ScopeOf(o) = v.id
  /\ Cardinality(plans) < MaxPlans
  /\ plans' = plans \cup {[version |-> v, overlay |-> o, metrics |-> ms, plannedAt |-> at]}
  /\ UNCHANGED <<observations, assessments>>

MetricIds == {m.id : m \in UNION GenAIMetricSets}

\* A GenAIEvaluationObservation, of any metric and at any time.
Observe(p, id, reading, at) ==
  /\ Cardinality(observations) < MaxObservations
  /\ observations' = observations \cup
       {[plan |-> p, metric |-> id, reading |-> reading, observedAt |-> at]}
  /\ UNCHANGED <<plans, assessments>>

--------------------------------------------------------------------------------
Of(m, obs) == {o \in obs : o.metric = m.id}
Latest(m, obs) == {o \in Of(m, obs) : \A e \in Of(m, obs) : e.observedAt =< o.observedAt}

\* A mutant of _metric_status: without a warning threshold the margin is ignored.
LenientGrade(m, value) ==
  LET asGood(limit) == IF m.direction = "higher_is_better" THEN value >= limit ELSE value =< limit
  IN  IF asGood(m.pass) THEN "pass"
      ELSE IF m.warning = None \/ asGood(m.warning) THEN "warning"
      ELSE "breach"

\* _metric_status.
Grade(m, value) ==
  LET asGood(limit) == IF m.direction = "higher_is_better" THEN value >= limit ELSE value =< limit
  IN  IF asGood(m.pass) THEN "pass"
      ELSE IF m.warning # None /\ asGood(m.warning) THEN "warning"
      ELSE "breach"

\* A mutant of the gaps: the first of several latest observations is taken.
FirstOfLatest(m, obs, at) ==
  LET latest == Latest(m, obs)
      o == CHOOSE x \in latest : TRUE
  IN  {g \in {"missing_observation", "stale_observation", "insufficient_sample"} :
        CASE g = "missing_observation" -> latest = {}
          [] g = "stale_observation"   -> latest # {} /\ at - o.observedAt > m.maxAge
          [] OTHER -> latest # {} /\ at - o.observedAt =< m.maxAge
                        /\ o.reading.samples < m.minSamples}

\* The gap that keeps a metric from being graded, if there is one; only one is
\* reported, the first that applies.
GapsOf(m, obs, at) ==
  LET latest == Latest(m, obs)
      o == CHOOSE x \in latest : TRUE
  IN  IF latest = {} THEN {"missing_observation"}
      ELSE IF Cardinality(latest) > 1 THEN {"conflicting_latest"}
      ELSE IF at - o.observedAt > m.maxAge THEN {"stale_observation"}
      ELSE IF o.reading.samples < m.minSamples THEN {"insufficient_sample"}
      ELSE {}

StatusOf(m, obs, at) ==
  IF GapsOf(m, obs, at) # {}
    THEN "incomplete"
    ELSE Grade(m, (CHOOSE x \in Latest(m, obs) : TRUE).reading.value)

EvaluationState(statuses) ==
  IF "incomplete" \in statuses THEN "incomplete"
  ELSE IF "breach" \in statuses THEN "breached"
  ELSE IF "warning" \in statuses THEN "degraded"
  ELSE "healthy"

\* A mutant of the wrapper: observations may predate the plan.
OnlyEvaluatedAfterPlan(p, obs, at) == p.plannedAt =< at

\* What genai_runtime adds: nothing of the evaluation predates its plan.
AfterPlan(p, obs, at) ==
  p.plannedAt =< at /\ \A o \in obs : p.plannedAt =< o.observedAt

\* assess_genai_evaluation, through the wrapper that the package exports.
Assess(p, overlay, obs, at) ==
  /\ AfterPlan(p, obs, at)
  /\ p.overlay = overlay
  /\ \A o \in obs : /\ o.plan = p
                    /\ \E m \in p.metrics : m.id = o.metric
                    /\ o.observedAt =< at
  /\ Cardinality(assessments) < MaxAssessments
  /\ assessments' = assessments \cup
       {[plan |-> p, evaluatedAt |-> at,
         named |-> UNION {x \in {Latest(m, obs) : m \in p.metrics} : Cardinality(x) = 1},
         gaps |-> UNION {{m.id} \X GapsOf(m, obs, at) : m \in p.metrics},
         state |-> EvaluationState({StatusOf(m, obs, at) : m \in p.metrics})]}
  /\ UNCHANGED <<plans, observations>>

EvaluationNext ==
  \/ \E v \in ModelVersions, o \in Overlays, ms \in GenAIMetricSets, at \in Times :
        BuildPlan(v, o, ms, at)
  \/ \E p \in plans, id \in MetricIds, r \in Readings, at \in Times : Observe(p, id, r, at)
  \/ \E p \in plans, overlay \in Overlays, at \in Times :
        \E obs \in SUBSET observations : Assess(p, overlay, obs, at)

--------------------------------------------------------------------------------
\* An observation that lets a metric pass or pass with a warning.
Acceptable(o, m, a) ==
  /\ o.plan = a.plan /\ o.metric = m.id
  /\ a.plan.plannedAt =< o.observedAt /\ o.observedAt =< a.evaluatedAt
  /\ a.evaluatedAt =< o.observedAt + m.maxAge
  /\ o.reading.samples >= m.minSamples
  /\ \E limit \in {m.pass, m.warning} \ {None} :
        IF m.direction = "higher_is_better" THEN o.reading.value >= limit
                                            ELSE o.reading.value =< limit

Acceptably(a) == a.state \in {"healthy", "degraded"}

\* An evaluation is healthy or degraded exactly if every metric rests on a single
\* undisputed observation that is acceptable, of this plan and made after it; and
\* it reports a gap exactly if it is incomplete, whatever was presented with it
\* (assess_genai_evaluation).
EvaluationFailsClosed ==
  \A a \in assessments :
    /\ Acceptably(a) <=> \A m \in a.plan.metrics :
         /\ \E o \in a.named : Acceptable(o, m, a)
         /\ ~ \E g \in a.gaps : g[1] = m.id
    /\ a.state = "incomplete" <=> a.gaps # {}
================================================================================
