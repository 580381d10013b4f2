------------------------------ MODULE GenAIProofs ------------------------------
(***************************************************************************)
(* Proofs about GenAIEvaluation and GenAIDossier, for every metric,        *)
(* reading, overlay, base dossier and bound.  Artefacts are immutable and  *)
(* are never removed: the inductive invariant says of each kind of         *)
(* artefact what its step made sure of, and what it is used for rests on   *)
(* what the artefacts it holds made sure of.                               *)
(***************************************************************************)
EXTENDS GenAIDossier, FiniteSetTheorems, TLAPS

ObservationsHold ==
  /\ IsFiniteSet(observations)
  /\ \A o \in observations : o.reading \in Readings /\ o.observedAt \in Times

PlansHold == \A p \in plans : p.metrics \in GenAIMetricSets

EvaluationStates == {"incomplete", "breached", "degraded", "healthy"}
AssessmentsHold ==
  /\ \A a \in assessments : a.state \in EvaluationStates
  /\ EvaluationFailsClosed

OversightHolds ==
  /\ \A q \in oversights : NotWeakened(q.useCase, q.required)
  /\ \A w \in decisions : /\ ReviewerQualifies(w.requirement, w.role)
                          /\ w.decision \in {"accept", "escalate", "reject"}

DossiersHold == StateAgreesWithPath /\ GenAIEvidenceNeverRepairs /\ ReviewedWhereDemanded

GenAIInv ==
  ObservationsHold /\ PlansHold /\ AssessmentsHold /\ OversightHolds /\ DossiersHold

--------------------------------------------------------------------------------
\* A metric has no gap exactly if one observation is its latest, and that one is
\* fresh and large enough.
LEMMA NoGap ==
  ASSUME NEW m, m.maxAge \in Int, m.minSamples \in Int,
         NEW obs, IsFiniteSet(obs), NEW at \in Times,
         \A o \in obs : o.reading \in Readings /\ o.observedAt \in Times
  PROVE  GapsOf(m, obs, at) = {} <=>
           \E o \in obs : /\ Latest(m, obs) = {o}
                          /\ at =< o.observedAt + m.maxAge
                          /\ o.reading.samples >= m.minSamples
<1> DEFINE L == Latest(m, obs)
           o == CHOOSE x \in L : TRUE
<1>1. L \subseteq obs /\ IsFiniteSet(L)
  BY FS_Subset DEF Latest, Of
<1>2. Cardinality(L) \in Nat
  BY <1>1, FS_CardinalityType
<1>3. CASE L = {}
  BY <1>3 DEF GapsOf
<1>4. CASE Cardinality(L) > 1
  <2>1. ASSUME NEW x, L = {x} PROVE FALSE
    <3>1. Cardinality({x}) = 1
      BY FS_Singleton
    <3> QED BY <1>4, <2>1, <3>1
  <2>2. GapsOf(m, obs, at) # {}
    BY <1>4 DEF GapsOf
  <2> QED BY <2>1, <2>2
<1>5. CASE L # {} /\ ~ (Cardinality(L) > 1)
  <2>1. Cardinality(L) = 1
    BY <1>1, <1>2, <1>5, FS_EmptySet
  <2>2. PICK x : L = {x}
    BY <1>1, <2>1, FS_Singleton
  <2>3. o = x /\ x \in obs
    BY <1>1, <2>2
  <2>4. x.observedAt \in Int /\ x.reading.samples \in Int /\ at \in Int
    BY <2>3, ReadingsAssumption DEF Times
  <2>5. GapsOf(m, obs, at) = {} <=>
          ~ (at - x.observedAt > m.maxAge) /\ ~ (x.reading.samples < m.minSamples)
    BY <1>5, <2>3 DEF GapsOf
  <2>6. GapsOf(m, obs, at) = {} <=>
          at =< x.observedAt + m.maxAge /\ x.reading.samples >= m.minSamples
    BY <2>4, <2>5
  <2> QED BY <2>2, <2>3, <2>6
<1> QED BY <1>3, <1>4, <1>5

\* A value is graded "pass" or "warning" exactly if it is good for one of the limits
\* that there are.
LEMMA GradedWell ==
  ASSUME NEW ms \in GenAIMetricSets, NEW m \in ms, NEW value \in Int
  PROVE  /\ Grade(m, value) \in {"pass", "warning", "breach"}
         /\ Grade(m, value) \in {"pass", "warning"} <=>
              \E limit \in {m.pass, m.warning} \ {None} :
                 IF m.direction = "higher_is_better" THEN value >= limit ELSE value =< limit
<1>1. /\ m.pass \in Int /\ m.pass # None
      /\ m.warning # None => m.warning \in Int
  BY MetricSetsAssumption, NoneAssumption DEF WellFormedMetrics
<1>2. CASE m.direction = "higher_is_better"
  BY <1>1, <1>2 DEF Grade
<1>3. CASE m.direction # "higher_is_better"
  BY <1>1, <1>3 DEF Grade
<1> QED BY <1>2, <1>3

--------------------------------------------------------------------------------
\* What an assessment says is exactly what its metrics and the observations support.
LEMMA AssessFailsClosed ==
  ASSUME GenAIInv, NEW p \in plans, NEW overlay, NEW at \in Times,
         NEW obs \in SUBSET observations, Assess(p, overlay, obs, at)
  PROVE  AssessmentsHold'
<1> DEFINE a == [plan |-> p, evaluatedAt |-> at,
                 named |-> UNION {x \in {Latest(m, obs) : m \in p.metrics} :
                                    Cardinality(x) = 1},
                 gaps |-> UNION {{m.id} \X GapsOf(m, obs, at) : m \in p.metrics},
                 state |-> EvaluationState({StatusOf(m, obs, at) : m \in p.metrics})]
           statuses == {StatusOf(m, obs, at) : m \in p.metrics}
<1>1. assessments' = assessments \cup {a}
  BY DEF Assess
<1>2. /\ p.plannedAt =< at
      /\ \A o \in obs : /\ o.plan = p /\ p.plannedAt =< o.observedAt /\ o.observedAt =< at
  BY DEF Assess, AfterPlan
<1>3. /\ p.metrics \in GenAIMetricSets
      /\ \A m, n \in p.metrics : m.id = n.id => m = n
      /\ \A m \in p.metrics : m.maxAge \in Int /\ m.minSamples \in Int
  BY MetricSetsAssumption DEF GenAIInv, PlansHold, WellFormedMetrics
<1>4. /\ IsFiniteSet(obs)
      /\ \A o \in obs : o.reading \in Readings /\ o.observedAt \in Times
  BY FS_Subset DEF GenAIInv, ObservationsHold
<1>5. ASSUME NEW m \in p.metrics
      PROVE  (\E g \in a.gaps : g[1] = m.id) <=> GapsOf(m, obs, at) # {}
  <2>1. ASSUME NEW g \in a.gaps, g[1] = m.id PROVE GapsOf(m, obs, at) # {}
    <3>1. PICK n \in p.metrics : g \in {n.id} \X GapsOf(n, obs, at)
      BY <2>1
    <3>2. n = m
      BY <1>3, <2>1, <3>1
    <3> QED BY <3>1, <3>2
  <2>2. ASSUME NEW gap \in GapsOf(m, obs, at) PROVE \E g \in a.gaps : g[1] = m.id
    <3>1. <<m.id, gap>> \in {m.id} \X GapsOf(m, obs, at)
      OBVIOUS
    <3>2. <<m.id, gap>> \in a.gaps
      BY <3>1
    <3> QED BY <3>2
  <2> QED BY <2>1, <2>2
<1>6. ASSUME NEW m \in p.metrics
      PROVE  /\ StatusOf(m, obs, at) \in {"pass", "warning", "breach", "incomplete"}
             /\ StatusOf(m, obs, at) = "incomplete" <=> GapsOf(m, obs, at) # {}
             /\ StatusOf(m, obs, at) \in {"pass", "warning"} <=>
                  /\ \E o \in a.named : Acceptable(o, m, a)
                  /\ ~ \E g \in a.gaps : g[1] = m.id
  <2> DEFINE o == CHOOSE x \in Latest(m, obs) : TRUE
  <2>1. CASE GapsOf(m, obs, at) # {}
    BY <1>5, <2>1 DEF StatusOf
  <2>2. CASE GapsOf(m, obs, at) = {}
    <3>1. PICK x \in obs : /\ Latest(m, obs) = {x}
                           /\ at =< x.observedAt + m.maxAge
                           /\ x.reading.samples >= m.minSamples
      BY <1>3, <1>4, <2>2, NoGap
    <3>2. x.metric = m.id
      BY <3>1 DEF Latest, Of
    <3>3. StatusOf(m, obs, at) = Grade(m, x.reading.value) /\ x.reading.value \in Int
      BY <1>4, <2>2, <3>1, ReadingsAssumption DEF StatusOf
    <3>4. Acceptable(x, m, a) <=> Grade(m, x.reading.value) \in {"pass", "warning"}
      BY <1>2, <1>3, <3>1, <3>2, <3>3, GradedWell DEF Acceptable
    <3>5. x \in a.named
      <4>1. Cardinality(Latest(m, obs)) = 1
        BY <3>1, FS_Singleton
      <4> QED BY <3>1, <4>1
    <3>6. ASSUME NEW y \in a.named, Acceptable(y, m, a) PROVE y = x
      <4>1. PICK n \in p.metrics : y \in Latest(n, obs)
        BY <3>6
      <4>2. y.metric = n.id /\ y.metric = m.id
        BY <3>6, <4>1 DEF Latest, Of, Acceptable
      <4>3. n = m
        BY <1>3, <4>2
      <4> QED BY <3>1, <4>1, <4>3
    <3>7. (\E y \in a.named : Acceptable(y, m, a)) <=> Acceptable(x, m, a)
      BY <3>5, <3>6
    <3>8. Grade(m, x.reading.value) \in {"pass", "warning", "breach"}
      BY <1>3, <3>3, GradedWell
    <3>9. ~ \E g \in a.gaps : g[1] = m.id
      BY <1>5, <2>2
    <3> HIDE DEF a
    <3> QED BY <2>2, <3>3, <3>4, <3>7, <3>8, <3>9
  <2> QED BY <2>1, <2>2
<1>7. a.gaps # {} <=> \E m \in p.metrics : GapsOf(m, obs, at) # {}
  <2>1. ASSUME NEW g \in a.gaps PROVE \E m \in p.metrics : GapsOf(m, obs, at) # {}
    <3>1. PICK n \in p.metrics : g \in {n.id} \X GapsOf(n, obs, at)
      BY <2>1
    <3> QED BY <3>1
  <2>2. ASSUME NEW m \in p.metrics, GapsOf(m, obs, at) # {} PROVE a.gaps # {}
    BY <1>5, <2>2
  <2> QED BY <2>1, <2>2
<1>8. a.state = EvaluationState(statuses) /\ a.plan = p
  OBVIOUS
<1>9. /\ a.state \in EvaluationStates
      /\ a.state = "incomplete" <=> "incomplete" \in statuses
      /\ Acceptably(a) <=> "incomplete" \notin statuses /\ "breach" \notin statuses
  <2> HIDE DEF a, statuses
  <2> QED BY <1>8 DEF EvaluationState, EvaluationStates, Acceptably
<1>10. /\ "incomplete" \in statuses <=>
            \E m \in p.metrics : StatusOf(m, obs, at) = "incomplete"
       /\ "breach" \in statuses <=> \E m \in p.metrics : StatusOf(m, obs, at) = "breach"
  OBVIOUS
<1> HIDE DEF a, statuses
<1>11. Acceptably(a) <=> \A m \in a.plan.metrics : /\ \E o \in a.named : Acceptable(o, m, a)
                                                  /\ ~ \E g \in a.gaps : g[1] = m.id
  <2>1. Acceptably(a) <=> \A m \in p.metrics : StatusOf(m, obs, at) \in {"pass", "warning"}
    BY <1>6, <1>9, <1>10
  <2> QED BY <1>6, <1>8, <2>1
<1>12. a.state = "incomplete" <=> a.gaps # {}
  BY <1>6, <1>7, <1>9, <1>10
<1> QED BY <1>1, <1>9, <1>11, <1>12 DEF GenAIInv, AssessmentsHold, EvaluationFailsClosed

--------------------------------------------------------------------------------
LEMMA Init_Inv == Init => GenAIInv
  BY FS_EmptySet
     DEF Init, EvaluationInit, GenAIInv, ObservationsHold, PlansHold, AssessmentsHold,
         OversightHolds, DossiersHold, EvaluationFailsClosed, StateAgreesWithPath,
         GenAIEvidenceNeverRepairs, ReviewedWhereDemanded

LEMMA Evaluation_Inv ==
  ASSUME GenAIInv, EvaluationNext, UNCHANGED dossierVars
  PROVE  GenAIInv'
<1> USE DEF GenAIInv
<1>1. OversightHolds' /\ DossiersHold'
  BY DEF dossierVars, OversightHolds, DossiersHold, StateAgreesWithPath,
         GenAIEvidenceNeverRepairs, ReviewedWhereDemanded
<1>2. ASSUME NEW v, NEW o, NEW ms \in GenAIMetricSets, NEW at, BuildPlan(v, o, ms, at)
      PROVE  ObservationsHold' /\ PlansHold' /\ AssessmentsHold'
  <2>1. PlansHold'
    BY <1>2 DEF BuildPlan, PlansHold
  <2> QED BY <1>2, <2>1 DEF BuildPlan, ObservationsHold, AssessmentsHold,
                           EvaluationFailsClosed
<1>3. ASSUME NEW p, NEW id, NEW r \in Readings, NEW at \in Times, Observe(p, id, r, at)
      PROVE  ObservationsHold' /\ PlansHold' /\ AssessmentsHold'
  <2> DEFINE new == [plan |-> p, metric |-> id, reading |-> r, observedAt |-> at]
  <2>1. ObservationsHold'
    <3>1. observations' = observations \cup {new}
      BY <1>3 DEF Observe
    <3>2. IsFiniteSet(observations \cup {new})
      BY FS_AddElement DEF ObservationsHold
    <3> QED BY <3>1, <3>2 DEF ObservationsHold
  <2> QED BY <1>3, <2>1 DEF Observe, PlansHold, AssessmentsHold, EvaluationFailsClosed
<1>4. ASSUME NEW p \in plans, NEW overlay, NEW at \in Times, NEW obs \in SUBSET observations,
             Assess(p, overlay, obs, at)
      PROVE  ObservationsHold' /\ PlansHold' /\ AssessmentsHold'
  <2>1. AssessmentsHold'
    BY <1>4, AssessFailsClosed
  <2> QED BY <1>4, <2>1 DEF Assess, ObservationsHold, PlansHold
<1> QED BY <1>1, <1>2, <1>3, <1>4 DEF EvaluationNext

LEMMA Oversight_Inv ==
  ASSUME GenAIInv, NEW u, NEW p, NEW required, NEW roles, RequireOversight(u, p, required, roles)
  PROVE  GenAIInv'
<1>1. OversightHolds'
  BY DEF RequireOversight, GenAIInv, OversightHolds
<1> QED BY <1>1
        DEF RequireOversight, evaluationVars, GenAIInv, ObservationsHold, PlansHold,
            AssessmentsHold, EvaluationFailsClosed, DossiersHold, StateAgreesWithPath,
            GenAIEvidenceNeverRepairs, ReviewedWhereDemanded

LEMMA Decide_Inv ==
  ASSUME GenAIInv, NEW q, NEW who, NEW role, NEW decision \in {"accept", "escalate", "reject"},
         Decide(q, who, role, decision)
  PROVE  GenAIInv'
<1>1. OversightHolds'
  BY DEF Decide, GenAIInv, OversightHolds
<1> QED BY <1>1
        DEF Decide, evaluationVars, GenAIInv, ObservationsHold, PlansHold,
            AssessmentsHold, EvaluationFailsClosed, DossiersHold, StateAgreesWithPath,
            GenAIEvidenceNeverRepairs, ReviewedWhereDemanded

\* State, completeness and gaps are set along different branches and still agree.
LEMMA BranchesAgree ==
  ASSUME NEW b \in BaseDossiers, NEW a, a.state \in EvaluationStates, NEW w
  PROVE  /\ PathComplete(b, a, w) <=> CombinedState(b, a, w) \in ApprovedStates
         /\ PathComplete(b, a, w) <=> b.gaps \cup EvaluationGaps(a) \cup OversightGaps(w) = {}
         /\ a.state = "degraded" \/ b.conditions # {} =>
              (PathComplete(b, a, w) => CombinedState(b, a, w) = "approved_with_conditions")
         /\ PathComplete(b, a, w) => b.complete /\ Acceptably(a)
         /\ PathComplete(b, a, w) => ~ Says(w, "reject") /\ ~ Says(w, "escalate")
<1>1. /\ b.complete <=> b.state \in ApprovedStates
      /\ b.complete <=> b.gaps = {}
      /\ b.state = "approved" => b.conditions = {}
  BY BaseDossiersAssumption DEF WellFormedBase
<1>2. CASE Says(w, "reject") \/ Says(w, "escalate")
  BY <1>2 DEF PathComplete, CombinedState, OversightGaps, ApprovedStates
<1>3. CASE ~ Says(w, "reject") /\ ~ Says(w, "escalate")
  <2>1. /\ PathComplete(b, a, w) <=> b.complete /\ EvaluationGaps(a) = {}
        /\ CombinedState(b, a, w) = AfterEvaluation(b, a)
        /\ OversightGaps(w) = {}
    BY <1>3 DEF PathComplete, CombinedState, OversightGaps
  <2>2. CASE a.state = "incomplete"
    BY <1>3, <2>1, <2>2 DEF AfterEvaluation, EvaluationGaps, ApprovedStates
  <2>3. CASE a.state = "breached"
    BY <1>3, <2>1, <2>3 DEF AfterEvaluation, EvaluationGaps, ApprovedStates
  <2>4. CASE a.state \in {"degraded", "healthy"}
    <3>1. EvaluationGaps(a) = {} /\ Acceptably(a)
      BY <2>4 DEF EvaluationGaps, Acceptably
    <3>2. CASE a.state = "degraded" /\ b.state = "approved"
      <4>1. AfterEvaluation(b, a) = "approved_with_conditions"
        BY <3>2 DEF AfterEvaluation
      <4> QED BY <1>1, <1>3, <2>1, <3>1, <3>2, <4>1 DEF ApprovedStates
    <3>3. CASE ~ (a.state = "degraded" /\ b.state = "approved")
      <4>1. AfterEvaluation(b, a) = b.state
        BY <2>4, <3>3 DEF AfterEvaluation
      <4> QED BY <1>1, <1>3, <2>1, <2>4, <3>1, <3>3, <4>1 DEF ApprovedStates
    <3> QED BY <3>2, <3>3
  <2> QED BY <2>2, <2>3, <2>4 DEF EvaluationStates
<1> QED BY <1>2, <1>3

LEMMA Dossier_Inv ==
  ASSUME GenAIInv, NEW b \in BaseDossiers, NEW overlay, NEW p, NEW a \in assessments,
         NEW q \in oversights \cup {None}, NEW w \in decisions \cup {None}, NEW r,
         BuildDossier(b, overlay, p, a, q, w, r)
  PROVE  GenAIInv'
<1> DEFINE d == [base |-> b, overlay |-> overlay, assessment |-> a, oversight |-> q,
                 decision |-> w, revalidation |-> r,
                 state |-> CombinedState(b, a, w),
                 complete |-> PathComplete(b, a, w),
                 conditions |-> b.conditions \cup
                   (IF a.state = "degraded" THEN {"genai_evaluation_degraded"} ELSE {}),
                 gaps |-> b.gaps \cup EvaluationGaps(a) \cup OversightGaps(w)]
<1>1. /\ dossiers' = dossiers \cup {d}
      /\ UNCHANGED <<plans, observations, assessments, oversights, decisions>>
  BY DEF BuildDossier, evaluationVars
<1>2. /\ b.version = p.version /\ p.overlay = overlay /\ a.plan = p
      /\ OversightBound(overlay, p, q, w)
  BY DEF BuildDossier
<1>3. a.state \in EvaluationStates
  BY DEF GenAIInv, AssessmentsHold
<1>4. w # None => w.decision \in {"accept", "escalate", "reject"}
  BY DEF GenAIInv, OversightHolds
<1>5. d.complete /\ w # None => w.decision = "accept"
  BY <1>3, <1>4, BranchesAgree DEF Says
<1>6. /\ d.complete <=> d.state \in ApprovedStates
      /\ d.complete <=> d.gaps = {}
      /\ d.conditions # {} /\ d.complete => d.state = "approved_with_conditions"
  BY <1>3, BranchesAgree
<1>7. /\ d.complete => /\ d.base.complete /\ Acceptably(d.assessment)
                       /\ d.base.version = d.assessment.plan.version
                       /\ d.overlay = d.assessment.plan.overlay
                       /\ d.decision # None => d.decision.decision = "accept"
      /\ d.base.gaps \subseteq d.gaps /\ d.base.conditions \subseteq d.conditions
  BY <1>2, <1>3, <1>5, BranchesAgree
<1>8. d.complete /\ d.oversight # None
        /\ (d.overlay.useCase.humanReview \/ d.overlay.useCase.highImpact) =>
        /\ d.decision # None /\ d.decision.decision = "accept"
        /\ d.decision.role \in d.oversight.roles
        /\ d.oversight.useCase = d.overlay.useCase
        /\ d.oversight.plan = d.assessment.plan
  <2> SUFFICES ASSUME d.complete, q # None,
                      overlay.useCase.humanReview \/ overlay.useCase.highImpact
               PROVE  /\ w # None /\ w.decision = "accept" /\ w.role \in q.roles
                      /\ q.useCase = overlay.useCase /\ q.plan = a.plan
    OBVIOUS
  <2>1. q \in oversights /\ q.useCase = overlay.useCase /\ q.plan = p
    BY <1>2 DEF OversightBound
  <2>2. q.required
    BY <2>1 DEF GenAIInv, OversightHolds, NotWeakened
  <2>3. w # None /\ w.requirement = q
    BY <1>2, <2>2 DEF OversightBound
  <2>4. w.role \in q.roles
    BY <2>2, <2>3 DEF GenAIInv, OversightHolds, ReviewerQualifies
  <2> QED BY <1>2, <1>5, <2>1, <2>3, <2>4
<1> HIDE DEF d
<1>9. DossiersHold'
  <2>1. StateAgreesWithPath'
    BY <1>1, <1>6 DEF GenAIInv, DossiersHold, StateAgreesWithPath
  <2>2. GenAIEvidenceNeverRepairs'
    BY <1>1, <1>7 DEF GenAIInv, DossiersHold, GenAIEvidenceNeverRepairs
  <2>3. ReviewedWhereDemanded'
    BY <1>1, <1>8 DEF GenAIInv, DossiersHold, ReviewedWhereDemanded
  <2> QED BY <2>1, <2>2, <2>3 DEF DossiersHold
<1> QED BY <1>1, <1>9 DEF GenAIInv, ObservationsHold, PlansHold, AssessmentsHold,
                         EvaluationFailsClosed, OversightHolds

LEMMA Next_Inv == GenAIInv /\ [Next]_vars => GenAIInv'
<1> SUFFICES ASSUME GenAIInv, [Next]_vars PROVE GenAIInv'
  OBVIOUS
<1>1. CASE EvaluationNext /\ UNCHANGED dossierVars
  BY <1>1, Evaluation_Inv
<1>2. ASSUME NEW u, NEW p, NEW required, NEW roles, RequireOversight(u, p, required, roles)
      PROVE  GenAIInv'
  BY <1>2, Oversight_Inv
<1>3. ASSUME NEW q, NEW who, NEW role, NEW decision \in {"accept", "escalate", "reject"},
             Decide(q, who, role, decision)
      PROVE  GenAIInv'
  BY <1>3, Decide_Inv
<1>4. ASSUME NEW b \in BaseDossiers, NEW overlay, NEW p, NEW a \in assessments,
             NEW q \in oversights \cup {None}, NEW w \in decisions \cup {None}, NEW r,
             BuildDossier(b, overlay, p, a, q, w, r)
      PROVE  GenAIInv'
  BY <1>4, Dossier_Inv
<1>5. CASE UNCHANGED vars
  BY <1>5 DEF vars, evaluationVars, dossierVars, GenAIInv, ObservationsHold, PlansHold,
              AssessmentsHold, EvaluationFailsClosed, OversightHolds, DossiersHold,
              StateAgreesWithPath, GenAIEvidenceNeverRepairs, ReviewedWhereDemanded
<1> QED BY <1>1, <1>2, <1>3, <1>4, <1>5 DEF Next

LEMMA GenAIInvariant == Spec => []GenAIInv
<1>1. Init => GenAIInv
  BY Init_Inv
<1>2. GenAIInv /\ [Next]_vars => GenAIInv'
  BY Next_Inv
<1> QED BY <1>1, <1>2, PTL DEF Spec

--------------------------------------------------------------------------------
\* An evaluation is acceptable exactly if each metric rests on one undisputed, fresh,
\* large enough observation within a limit that there is, for any metrics, readings
\* and times; and it names a gap exactly if it is incomplete
\* (assess_genai_evaluation).
THEOREM EvaluationsFailClosed == Spec => []EvaluationFailsClosed
<1>1. GenAIInv => EvaluationFailsClosed
  BY DEF GenAIInv, AssessmentsHold
<1> QED BY <1>1, GenAIInvariant, PTL

\* The state, the completeness and the gaps of a dossier, set along different
\* branches, agree for every base, evaluation and reviewer's decision
\* (build_genai_governance_dossier).
THEOREM StateAndPathAgree == Spec => []StateAgreesWithPath
<1>1. GenAIInv => StateAgreesWithPath
  BY DEF GenAIInv, DossiersHold
<1> QED BY <1>1, GenAIInvariant, PTL

\* GenAI evidence adds gaps and conditions and removes none, and completes no path
\* that the base left incomplete.
THEOREM EvidenceNeverRepairs == Spec => []GenAIEvidenceNeverRepairs
<1>1. GenAIInv => GenAIEvidenceNeverRepairs
  BY DEF GenAIInv, DossiersHold
<1> QED BY <1>1, GenAIInvariant, PTL

\* A complete dossier with an oversight requirement for a use case that demands
\* review holds the acceptance of a reviewer in a required role: the requirement
\* could not be weakened, nor the decision be for another use case or plan
\* (create_human_oversight_requirement, create_human_oversight_decision).
THEOREM DemandedReviewsAreGiven == Spec => []ReviewedWhereDemanded
<1>1. GenAIInv => ReviewedWhereDemanded
  BY DEF GenAIInv, DossiersHold
<1> QED BY <1>1, GenAIInvariant, PTL
================================================================================
