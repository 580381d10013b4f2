----------------------------- MODULE ModelApproval -----------------------------
(***************************************************************************)
(* The approval chain of one model: risk decision (risk.py), validation    *)
(* plan and resolution (validation.py), approval requirement, votes and    *)
(* resolution (governance.py).  Each step is a function that checks the    *)
(* artefacts its caller passes and returns a new one bound to them; the    *)
(* state is the pool of artefacts made so far, and a digest is modelled by *)
(* the artefact it identifies.  The arguments of a step are chosen freely  *)
(* from the pools: nothing makes the caller pass the newest ones.          *)
(***************************************************************************)
EXTENDS Integers, FiniteSets, FiniteSetsExt

CONSTANTS
  Records,     \* contents of the record of the model: [owner, ...]
  Versions,    \* contents of its versions
  Factors,     \* FactorName
  Policies,    \* [weights, medium, high, critical, maxCredit, requirements]
  Ratings,     \* what a caller may rate: [levels of the factors, strengths of controls]
  TestPlans,   \* test sets a plan may hold: [id, mandatory, status]
  Findings,    \* validation findings: [id, test, blocking, closedBy]
  People,
  NotClosed,   \* the closed_by_validator_id of a finding not closed (None)
  MaxDecisions, MaxPlans, MaxResolutions, MaxRequirements, MaxVotes,
  MaxApprovals  \* bounds on the pools

\* RiskPolicyProfile.__post_init__ and FactorWeight.__post_init__.
WellFormedPolicy(p) ==
  /\ p.weights \in [Factors -> 1 .. 5]
  /\ p.medium \in Nat /\ p.high \in Nat /\ p.critical \in Nat
  /\ 0 < p.medium /\ p.medium < p.high /\ p.high < p.critical
  /\ p.maxCredit \in Nat
  /\ DOMAIN p.requirements = {"low", "medium", "high", "critical"}

ASSUME FactorsAssumption == IsFiniteSet(Factors)
ASSUME PoliciesAssumption == \A p \in Policies : WellFormedPolicy(p)
ASSUME RatingsAssumption ==
  \A t \in Ratings : /\ t.levels \in [Factors -> 0 .. 3]
                     /\ IsFiniteSet(DOMAIN t.strengths)
                     /\ \A c \in DOMAIN t.strengths : t.strengths[c] \in 0 .. 3

\* ValidationTest.__post_init__ and ValidationPlan.__post_init__.
WellFormedTests(ts) ==
  /\ ts # {}
  /\ \A t, u \in ts : t.id = u.id => t = u
  /\ \A t \in ts : /\ t.mandatory \in BOOLEAN
                   /\ t.status \in {"pass", "fail", "not_run", "not_applicable"}
                   /\ t.mandatory => t.status # "not_applicable"

ASSUME TestPlansAssumption == \A ts \in TestPlans : WellFormedTests(ts)
ASSUME FindingsAssumption ==
  \A f \in Findings : f.blocking \in BOOLEAN /\ f.closedBy \in People \cup {NotClosed}

VARIABLES
  decisions,     \* RiskDecision
  plans,         \* ValidationPlan
  resolutions,   \* ValidationResolution
  requirements,  \* ApprovalRequirement
  votes,         \* ApprovalVote
  approvals      \* ApprovalResolution

vars == <<decisions, plans, resolutions, requirements, votes, approvals>>

Init == /\ decisions = {} /\ plans = {} /\ resolutions = {}
        /\ requirements = {} /\ votes = {} /\ approvals = {}

--------------------------------------------------------------------------------
Sum(f) == MapThenSumSet(LAMBDA x : f[x], DOMAIN f)

TierOf(p, score) ==
  IF score >= p.critical THEN "critical"
  ELSE IF score >= p.high THEN "high"
  ELSE IF score >= p.medium THEN "medium"
  ELSE "low"

InherentScore(p, t) == Sum([f \in Factors |-> t.levels[f] * p.weights[f]])

\* A mutant of the credit: the policy's limit is not applied.
UncappedCredit(p, t) == Sum(t.strengths)

\* Each control counts once, and all of them up to the policy's limit.
Credit(p, t) == IF Sum(t.strengths) < p.maxCredit THEN Sum(t.strengths) ELSE p.maxCredit

ResidualScore(p, t) ==
  IF InherentScore(p, t) > Credit(p, t) THEN InherentScore(p, t) - Credit(p, t) ELSE 0

\* The requirement sets of default_policy.
DefaultRequirements ==
  [low      |-> {"accountable_owner", "current_inventory"},
   medium   |-> {"accountable_owner", "current_inventory", "validation_plan", "monitoring_plan"},
   high     |-> {"accountable_owner", "current_inventory", "independent_validation",
                 "monitoring_plan", "change_control", "senior_risk_approval"},
   critical |-> {"accountable_owner", "current_inventory", "independent_validation",
                 "enhanced_monitoring", "change_control", "senior_risk_approval",
                 "executive_risk_acceptance", "contingency_plan"}]

\* assess_model_risk.  The decision keeps the levels and the credit that counted,
\* not the controls it was given for.
AssessRisk(r, v, policy, rating) ==
  /\ Cardinality(decisions) < MaxDecisions
  /\ decisions' = decisions \cup
       {[record |-> r, version |-> v, policy |-> policy, levels |-> rating.levels,
         credit |-> Credit(policy, rating),
         requirements |-> policy.requirements[TierOf(policy, ResidualScore(policy, rating))]]}
  /\ UNCHANGED <<plans, resolutions, requirements, votes, approvals>>

\* A mutant of the plan: the independence required by the risk decision is not read.
OnlyClaimedIndependence(r, d, validator, independent) ==
  independent => validator # r.owner

\* The independence rules of build_validation_plan.
IndependenceRespected(r, d, validator, independent) ==
  /\ "independent_validation" \in d.requirements => independent
  /\ independent => validator # r.owner

\* build_validation_plan: the only step that compares the record's content with
\* the one whose risk was assessed.
BuildPlan(r, v, d, validator, independent, tests) ==
  /\ d.record = r
  /\ d.version = v
  /\ IndependenceRespected(r, d, validator, independent)
  /\ Cardinality(plans) < MaxPlans
  /\ plans' = plans \cup {[record |-> r, version |-> v, decision |-> d,
                           validator |-> validator, independent |-> independent,
                           tests |-> tests]}
  /\ UNCHANGED <<decisions, resolutions, requirements, votes, approvals>>

Open(fs) == {f \in fs : f.closedBy = NotClosed}
Blocking(fs) == {f \in Open(fs) : f.blocking}
Ids(fs) == {f.id : f \in fs}

\* A mutant of the conclusion: failures are looked at before missing tests.
OptimisticConclusion(p, fs) ==
  IF \A t \in p.tests : t.status # "fail" THEN "pass" ELSE "fail"

\* The conclusion of resolve_validation, the first that applies.
Conclusion(p, fs) ==
  IF \E t \in p.tests : t.mandatory /\ t.status \notin {"pass", "fail"} THEN "incomplete"
  ELSE IF (\E t \in p.tests : t.mandatory /\ t.status = "fail")
          \/ Blocking(fs) # {} THEN "fail"
  ELSE IF (\E t \in p.tests : t.status = "fail") \/ Open(fs) # {} THEN "pass_with_conditions"
  ELSE "pass"

\* The findings resolve_validation accepts: about tests of the plan, and closed by
\* nobody but the plan's validator.
FindingsFit(p, fs) ==
  /\ \A f, g \in fs : f.id = g.id => f = g
  /\ \A f \in fs : \E t \in p.tests : t.id = f.test
  /\ \A f \in fs \ Open(fs) : f.closedBy = p.validator

\* The ValidationResolution names what is open and holds no finding; the completed
\* tests and the rationale follow from the plan and the conclusion.
Resolution(p, fs) ==
  [plan |-> p, conclusion |-> Conclusion(p, fs), blocking |-> Ids(Blocking(fs)),
   open |-> Ids(Open(fs))]

\* resolve_validation over the findings the caller submits.
ResolveValidation(p, fs) ==
  /\ FindingsFit(p, fs)
  /\ Cardinality(resolutions) < MaxResolutions
  /\ resolutions' = resolutions \cup {Resolution(p, fs)}
  /\ UNCHANGED <<decisions, plans, requirements, votes, approvals>>

--------------------------------------------------------------------------------
\* A mutant of the currency check: the plan's risk decision is not compared.
ChainLoose(v, d, p, x) == d.version = v /\ p.version = v /\ x.plan = p

\* _assert_validation_chain_current.  The record takes part with its identity
\* only, which all records here share.
ChainCurrent(v, d, p, x) ==
  /\ d.version = v
  /\ p.version = v
  /\ p.decision = d
  /\ x.plan = p

RiskRoles == {"senior_risk_approval", "executive_risk_acceptance"}

RequiredRoles(d) ==
  IF d.requirements \cap RiskRoles = {}
    THEN {"model_risk_approver"}
    ELSE d.requirements \cap RiskRoles

Eligible(x) == x.conclusion \notin {"fail", "incomplete"}

\* derive_approval_requirement.
DeriveRequirement(v, d, p, x) ==
  /\ ChainCurrent(v, d, p, x)
  /\ Eligible(x)
  /\ Cardinality(requirements) < MaxRequirements
  /\ requirements' = requirements \cup {[version |-> v, decision |-> d, plan |-> p,
                                         resolution |-> x, roles |-> RequiredRoles(d)]}
  /\ UNCHANGED <<decisions, plans, resolutions, votes, approvals>>

\* assert_approval_requirement_current, for a record of the model.
RequirementCurrent(q, v, d, p, x) ==
  /\ ChainCurrent(v, d, p, x)
  /\ Eligible(x)
  /\ q = [version |-> v, decision |-> d, plan |-> p, resolution |-> x,
          roles |-> RequiredRoles(d)]

Decisions == {"approve", "approve_with_conditions", "reject"}

\* create_approval_vote: the approver does not own the record the caller passes.
CreateVote(r, q, who, role, decision) ==
  /\ who # r.owner
  /\ role \in q.roles
  /\ Cardinality(votes) < MaxVotes
  /\ votes' = votes \cup {[requirement |-> q, approver |-> who, role |-> role,
                           decision |-> decision]}
  /\ UNCHANGED <<decisions, plans, resolutions, requirements, approvals>>

\* A mutant of the package: one person may vote in several roles.
OnePerRole(vs) == \A v, w \in vs : v.role = w.role => v = w

\* One vote per role and per person.
Distinct(vs) == \A v, w \in vs : v.role = w.role \/ v.approver = w.approver => v = w

\* The state of the ApprovalResolution.
Outcome(q, vs) ==
  IF \E v \in vs : v.decision = "reject" THEN "rejected"
  ELSE IF ~ (q.roles \subseteq {v.role : v \in vs}) THEN "incomplete"
  ELSE IF \E v \in vs : v.decision = "approve_with_conditions"
         THEN "approved_with_conditions"
  ELSE "approved"

\* resolve_approval over the votes the caller submits.
ResolveApproval(q, vs) ==
  /\ \A v \in vs : v.requirement = q /\ v.role \in q.roles
  /\ Distinct(vs)
  /\ Cardinality(approvals) < MaxApprovals
  /\ approvals' = approvals \cup {[requirement |-> q, votes |-> vs, state |-> Outcome(q, vs)]}
  /\ UNCHANGED <<decisions, plans, resolutions, requirements, votes>>

Next ==
  \/ \E r \in Records, v \in Versions, policy \in Policies, t \in Ratings :
        AssessRisk(r, v, policy, t)
  \/ \E r \in Records, v \in Versions, d \in decisions :
        \E who \in People, b \in BOOLEAN, tests \in TestPlans : BuildPlan(r, v, d, who, b, tests)
  \/ \E p \in plans, fs \in SUBSET Findings : ResolveValidation(p, fs)
  \/ \E v \in Versions, d \in decisions, p \in plans, x \in resolutions :
        DeriveRequirement(v, d, p, x)
  \/ \E r \in Records, q \in requirements, who \in People, decision \in Decisions :
        \E role \in q.roles : CreateVote(r, q, who, role, decision)
  \/ \E q \in requirements : \E vs \in SUBSET votes : ResolveApproval(q, vs)

Spec == Init /\ [][Next]_vars

--------------------------------------------------------------------------------
Approved == {a \in approvals : a.state \in {"approved", "approved_with_conditions"}}

\* One chain: what is approved was validated, and what was validated was risk
\* assessed, for the same record and version content and under the risk
\* decision that sets the roles, whatever the caller passed at each step.
ApprovalsRestOnOneChain ==
  \A a \in Approved :
    LET q == a.requirement IN
    /\ q.resolution.plan = q.plan /\ q.plan.decision = q.decision
    /\ q.version = q.plan.version /\ q.version = q.decision.version
    /\ q.plan.record = q.decision.record

\* Nothing is approved on a validation with a mandatory test not passed or with an
\* open finding of high or critical severity; and a failed test or a finding left
\* open is not hidden behind an unconditional pass (resolve_validation).
ApprovedMeansValidated ==
  \A a \in Approved :
    LET x == a.requirement.resolution IN
    /\ \A t \in x.plan.tests : t.mandatory => t.status = "pass"
    /\ x.blocking = {}
    /\ x.open # {} \/ (\E t \in x.plan.tests : t.status = "fail")
         => x.conclusion = "pass_with_conditions"

\* If the risk decision calls for an independent validation, the validator of an
\* approved model is not the owner of the record that was assessed.
ApprovedMeansIndependent ==
  \A a \in Approved :
    "independent_validation" \in a.requirement.decision.requirements =>
      a.requirement.plan.validator # a.requirement.decision.record.owner

\* A model rated at least as high in every factor, with no more credit for its
\* controls, never comes out with less to do: each duty of independence and each
\* risk role required of the other is required of it, under a policy with the
\* requirement sets of default_policy; and controls alone buy no more than one tier
\* if the policy's credit fits into every band, as there (assess_model_risk).
DutiesFollowRisk ==
  /\ \A d, e \in decisions :
       /\ d.policy = e.policy /\ d.policy.requirements = DefaultRequirements
       /\ \A f \in Factors : d.levels[f] >= e.levels[f]
       /\ d.credit =< e.credit
       => e.requirements \cap (RiskRoles \cup {"independent_validation"}) \subseteq d.requirements
  /\ \A d \in decisions :
       LET p == d.policy
           inherent == TierOf(p, InherentScore(p, d))
       IN  /\ p.maxCredit =< p.high - p.medium /\ p.maxCredit =< p.critical - p.high
           /\ p.requirements = DefaultRequirements
           => /\ inherent \in {"high", "critical"} => "monitoring_plan" \in d.requirements
                                                      \/ "enhanced_monitoring" \in d.requirements
              /\ inherent = "critical" => "senior_risk_approval" \in d.requirements

\* governance.py:222, "model owner cannot approve their own model": no approval
\* that is current for a record of the model was given by that record's owner.
OwnerDoesNotApprove ==
  \A a \in Approved, r \in Records :
    LET q == a.requirement IN
    RequirementCurrent(q, q.version, q.decision, q.plan, q.resolution)
      => \A v \in a.votes : v.approver # r.owner
================================================================================
