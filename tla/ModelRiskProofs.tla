----------------------------- MODULE ModelRiskProofs -----------------------------
(***************************************************************************)
(* Proofs about the two places where risk is added up: ModelApproval with  *)
(* Dossier (the factors of one model's score) and Portfolio (the exposures *)
(* of many models).  They hold for every policy, rating, finding, person,  *)
(* profile, service and book, and for every bound; what the sums do is     *)
(* proved in Sums.                                                         *)
(*                                                                         *)
(* Approval: every artefact is immutable and stays in its pool, so the     *)
(* inductive invariant says of each kind of artefact what its step         *)
(* compared; an approval then reaches back, through its requirement, to    *)
(* the risk decision.  Portfolio: the invariant has one part per history;  *)
(* what a record binds is still registered, and binding what was current   *)
(* at each registration has put the bindings in order.                     *)
(***************************************************************************)
EXTENDS Dossier, Portfolio, Sums, TLAPS

\* What build_validation_plan made sure of: the independence a decision asks for.
PlansHold ==
  \A p \in plans :
    /\ p.decision.record = p.record
    /\ p.decision.version = p.version
    /\ "independent_validation" \in p.decision.requirements => p.validator # p.record.owner

\* resolve_validation: a resolution is that of some findings, which it does not hold.
ResolutionsHold ==
  \A x \in resolutions :
    \E fs \in SUBSET Findings : FindingsFit(x.plan, fs) /\ x = Resolution(x.plan, fs)

\* derive_approval_requirement.
RequirementsHold ==
  \A q \in requirements :
    /\ q.plan \in plans /\ q.resolution \in resolutions
    /\ ChainCurrent(q.version, q.decision, q.plan, q.resolution)
    /\ Eligible(q.resolution)

\* resolve_approval.
ApprovalsHold ==
  \A a \in approvals :
    /\ a.requirement \in requirements
    /\ \A v \in a.votes : v.requirement = a.requirement /\ v.role \in a.requirement.roles
    /\ Distinct(a.votes)

ChainInv == PlansHold /\ ResolutionsHold /\ RequirementsHold /\ ApprovalsHold

--------------------------------------------------------------------------------
LEMMA Init_Inv == Init => ChainInv
  BY DEF Init, ChainInv, PlansHold, ResolutionsHold, RequirementsHold, ApprovalsHold

LEMMA BuildPlan_Inv ==
  ASSUME ChainInv, NEW r, NEW v, NEW d, NEW who, NEW b, NEW tests,
         BuildPlan(r, v, d, who, b, tests)
  PROVE  ChainInv'
<1> DEFINE p == [record |-> r, version |-> v, decision |-> d, validator |-> who,
                 independent |-> b, tests |-> tests]
<1>1. plans' = plans \cup {p} /\ UNCHANGED <<resolutions, requirements, approvals>>
  BY DEF BuildPlan
<1>2. /\ p.decision.record = p.record /\ p.decision.version = p.version
      /\ "independent_validation" \in p.decision.requirements => p.validator # p.record.owner
  BY DEF BuildPlan, IndependenceRespected
<1>3. PlansHold'
  BY <1>1, <1>2 DEF ChainInv, PlansHold
<1>4. ResolutionsHold' /\ RequirementsHold' /\ ApprovalsHold'
  BY <1>1 DEF ChainInv, ResolutionsHold, RequirementsHold, ApprovalsHold
<1> QED BY <1>3, <1>4 DEF ChainInv

LEMMA ResolveValidation_Inv ==
  ASSUME ChainInv, NEW p, NEW fs \in SUBSET Findings, ResolveValidation(p, fs)
  PROVE  ChainInv'
<1> DEFINE x == Resolution(p, fs)
<1>1. resolutions' = resolutions \cup {x} /\ UNCHANGED <<plans, requirements, approvals>>
  BY DEF ResolveValidation
<1>2. x.plan = p /\ FindingsFit(p, fs)
  BY DEF ResolveValidation, Resolution
<1>3. ResolutionsHold'
  BY <1>1, <1>2 DEF ChainInv, ResolutionsHold
<1>4. PlansHold' /\ RequirementsHold' /\ ApprovalsHold'
  BY <1>1 DEF ChainInv, PlansHold, RequirementsHold, ApprovalsHold
<1> QED BY <1>3, <1>4 DEF ChainInv

LEMMA DeriveRequirement_Inv ==
  ASSUME ChainInv, NEW v, NEW d, NEW p \in plans, NEW x \in resolutions,
         DeriveRequirement(v, d, p, x)
  PROVE  ChainInv'
<1> DEFINE q == [version |-> v, decision |-> d, plan |-> p, resolution |-> x,
                 roles |-> RequiredRoles(d)]
<1>1. requirements' = requirements \cup {q} /\ UNCHANGED <<plans, resolutions, approvals>>
  BY DEF DeriveRequirement
<1>2. /\ ChainCurrent(q.version, q.decision, q.plan, q.resolution)
      /\ Eligible(q.resolution)
  BY DEF DeriveRequirement
<1>3. RequirementsHold'
  BY <1>1, <1>2 DEF ChainInv, RequirementsHold
<1>4. PlansHold' /\ ResolutionsHold' /\ ApprovalsHold'
  BY <1>1 DEF ChainInv, PlansHold, ResolutionsHold, ApprovalsHold
<1> QED BY <1>3, <1>4 DEF ChainInv

LEMMA ResolveApproval_Inv ==
  ASSUME ChainInv, NEW q \in requirements, NEW vs, ResolveApproval(q, vs)
  PROVE  ChainInv'
<1> DEFINE a == [requirement |-> q, votes |-> vs, state |-> Outcome(q, vs)]
<1>1. approvals' = approvals \cup {a} /\ UNCHANGED <<plans, resolutions, requirements>>
  BY DEF ResolveApproval
<1>2. (\A v \in vs : v.requirement = q /\ v.role \in q.roles) /\ Distinct(vs)
  BY DEF ResolveApproval
<1>3. ApprovalsHold'
  BY <1>1, <1>2 DEF ChainInv, ApprovalsHold
<1>4. PlansHold' /\ ResolutionsHold' /\ RequirementsHold'
  BY <1>1 DEF ChainInv, PlansHold, ResolutionsHold, RequirementsHold
<1> QED BY <1>3, <1>4 DEF ChainInv

\* Assessing, voting and doing nothing change no artefact the invariant is about.
LEMMA Others_Inv ==
  ASSUME ChainInv, UNCHANGED <<plans, resolutions, requirements, approvals>>
  PROVE  ChainInv'
  BY DEF ChainInv, PlansHold, ResolutionsHold, RequirementsHold, ApprovalsHold

LEMMA Next_Inv == ChainInv /\ [Next]_vars => ChainInv'
<1> SUFFICES ASSUME ChainInv, [Next]_vars PROVE ChainInv'
  OBVIOUS
<1>1. ASSUME NEW r, NEW v, NEW policy, NEW t, AssessRisk(r, v, policy, t) PROVE ChainInv'
  BY <1>1, Others_Inv DEF AssessRisk
<1>2. ASSUME NEW r, NEW v, NEW d, NEW who, NEW b, NEW tests,
             BuildPlan(r, v, d, who, b, tests)
      PROVE  ChainInv'
  BY <1>2, BuildPlan_Inv
<1>3. ASSUME NEW p, NEW fs \in SUBSET Findings, ResolveValidation(p, fs) PROVE ChainInv'
  BY <1>3, ResolveValidation_Inv
<1>4. ASSUME NEW v, NEW d, NEW p \in plans, NEW x \in resolutions,
             DeriveRequirement(v, d, p, x)
      PROVE  ChainInv'
  BY <1>4, DeriveRequirement_Inv
<1>5. ASSUME NEW r, NEW q, NEW who, NEW role, NEW decision,
             CreateVote(r, q, who, role, decision)
      PROVE  ChainInv'
  BY <1>5, Others_Inv DEF CreateVote
<1>6. ASSUME NEW q \in requirements, NEW vs, ResolveApproval(q, vs) PROVE ChainInv'
  BY <1>6, ResolveApproval_Inv
<1>7. CASE UNCHANGED vars
  BY <1>7, Others_Inv DEF vars
<1> QED BY <1>1, <1>2, <1>3, <1>4, <1>5, <1>6, <1>7 DEF Next

LEMMA ChainInvariant == Spec => []ChainInv
<1>1. Init => ChainInv
  BY Init_Inv
<1>2. ChainInv /\ [Next]_vars => ChainInv'
  BY Next_Inv
<1> QED BY <1>1, <1>2, PTL DEF Spec

--------------------------------------------------------------------------------
\* An approval can be followed back to the risk decision that sets its roles, and
\* all on the way is about the same record and version content, although the
\* caller of every step chooses its artefacts (build_validation_plan,
\* resolve_validation, derive_approval_requirement, resolve_approval).
THEOREM ChainIsOne == Spec => []ApprovalsRestOnOneChain
<1>1. ASSUME ChainInv PROVE ApprovalsRestOnOneChain
  BY <1>1 DEF ChainInv, PlansHold, RequirementsHold, ApprovalsHold, ChainCurrent,
              ApprovalsRestOnOneChain, Approved
<1> QED BY <1>1, ChainInvariant, PTL

\* A conclusion that is neither "fail" nor "incomplete" leaves no mandatory test
\* unpassed and no blocking finding open, and is unconditional only if nothing failed
\* and nothing is open.
LEMMA ConclusionIsSound ==
  ASSUME NEW p, NEW fs, Conclusion(p, fs) \notin {"fail", "incomplete"}
  PROVE  /\ \A t \in p.tests : t.mandatory => t.status = "pass"
         /\ Blocking(fs) = {}
         /\ Open(fs) # {} \/ (\E t \in p.tests : t.status = "fail")
              => Conclusion(p, fs) = "pass_with_conditions"
  BY DEF Conclusion

\* Nothing is approved on a failed validation: the conclusion and the open ids are
\* those of findings that were accepted, the requirement is derived from an eligible
\* resolution, and the approval from that requirement.
THEOREM ApprovalsAreValidated == Spec => []ApprovedMeansValidated
<1>1. ASSUME ChainInv PROVE ApprovedMeansValidated
  <2> SUFFICES ASSUME NEW a \in Approved
               PROVE  /\ \A t \in a.requirement.resolution.plan.tests :
                            t.mandatory => t.status = "pass"
                      /\ a.requirement.resolution.blocking = {}
                      /\ \/ a.requirement.resolution.open # {}
                         \/ \E t \in a.requirement.resolution.plan.tests : t.status = "fail"
                         => a.requirement.resolution.conclusion = "pass_with_conditions"
    BY DEF ApprovedMeansValidated
  <2> DEFINE x == a.requirement.resolution
  <2>1. x \in resolutions /\ Eligible(x)
    BY <1>1 DEF ChainInv, RequirementsHold, ApprovalsHold, Approved
  <2>2. PICK fs \in SUBSET Findings : x = Resolution(x.plan, fs)
    BY <1>1, <2>1 DEF ChainInv, ResolutionsHold
  <2>3. /\ x.conclusion = Conclusion(x.plan, fs)
        /\ x.blocking = Ids(Blocking(fs)) /\ x.open = Ids(Open(fs))
    BY <2>2 DEF Resolution
  <2>4. /\ \A t \in x.plan.tests : t.mandatory => t.status = "pass"
        /\ Blocking(fs) = {}
        /\ Open(fs) # {} \/ (\E t \in x.plan.tests : t.status = "fail")
             => x.conclusion = "pass_with_conditions"
    BY <2>1, <2>3, ConclusionIsSound DEF Eligible
  <2>5. x.blocking = {} /\ (x.open # {} => Open(fs) # {})
    BY <2>3, <2>4 DEF Ids
  <2> QED BY <2>4, <2>5
<1> QED BY <1>1, ChainInvariant, PTL

\* Where the risk decision asks for independence, the validator behind an approval
\* is not the owner of the assessed record: the claim of independence is forced,
\* and checked against that record (build_validation_plan).
THEOREM ApprovalsAreIndependent == Spec => []ApprovedMeansIndependent
<1>1. ASSUME ChainInv PROVE ApprovedMeansIndependent
  BY <1>1 DEF ChainInv, PlansHold, RequirementsHold, ApprovalsHold, ChainCurrent,
              ApprovedMeansIndependent, Approved
<1> QED BY <1>1, ChainInvariant, PTL

--------------------------------------------------------------------------------
\* The roles an approval asks for are finitely many, and at least one.
LEMMA RolesFinite ==
  ASSUME NEW d
  PROVE  IsFiniteSet(RequiredRoles(d)) /\ RequiredRoles(d) # {}
<1>1. IsFiniteSet(RiskRoles)
  <2>1. IsFiniteSet({"senior_risk_approval"} \cup {"executive_risk_acceptance"})
    BY FS_Singleton, FS_AddElement
  <2>2. RiskRoles = {"senior_risk_approval"} \cup {"executive_risk_acceptance"}
    BY DEF RiskRoles
  <2> QED BY <2>1, <2>2
<1>2. IsFiniteSet(d.requirements \cap RiskRoles)
  BY <1>1, FS_Subset
<1>3. IsFiniteSet({"model_risk_approver"})
  BY FS_Singleton
<1>4. CASE d.requirements \cap RiskRoles = {}
  BY <1>3, <1>4 DEF RequiredRoles
<1>5. CASE d.requirements \cap RiskRoles # {}
  BY <1>2, <1>5 DEF RequiredRoles
<1> QED BY <1>4, <1>5

\* Votes that are distinct and cover their roles come from as many people as there
\* are roles: the voter of a role is a one-to-one function onto the voters.
LEMMA OnePersonPerRole ==
  ASSUME NEW roles, IsFiniteSet(roles), NEW vs, Distinct(vs),
         \A v \in vs : v.role \in roles,
         roles \subseteq {v.role : v \in vs}
  PROVE  Cardinality({v.approver : v \in vs}) = Cardinality(roles)
<1> DEFINE people == {v.approver : v \in vs}
           voteIn(role) == CHOOSE v \in vs : v.role = role
           voter == [role \in roles |-> voteIn(role).approver]
<1>1. ASSUME NEW role \in roles PROVE voteIn(role) \in vs /\ voteIn(role).role = role
  BY <1>1
<1>2. voter \in [roles -> people]
  BY <1>1
<1>3. ASSUME NEW r \in roles, NEW s \in roles, voter[r] = voter[s] PROVE r = s
  <2>1. voteIn(r).approver = voteIn(s).approver
    BY <1>3
  <2>2. voteIn(r) = voteIn(s)
    BY <1>1, <2>1 DEF Distinct
  <2> QED BY <1>1, <2>2
<1>4. ASSUME NEW who \in people PROVE \E role \in roles : voter[role] = who
  <2>1. PICK v \in vs : v.approver = who
    BY <1>4
  <2>2. v.role \in roles
    BY <2>1
  <2>3. voteIn(v.role) = v
    BY <1>1, <2>1, <2>2 DEF Distinct
  <2> QED BY <2>1, <2>2, <2>3
<1> HIDE DEF voter, people
<1>5. voter \in Bijection(roles, people)
  BY <1>2, <1>3, <1>4 DEF Bijection, Injection, Surjection, IsInjective
<1>6. Cardinality(people) = Cardinality(roles)
  BY <1>5, FS_Bijection DEF ExistsBijection
<1> QED BY <1>6 DEF people

ExceptionsHold ==
  \A e \in exceptions : /\ e.waived \subseteq e.decision.requirements
                        /\ e.waived \cap NonExceptionable = {}

DossierInv == ChainInv /\ ExceptionsHold /\ CompleteDossierIsWhole

\* What a dossier that is complete is made of, when it is built.
LEMMA BuildDossier_Whole ==
  ASSUME DossierInv, NEW a \in approvals, NEW r, NEW v, NEW policy, NEW d, NEW p,
         NEW x \in resolutions, NEW q, NEW xs \in SUBSET exceptions, NEW fs, NEW revalidation,
         BuildDossier(r, v, policy, d, p, fs, x, q, a.votes, a, xs, revalidation)
  PROVE  CompleteDossierIsWhole'
<1> DEFINE k == [record |-> r, version |-> v, policy |-> policy, decision |-> d, plan |-> p,
                 findings |-> fs, votes |-> a.votes, exceptions |-> xs,
                 state |-> StateOf(a, revalidation),
                 complete |-> StateOf(a, revalidation)
                                \in {"approved", "approved_with_conditions"},
                 revalidation |-> revalidation]
<1>1. dossiers' = dossiers \cup {k}
  BY DEF BuildDossier
<1>2. /\ d.policy = policy /\ d.version = v
      /\ ResolutionReproduces(p, fs, x)
      /\ RequirementCurrent(q, v, d, p, x)
      /\ a = [requirement |-> q, votes |-> a.votes, state |-> Outcome(q, a.votes)]
      /\ \A e \in xs : Applies(e, v, d)
  BY DEF BuildDossier
<1>3. a.requirement = q /\ a.state = Outcome(q, a.votes) /\ q.roles = RequiredRoles(d)
  BY <1>2 DEF RequirementCurrent
<1>4. ASSUME k.complete PROVE IsWhole(k)
  <2>1. revalidation = NoRevalidation /\ a.state \in {"approved", "approved_with_conditions"}
    BY <1>4 DEF StateOf
  <2>2. /\ \A w \in a.votes : w.decision # "reject"
        /\ RequiredRoles(d) \subseteq {w.role : w \in a.votes}
    BY <1>3, <2>1 DEF Outcome
  <2>3. /\ p.version = v /\ p.decision = d /\ x.plan = p /\ Eligible(x)
    BY <1>2 DEF RequirementCurrent, ChainCurrent
  <2>4. /\ FindingsFit(p, fs)
        /\ x.open = Ids(Open(fs)) /\ Conclusion(p, fs) \notin {"fail", "incomplete"}
    BY <1>2, <2>3 DEF ResolutionReproduces, Resolution, Eligible
  <2>5. (\A t \in p.tests : t.mandatory => t.status = "pass") /\ Blocking(fs) = {}
    BY <2>4, ConclusionIsSound
  <2>6. \A f \in fs : f.blocking => f.closedBy = p.validator
    BY <2>4, <2>5 DEF FindingsFit, Blocking, Open
  <2>7. /\ \A w \in a.votes : w.requirement = q /\ w.role \in RequiredRoles(d)
        /\ Distinct(a.votes)
    BY <1>3 DEF DossierInv, ChainInv, ApprovalsHold
  <2>8. \A w \in a.votes : /\ w.requirement.resolution.plan = p
                            /\ w.requirement.resolution.open = Ids(Open(fs))
    BY <1>2, <2>3, <2>4, <2>7 DEF RequirementCurrent
  <2>9. Cardinality({w.approver : w \in a.votes}) = Cardinality(RequiredRoles(d))
    BY <2>2, <2>7, RolesFinite, OnePersonPerRole
  <2>10. \A e \in xs : /\ e.waived \subseteq d.requirements
                       /\ e.waived \cap (RiskRoles \cup {"independent_validation"}) = {}
    BY <1>2 DEF DossierInv, ExceptionsHold, Applies, RiskRoles, NonExceptionable
  <2> QED BY <1>2, <2>1, <2>2, <2>3, <2>5, <2>6, <2>8, <2>9, <2>10 DEF IsWhole
<1> HIDE DEF k
<1> QED BY <1>1, <1>4 DEF DossierInv, CompleteDossierIsWhole

LEMMA DossierNext_Inv == DossierInv /\ [DossierNext]_allVars => DossierInv'
<1> SUFFICES ASSUME DossierInv, [DossierNext]_allVars PROVE DossierInv'
  OBVIOUS
<1>1. CASE [Next]_vars /\ UNCHANGED dossierVars
  BY <1>1, Next_Inv DEF DossierInv, dossierVars, ExceptionsHold, CompleteDossierIsWhole
<1>2. ASSUME NEW v, NEW d, NEW waived, CreateException(v, d, waived) PROVE DossierInv'
  <2>1. ChainInv' /\ CompleteDossierIsWhole'
    BY <1>2, Others_Inv DEF CreateException, vars, DossierInv, CompleteDossierIsWhole
  <2>2. ExceptionsHold'
    BY <1>2 DEF CreateException, DossierInv, ExceptionsHold
  <2> QED BY <2>1, <2>2 DEF DossierInv
<1>3. ASSUME NEW a \in approvals, NEW r, NEW v, NEW policy, NEW d, NEW p,
             NEW x \in resolutions, NEW q, NEW xs \in SUBSET exceptions, NEW fs,
             NEW revalidation,
             BuildDossier(r, v, policy, d, p, fs, x, q, a.votes, a, xs, revalidation)
      PROVE  DossierInv'
  <2>1. CompleteDossierIsWhole'
    BY <1>3, BuildDossier_Whole
  <2>2. ChainInv' /\ ExceptionsHold'
    BY <1>3, Others_Inv DEF BuildDossier, vars, DossierInv, ExceptionsHold
  <2> QED BY <2>1, <2>2 DEF DossierInv
<1> QED BY <1>1, <1>2, <1>3 DEF DossierNext, allVars

\* A complete dossier can be judged by what is in it, for any policy and whichever
\* findings its caller submits of those that give the resolution: each role the
\* decision requires consented through a person of its own, which is a bijection
\* from the roles to the voters; the mandatory tests passed; and no exception in it
\* waives a risk role or the independence (build_governance_dossier).  A policy may
\* list "model_risk_approver" as a requirement of its own; that one can be waived,
\* and the role is asked for all the same.
THEOREM CompleteDossiersAreWhole == DossierSpec => []CompleteDossierIsWhole
<1>1. DossierInit => DossierInv
  BY Init_Inv DEF DossierInit, DossierInv, ExceptionsHold, CompleteDossierIsWhole
<1>2. DossierInv /\ [DossierNext]_allVars => DossierInv'
  BY DossierNext_Inv
<1>3. DossierInv => CompleteDossierIsWhole
  BY DEF DossierInv
<1> QED BY <1>1, <1>2, <1>3, PTL DEF DossierSpec

\* Dossiers and exceptions only read the approval chain, so that the theorems
\* about it hold with them.
THEOREM DossiersOnlyRead == DossierSpec => Spec
<1>1. DossierInit => Init
  BY DEF DossierInit
<1>2. [DossierNext]_allVars => [Next]_vars
  BY DEF DossierNext, CreateException, BuildDossier, allVars
<1> QED BY <1>1, <1>2, PTL DEF DossierSpec, Spec

--------------------------------------------------------------------------------
LEMMA SumIsSum == \A f : Sum(f) = SumOf(f, DOMAIN f)
<1> SUFFICES ASSUME NEW f PROVE Sum(f) = SumOf(f, DOMAIN f)
  OBVIOUS
<1> DEFINE step(it) == [s \in SUBSET (DOMAIN f) |->
                          IF s = {} THEN 0
                          ELSE LET x == CHOOSE y \in s : TRUE IN f[x] + it[s \ {x}]]
<1>1. Sum(f) = (CHOOSE it : it = step(it))[DOMAIN f]
  BY DEF Sum, MapThenSumSet, MapThenFoldSet
<1>2. ASSUME NEW it PROVE step(it) = Unfolded(f, it, DOMAIN f)
  BY DEF Unfolded, Pick, Rest
<1> HIDE DEF step
<1>3. (CHOOSE it : it = step(it)) = (CHOOSE it : it = Unfolded(f, it, DOMAIN f))
  BY <1>2
<1> QED BY <1>1, <1>3 DEF SumOf, Folded

\* What assess_model_risk put into a decision.
DecisionsHold ==
  \A d \in decisions :
    /\ d.policy \in Policies
    /\ \E t \in Ratings :
         /\ d.levels = t.levels /\ d.credit = Credit(d.policy, t)
         /\ d.requirements = d.policy.requirements[TierOf(d.policy, ResidualScore(d.policy, t))]

LEMMA ScoreType ==
  ASSUME NEW p \in Policies, NEW t \in Ratings
  PROVE  InherentScore(p, t) \in Nat /\ Sum(t.strengths) \in Nat /\ Credit(p, t) \in Nat
<1>1. InherentScore(p, t) \in Nat
  <2> DEFINE w == [f \in Factors |-> t.levels[f] * p.weights[f]]
  <2>1. Weights(w, Factors)
    <3> SUFFICES ASSUME NEW f \in Factors PROVE t.levels[f] * p.weights[f] \in Nat
      BY DEF Weights
    <3>1. t.levels[f] \in 0 .. 3 /\ p.weights[f] \in 1 .. 5
      BY RatingsAssumption, PoliciesAssumption DEF WellFormedPolicy
    <3> QED BY <3>1
  <2>2. SumOf(w, Factors) \in Nat
    BY <2>1, FactorsAssumption, SumType
  <2>3. InherentScore(p, t) = SumOf(w, DOMAIN w) /\ DOMAIN w = Factors
    BY SumIsSum DEF InherentScore
  <2> QED BY <2>2, <2>3
<1>2. Sum(t.strengths) \in Nat
  <2>1. IsFiniteSet(DOMAIN t.strengths) /\ Weights(t.strengths, DOMAIN t.strengths)
    BY RatingsAssumption DEF Weights
  <2>2. SumOf(t.strengths, DOMAIN t.strengths) \in Nat
    BY <2>1, SumType
  <2> QED BY <2>2, SumIsSum
<1>3. Credit(p, t) \in Nat
  BY <1>2, PoliciesAssumption DEF Credit, WellFormedPolicy
<1> QED BY <1>1, <1>2, <1>3

\* Higher levels under one policy weigh at least as much.
LEMMA InherentIsMonotone ==
  ASSUME NEW p \in Policies, NEW t \in Ratings, NEW u \in Ratings,
         \A f \in Factors : t.levels[f] >= u.levels[f]
  PROVE  InherentScore(p, t) >= InherentScore(p, u)
<1> DEFINE w == [f \in Factors |-> t.levels[f] * p.weights[f]]
           v == [f \in Factors |-> u.levels[f] * p.weights[f]]
<1>1. ASSUME NEW f \in Factors PROVE w[f] \in Nat /\ v[f] \in Nat /\ v[f] =< w[f]
  <2>1. t.levels[f] \in 0 .. 3 /\ u.levels[f] \in 0 .. 3 /\ p.weights[f] \in 1 .. 5
    BY RatingsAssumption, PoliciesAssumption DEF WellFormedPolicy
  <2>2. u.levels[f] =< t.levels[f]
    BY <2>1
  <2>3. \A a, b \in 0 .. 3, c \in 1 .. 5 : b =< a => b * c =< a * c /\ a * c \in Nat /\ b * c \in Nat
    OBVIOUS
  <2> QED BY <2>1, <2>2, <2>3
<1>2. Weights(w, Factors) /\ Weights(v, Factors) /\ \A f \in Factors : v[f] =< w[f]
  BY <1>1 DEF Weights
<1>3. /\ InherentScore(p, t) = SumOf(w, DOMAIN w) /\ DOMAIN w = Factors
      /\ InherentScore(p, u) = SumOf(v, DOMAIN v) /\ DOMAIN v = Factors
  BY SumIsSum DEF InherentScore
<1> HIDE DEF w, v
<1>4. SumOf(v, Factors) =< SumOf(w, Factors)
  BY <1>2, FactorsAssumption, SumIsMonotone
<1>5. InherentScore(p, t) \in Nat /\ InherentScore(p, u) \in Nat
  BY ScoreType
<1> QED BY <1>3, <1>4, <1>5

\* No rating comes out lower for being higher with less credit.
LEMMA ResidualIsMonotone ==
  ASSUME NEW p \in Policies, NEW t \in Ratings, NEW u \in Ratings,
         \A f \in Factors : t.levels[f] >= u.levels[f],
         Credit(p, t) =< Credit(p, u)
  PROVE  ResidualScore(p, t) >= ResidualScore(p, u)
<1>1. InherentScore(p, t) >= InherentScore(p, u)
  BY InherentIsMonotone
<1>2. /\ InherentScore(p, t) \in Nat /\ InherentScore(p, u) \in Nat
      /\ Credit(p, t) \in Nat /\ Credit(p, u) \in Nat
  BY ScoreType
<1> QED BY <1>1, <1>2 DEF ResidualScore

Duties == RiskRoles \cup {"independent_validation"}

\* The duties of default_policy grow with the score.
LEMMA DutiesGrow ==
  ASSUME NEW p \in Policies, NEW m \in Int, NEW n \in Int, m >= n
  PROVE  DefaultRequirements[TierOf(p, n)] \cap Duties \subseteq DefaultRequirements[TierOf(p, m)]
<1>1. /\ DefaultRequirements["low"] \cap Duties = {}
      /\ DefaultRequirements["medium"] \cap Duties = {}
      /\ DefaultRequirements["high"] \cap Duties \subseteq DefaultRequirements["critical"]
  BY DEF DefaultRequirements, Duties, RiskRoles
<1>2. p.medium \in Int /\ p.high \in Int /\ p.critical \in Int
  BY PoliciesAssumption DEF WellFormedPolicy
<1>3. /\ TierOf(p, n) \in {"low", "medium", "high", "critical"}
      /\ TierOf(p, n) = "high" => TierOf(p, m) \in {"high", "critical"}
      /\ TierOf(p, n) = "critical" => TierOf(p, m) = "critical"
  BY <1>2, PoliciesAssumption DEF TierOf, WellFormedPolicy
<1> HIDE DEF DefaultRequirements
<1> QED BY <1>1, <1>3

\* Credit that fits into a band buys no more than one tier.
LEMMA OneTierAtMost ==
  ASSUME NEW p \in Policies, NEW t \in Ratings,
         p.maxCredit =< p.high - p.medium, p.maxCredit =< p.critical - p.high
  PROVE  /\ TierOf(p, InherentScore(p, t)) \in {"high", "critical"}
              => TierOf(p, ResidualScore(p, t)) \in {"medium", "high", "critical"}
         /\ TierOf(p, InherentScore(p, t)) = "critical"
              => TierOf(p, ResidualScore(p, t)) \in {"high", "critical"}
<1>1. /\ p.medium \in Nat /\ p.high \in Nat /\ p.critical \in Nat /\ p.maxCredit \in Nat
      /\ 0 < p.medium /\ p.medium < p.high /\ p.high < p.critical
  BY PoliciesAssumption DEF WellFormedPolicy
<1>2. /\ InherentScore(p, t) \in Nat /\ Credit(p, t) \in Nat /\ Credit(p, t) =< p.maxCredit
  BY <1>1, ScoreType DEF Credit
<1>3. /\ ResidualScore(p, t) \in Nat
      /\ ResidualScore(p, t) >= InherentScore(p, t) - p.maxCredit
  BY <1>1, <1>2 DEF ResidualScore
<1>4. /\ InherentScore(p, t) >= p.high => ResidualScore(p, t) >= p.medium
      /\ InherentScore(p, t) >= p.critical => ResidualScore(p, t) >= p.high
  BY <1>1, <1>2, <1>3
<1>5. /\ TierOf(p, InherentScore(p, t)) \in {"high", "critical"} => InherentScore(p, t) >= p.high
      /\ TierOf(p, InherentScore(p, t)) = "critical" => InherentScore(p, t) >= p.critical
  BY <1>1, <1>2 DEF TierOf
<1>6. /\ ResidualScore(p, t) >= p.medium
           => TierOf(p, ResidualScore(p, t)) \in {"medium", "high", "critical"}
      /\ ResidualScore(p, t) >= p.high
           => TierOf(p, ResidualScore(p, t)) \in {"high", "critical"}
  BY <1>1, <1>3 DEF TierOf
<1> QED BY <1>4, <1>5, <1>6

\* A model at more risk never has less to do, and controls alone buy at most one
\* tier: the scores are sums over the factors, which grow with every level
\* (assess_model_risk).
THEOREM DutiesAreMonotone == Spec => []DutiesFollowRisk
<1>1. Init => DecisionsHold
  BY DEF Init, DecisionsHold
<1>2. DecisionsHold /\ [Next]_vars => DecisionsHold'
  <2> SUFFICES ASSUME DecisionsHold, [Next]_vars PROVE DecisionsHold'
    OBVIOUS
  <2>1. CASE UNCHANGED decisions
    BY <2>1 DEF DecisionsHold
  <2>2. ASSUME NEW r, NEW v, NEW policy \in Policies, NEW t \in Ratings,
               AssessRisk(r, v, policy, t)
        PROVE  DecisionsHold'
    BY <2>2 DEF AssessRisk, DecisionsHold
  <2> QED BY <2>1, <2>2 DEF Next, vars, BuildPlan, ResolveValidation, DeriveRequirement,
                            CreateVote, ResolveApproval
<1>3. DecisionsHold => DutiesFollowRisk
  <2> SUFFICES ASSUME DecisionsHold PROVE DutiesFollowRisk
    OBVIOUS
  <2>1. ASSUME NEW d \in decisions, NEW e \in decisions,
               d.policy = e.policy, d.policy.requirements = DefaultRequirements,
               \A f \in Factors : d.levels[f] >= e.levels[f],
               d.credit =< e.credit
        PROVE  e.requirements \cap Duties \subseteq d.requirements
    <3> DEFINE p == d.policy
    <3>1. PICK t \in Ratings :
             /\ d.levels = t.levels /\ d.credit = Credit(p, t)
             /\ d.requirements = DefaultRequirements[TierOf(p, ResidualScore(p, t))]
      BY <2>1 DEF DecisionsHold
    <3>2. PICK u \in Ratings :
             /\ e.levels = u.levels /\ e.credit = Credit(p, u)
             /\ e.requirements = DefaultRequirements[TierOf(p, ResidualScore(p, u))]
      BY <2>1 DEF DecisionsHold
    <3> DEFINE m == ResidualScore(p, t)
               n == ResidualScore(p, u)
    <3>3. p \in Policies
      BY DEF DecisionsHold
    <3>4. m >= n
      BY <2>1, <3>1, <3>2, <3>3, ResidualIsMonotone
    <3>5. m \in Int /\ n \in Int
      BY <3>3, ScoreType DEF ResidualScore
    <3>6. /\ d.requirements = DefaultRequirements[TierOf(p, m)]
          /\ e.requirements = DefaultRequirements[TierOf(p, n)]
      BY <3>1, <3>2
    <3> HIDE DEF p, m, n
    <3> QED BY <3>3, <3>4, <3>5, <3>6, DutiesGrow
  <2>2. ASSUME NEW d \in decisions, d.policy.maxCredit =< d.policy.high - d.policy.medium,
               d.policy.maxCredit =< d.policy.critical - d.policy.high,
               d.policy.requirements = DefaultRequirements
        PROVE  /\ TierOf(d.policy, InherentScore(d.policy, d)) \in {"high", "critical"}
                    => "monitoring_plan" \in d.requirements \/ "enhanced_monitoring" \in d.requirements
               /\ TierOf(d.policy, InherentScore(d.policy, d)) = "critical"
                    => "senior_risk_approval" \in d.requirements
    <3>1. PICK t \in Ratings :
             /\ d.levels = t.levels
             /\ d.requirements = DefaultRequirements[TierOf(d.policy, ResidualScore(d.policy, t))]
      BY <2>2 DEF DecisionsHold
    <3>2. d.policy \in Policies /\ InherentScore(d.policy, d) = InherentScore(d.policy, t)
      BY <3>1 DEF DecisionsHold, InherentScore
    <3>3. /\ "monitoring_plan" \in DefaultRequirements["medium"]
          /\ "monitoring_plan" \in DefaultRequirements["high"]
          /\ "enhanced_monitoring" \in DefaultRequirements["critical"]
          /\ "senior_risk_approval" \in DefaultRequirements["high"]
          /\ "senior_risk_approval" \in DefaultRequirements["critical"]
      BY DEF DefaultRequirements
    <3> QED BY <2>2, <3>1, <3>2, <3>3, OneTierAtMost
  <2> QED BY <2>1, <2>2 DEF DutiesFollowRisk, Duties
<1> QED BY <1>1, <1>2, <1>3, PTL DEF Spec

--------------------------------------------------------------------------------
\* Version numbers identify the elements of a history, and time advances along it.
Ordered(S) ==
  \A x, y \in S : /\ x.version = y.version => x = y
                  /\ x.version < y.version => x.registeredAt < y.registeredAt

ProfilesHold == profiles \subseteq ProviderProfiles

DependenciesHold ==
  /\ \A d \in dependencies :
       /\ d.version \in Nat /\ d.registeredAt \in Times
       /\ d.profile \in profiles /\ d.profile.registeredAt =< d.registeredAt
       /\ d.service.modelVersion \in versions
  /\ \A d, e \in dependencies : Identity(d) = Identity(e) =>
       /\ d.version = e.version => d = e
       /\ d.version < e.version /\ d.profile.providerId = e.profile.providerId
            => d.profile.version =< e.profile.version

ExitPlansHold ==
  /\ \A x \in exitPlans :
       /\ x.version \in Nat /\ x.registeredAt \in Times
       /\ x.testedAt # NotTested => x.testedAt \in Times
       /\ x.dependency \in dependencies
  /\ \A x, y \in exitPlans : Identity(x.dependency) = Identity(y.dependency) =>
       /\ x.version = y.version => x = y
       /\ x.version < y.version => x.dependency.version =< y.dependency.version

SnapshotsHold ==
  /\ Ordered(snapshots)
  /\ \A s \in snapshots :
       /\ s.version \in Nat /\ s.registeredAt \in Times
       /\ s.inventory = <<s.inventory[1], s.inventory[2]>>
       /\ s.inventory[1] \subseteq models /\ s.inventory[2] \subseteq versions
       /\ \A d \in DependenciesOf(s) : d \in dependencies /\ d.registeredAt =< s.registeredAt
  /\ \A s, t \in snapshots : s.version < t.version => /\ s.inventory[1] \subseteq t.inventory[1]
                                                      /\ s.inventory[2] \subseteq t.inventory[2]

AssessmentsHold ==
  \A a \in assessments :
    /\ a.snapshot \in snapshots
    /\ a.assessedAt \in Times /\ a.snapshot.registeredAt =< a.assessedAt
    /\ a.state # "incomplete" =>
         \A d \in DependenciesOf(a.snapshot) :
           /\ a.assessedAt < d.profile.diligenceUntil /\ a.assessedAt < d.profile.contractUntil
           /\ NeedsPlan(d) => \E x \in exitPlans : x.dependency = d /\ InForce(d, x, a.assessedAt)

PackagesHold == \A g \in packages : g.assessment \in assessments /\ g.plans \subseteq exitPlans

\* The positions of a book: finitely many, each with its part of the exposure, and
\* all of it together.
Whole(ps) ==
  /\ IsFiniteSet(ps)
  /\ \A p \in ps : p.weight \in 1 .. Total
  /\ Weight(ps) = Total

\* What the sums need: positions that are whole, finitely many dependencies under
\* them, and figures that are those of the snapshot, whatever the time.
RowsOf(s) == {[profile |-> p, bps |-> Exposure(s, p)] : p \in ProvidersOf(s)}
WeightsHold ==
  /\ IsFiniteSet(dependencies)
  /\ \A s \in snapshots : Whole(s.positions)
  /\ \A a \in assessments : /\ a.exposures = RowsOf(a.snapshot)
                            /\ a.thirdParty = ThirdParty(a.snapshot)
                            /\ a.highCritical = HighCritical(a.snapshot)

PortfolioInv ==
  /\ ProfilesHold /\ DependenciesHold /\ ExitPlansHold
  /\ SnapshotsHold /\ AssessmentsHold /\ PackagesHold /\ WeightsHold

\* Every registry of the portfolio, and the inventory, only grows.
Grows ==
  /\ models \subseteq models' /\ versions \subseteq versions'
  /\ profiles \subseteq profiles' /\ dependencies \subseteq dependencies'
  /\ exitPlans \subseteq exitPlans' /\ snapshots \subseteq snapshots'
  /\ assessments \subseteq assessments' /\ packages \subseteq packages'

--------------------------------------------------------------------------------
LEMMA WeightIsSum == \A ps : Weight(ps) = SumOf([p \in ps |-> p.weight], ps)
<1> SUFFICES ASSUME NEW ps PROVE Weight(ps) = SumOf([p \in ps |-> p.weight], ps)
  OBVIOUS
<1> DEFINE w == [p \in ps |-> p.weight]
           step(it) == [s \in SUBSET ps |->
                          IF s = {} THEN 0
                          ELSE LET x == CHOOSE y \in s : TRUE IN x.weight + it[s \ {x}]]
<1>1. Weight(ps) = (CHOOSE it : it = step(it))[ps]
  BY DEF Weight, MapThenSumSet, MapThenFoldSet
<1>2. ASSUME NEW it PROVE step(it) = Unfolded(w, it, ps)
  BY DEF Unfolded, Pick, Rest
<1> HIDE DEF w, step
<1>3. (CHOOSE it : it = step(it)) = (CHOOSE it : it = Unfolded(w, it, ps))
  BY <1>2
<1> QED BY <1>1, <1>3 DEF SumOf, Folded, w

LEMMA RowsSum ==
  \A rows : RowTotal(rows) = SumOf([row \in rows |-> row.bps], rows)
<1> SUFFICES ASSUME NEW rows
             PROVE  RowTotal(rows)
                      = SumOf([row \in rows |-> row.bps], rows)
  OBVIOUS
<1> DEFINE w == [row \in rows |-> row.bps]
           step(it) == [s \in SUBSET rows |->
                          IF s = {} THEN 0
                          ELSE LET x == CHOOSE y \in s : TRUE IN x.bps + it[s \ {x}]]
<1>1. RowTotal(rows) = (CHOOSE it : it = step(it))[rows]
  BY DEF RowTotal, MapThenSumSet, MapThenFoldSet
<1>2. ASSUME NEW it PROVE step(it) = Unfolded(w, it, rows)
  BY DEF Unfolded, Pick, Rest
<1> HIDE DEF w, step
<1>3. (CHOOSE it : it = step(it)) = (CHOOSE it : it = Unfolded(w, it, rows))
  BY <1>2
<1> QED BY <1>1, <1>3 DEF SumOf, Folded, w

WeightOf(ps) == [p \in ps |-> p.weight]

LEMMA PositionWeighs ==
  ASSUME NEW ps, Whole(ps), NEW p \in ps
  PROVE  p.weight \in Nat /\ p.weight >= 1
<1>1. p.weight \in 1 .. Total
  BY DEF Whole
<1>2. Total \in Nat
  BY DEF Total
<1> QED BY <1>1, <1>2

LEMMA WeightOfPart ==
  ASSUME NEW ps, Whole(ps), NEW qs \in SUBSET ps
  PROVE  /\ IsFiniteSet(qs) /\ Weights(WeightOf(ps), qs)
         /\ Weight(qs) = SumOf(WeightOf(ps), qs)
         /\ Weight(qs) \in Nat
<1>1. IsFiniteSet(qs)
  BY FS_Subset DEF Whole
<1>2. Weights(WeightOf(ps), qs) /\ Weights([p \in qs |-> p.weight], qs)
  BY PositionWeighs DEF Weights, WeightOf
<1>3. \A p \in qs : WeightOf(ps)[p] = [q \in qs |-> q.weight][p]
  BY DEF WeightOf
<1>4. SumOf(WeightOf(ps), qs) = SumOf([p \in qs |-> p.weight], qs)
  BY <1>1, <1>2, <1>3, SumOfSame
<1>5. Weight(qs) = SumOf([p \in qs |-> p.weight], qs)
  BY WeightIsSum
<1>6. SumOf(WeightOf(ps), qs) \in Nat
  BY <1>1, <1>2, SumType
<1> QED BY <1>1, <1>2, <1>4, <1>5, <1>6

\* Parts weigh no more than the whole of which they are parts.
LEMMA WeightIsMonotone ==
  ASSUME NEW ps, Whole(ps), NEW rs \in SUBSET ps, NEW qs \in SUBSET rs
  PROVE  Weight(qs) =< Weight(rs)
<1>1. SumOf(WeightOf(ps), qs) =< SumOf(WeightOf(ps), rs)
  BY WeightOfPart, SumOfPart
<1>2. qs \in SUBSET ps
  OBVIOUS
<1>3. Weight(qs) = SumOf(WeightOf(ps), qs) /\ Weight(rs) = SumOf(WeightOf(ps), rs)
  BY <1>2, WeightOfPart
<1> QED BY <1>1, <1>3

LEMMA WeightIsPositive ==
  ASSUME NEW ps, Whole(ps), NEW qs \in SUBSET ps, qs # {}
  PROVE  Weight(qs) > 0
<1> DEFINE w == WeightOf(ps)
<1>1. PICK p \in qs : TRUE
  OBVIOUS
<1>2. w[p] \in Nat /\ w[p] >= 1
  BY PositionWeighs DEF WeightOf
<1>3. IsFiniteSet(qs) /\ Weights(w, qs) /\ Weight(qs) = SumOf(w, qs)
  BY WeightOfPart
<1>4. SumOf(w, qs) = w[p] + SumOf(w, qs \ {p})
  BY <1>3, SumTakesOut
<1>5. SumOf(w, qs \ {p}) \in Nat
  <2>1. qs \ {p} \in SUBSET ps
    OBVIOUS
  <2>2. IsFiniteSet(qs \ {p}) /\ Weights(w, qs \ {p})
    BY <2>1, WeightOfPart
  <2> QED BY <2>2, SumType
<1> HIDE DEF w
<1> QED BY <1>2, <1>3, <1>4, <1>5

\* A book becomes a snapshot's positions, model by model, and weighs what it did.
LEMMA PresentedWhole ==
  ASSUME NEW b \in Books, NEW version, NEW at, NEW s \in Presentable(b, version, at)
  PROVE  Whole(s.positions)
<1>1. PICK ds \in SUBSET dependencies :
        s.positions = {[modelVersion |-> p.modelVersion, high |-> p.high, weight |-> p.weight,
                        dependencies |-> {d \in ds : d.service.modelVersion = p.modelVersion}] :
                         p \in b}
  BY DEF Presentable
<1> DEFINE w == WeightOf(b)
           v == WeightOf(s.positions)
           g == [p \in b |-> [modelVersion |-> p.modelVersion, high |-> p.high,
                              weight |-> p.weight,
                              dependencies |-> {d \in ds : d.service.modelVersion = p.modelVersion}]]
<1>2. WellFormedBook(b)
  BY BooksAssumption
<1>3. Whole(b)
  BY <1>2 DEF WellFormedBook, Whole
<1>4. s.positions = {g[p] : p \in b}
  BY <1>1
<1>5. \A p, q \in b : g[p] = g[q] => p = q
  <2> SUFFICES ASSUME NEW p \in b, NEW q \in b, g[p] = g[q] PROVE p = q
    OBVIOUS
  <2>1. g[p].modelVersion = p.modelVersion /\ g[q].modelVersion = q.modelVersion
    OBVIOUS
  <2>2. p.modelVersion = q.modelVersion
    BY <2>1
  <2> QED BY <1>2, <2>2 DEF WellFormedBook
<1>6. \A p \in b : v[g[p]] = w[p]
  <2> SUFFICES ASSUME NEW p \in b PROVE v[g[p]] = w[p]
    OBVIOUS
  <2>1. g[p] \in s.positions
    BY <1>4
  <2>2. v[g[p]] = g[p].weight
    BY <2>1 DEF WeightOf
  <2> QED BY <2>2 DEF WeightOf
<1>7. \A p \in s.positions : p.weight \in 1 .. Total
  BY <1>1, <1>3 DEF Whole
<1> HIDE DEF g, v, w
<1>8. IsFiniteSet(b) /\ Weights(w, b) /\ Weight(b) = SumOf(w, b)
  BY <1>3, WeightOfPart DEF w
<1>9. IsFiniteSet(s.positions) /\ SumOf(v, s.positions) = SumOf(w, b)
  <2>1. /\ IsFiniteSet({g[x] : x \in b})
        /\ Weights(v, {g[x] : x \in b})
        /\ SumOf(v, {g[x] : x \in b}) = SumOf(w, b)
    BY <1>5, <1>6, <1>8, SumOfImages
  <2> QED BY <1>4, <2>1
<1>10. Weight(s.positions) = SumOf(v, s.positions)
  BY WeightIsSum DEF v, WeightOf
<1> QED BY <1>3, <1>7, <1>8, <1>9, <1>10 DEF Whole

--------------------------------------------------------------------------------
LEMMA ProfileFields ==
  ASSUME NEW p \in ProviderProfiles
  PROVE  /\ p.version \in Nat /\ p.registeredAt \in Int
         /\ p.diligenceUntil \in Int /\ p.contractUntil \in Int
BY ProfilesAssumption, PortfolioTimeAssumption DEF WellFormedProfile, Times

\* What advances a history is behind all of it.
LEMMA AdvancesBehind ==
  ASSUME NEW S, \A y \in S : y.version \in Nat, NEW x, Advances(x, S)
  PROVE  /\ x.version \in Nat
         /\ \A y \in S : y.version < x.version
<1>1. CASE S = {}
  BY <1>1 DEF Advances
<1>2. CASE S # {}
  <2>1. PICK last \in S : Newest(last, S) /\ x.version = last.version + 1
    BY <1>2 DEF Advances
  <2> QED BY <2>1 DEF Newest
<1> QED BY <1>1, <1>2

\* An ordered history stays ordered when it is advanced.
LEMMA AdvancesOrdered ==
  ASSUME NEW S, \A y \in S : y.version \in Nat /\ y.registeredAt \in Int, Ordered(S),
         NEW x, x.registeredAt \in Int, Advances(x, S)
  PROVE  Ordered(S \cup {x})
<1>1. x.version \in Nat /\ \A y \in S : y.version < x.version
  BY AdvancesBehind
<1>2. ASSUME NEW y \in S PROVE y.registeredAt < x.registeredAt
  <2>1. PICK last \in S : Newest(last, S) /\ last.registeredAt < x.registeredAt
    BY <1>2 DEF Advances
  <2>2. y.version =< last.version
    BY <2>1 DEF Newest
  <2>3. y = last \/ y.registeredAt < last.registeredAt
    BY <2>2 DEF Ordered
  <2> QED BY <2>1, <2>3
<1> QED BY <1>1, <1>2 DEF Ordered

\* Two newest elements of a history in which versions identify are one.
LEMMA OneNewest ==
  ASSUME NEW S, \A y \in S : y.version \in Nat, \A y, z \in S : y.version = z.version => y = z,
         NEW x \in S, NEW w \in S, Newest(x, S), Newest(w, S)
  PROVE  x = w
<1>1. x.version =< w.version /\ w.version =< x.version
  BY DEF Newest
<1>2. x.version \in Nat /\ w.version \in Nat
  OBVIOUS
<1> QED BY <1>1, <1>2

--------------------------------------------------------------------------------
LEMMA PortfolioInit_Inv == PortfolioInit => PortfolioInv
BY FS_EmptySet
DEF PortfolioInit, PortfolioInv, ProfilesHold, DependenciesHold, ExitPlansHold, SnapshotsHold,
       AssessmentsHold, PackagesHold, WeightsHold, Ordered

LEMMA PortfolioNext_Grows == [PortfolioNext]_portfolioVars => Grows
<1> SUFFICES ASSUME [PortfolioNext]_portfolioVars PROVE Grows
  OBVIOUS
<1> USE DEF Grows, inventoryVars, registryVars
<1>1. CASE InventoryNext /\ UNCHANGED registryVars
  BY <1>1 DEF InventoryNext, RegisterModel, RegisterVersion
<1>2. ASSUME NEW p, RegisterProfile(p) PROVE Grows
  BY <1>2 DEF RegisterProfile
<1>3. ASSUME NEW d, RegisterDependency(d) PROVE Grows
  BY <1>3 DEF RegisterDependency
<1>4. ASSUME NEW x, RegisterExitPlan(x) PROVE Grows
  BY <1>4 DEF RegisterExitPlan
<1>5. ASSUME NEW s, RegisterSnapshot(s) PROVE Grows
  BY <1>5 DEF RegisterSnapshot
<1>6. ASSUME NEW s, NEW policy, NEW at, Assess(s, policy, at) PROVE Grows
  BY <1>6 DEF Assess
<1>7. ASSUME NEW a, NEW at, BuildPackage(a, at) PROVE Grows
  BY <1>7 DEF BuildPackage
<1>8. CASE UNCHANGED portfolioVars
  BY <1>8 DEF portfolioVars
<1> QED BY <1>1, <1>2, <1>3, <1>4, <1>5, <1>6, <1>7, <1>8 DEF PortfolioNext

\* Each part of the invariant is kept by a step that leaves its own history alone.
LEMMA KeptUnchanged ==
  ASSUME PortfolioInv, Grows
  PROVE  /\ UNCHANGED profiles => ProfilesHold'
         /\ UNCHANGED dependencies => DependenciesHold'
         /\ UNCHANGED exitPlans => ExitPlansHold'
         /\ UNCHANGED snapshots => SnapshotsHold'
         /\ UNCHANGED assessments => AssessmentsHold'
         /\ UNCHANGED packages => PackagesHold'
         /\ UNCHANGED <<dependencies, snapshots, assessments>> => WeightsHold'
<1> USE DEF PortfolioInv, Grows
<1>1. UNCHANGED profiles => ProfilesHold'
  BY DEF ProfilesHold
<1>2. UNCHANGED dependencies => DependenciesHold'
  BY DEF DependenciesHold
<1>3. UNCHANGED exitPlans => ExitPlansHold'
  BY DEF ExitPlansHold
<1>4. UNCHANGED snapshots => SnapshotsHold'
  BY DEF SnapshotsHold
<1>5. UNCHANGED assessments => AssessmentsHold'
  <2> SUFFICES ASSUME UNCHANGED assessments, NEW a \in assessments
               PROVE  /\ a.snapshot \in snapshots'
                      /\ a.assessedAt \in Times /\ a.snapshot.registeredAt =< a.assessedAt
                      /\ a.state # "incomplete" =>
                           \A d \in DependenciesOf(a.snapshot) :
                             /\ a.assessedAt < d.profile.diligenceUntil
                             /\ a.assessedAt < d.profile.contractUntil
                             /\ NeedsPlan(d) => \E x \in exitPlans' :
                                   x.dependency = d /\ InForce(d, x, a.assessedAt)
    BY DEF AssessmentsHold
  <2> QED BY DEF AssessmentsHold
<1>6. UNCHANGED packages => PackagesHold'
  BY DEF PackagesHold
<1>7. UNCHANGED <<dependencies, snapshots, assessments>> => WeightsHold'
  BY DEF WeightsHold
<1> QED BY <1>1, <1>2, <1>3, <1>4, <1>5, <1>6, <1>7

LEMMA RegisterProfile_Inv ==
  ASSUME PortfolioInv, Grows, NEW p \in ProviderProfiles, RegisterProfile(p)
  PROVE  PortfolioInv'
<1>1. ProfilesHold'
  BY DEF RegisterProfile, PortfolioInv, ProfilesHold
<1> QED BY <1>1, KeptUnchanged DEF RegisterProfile, PortfolioInv

LEMMA RegisterDependency_Inv ==
  ASSUME PortfolioInv, Grows, NEW d \in DependencyType, RegisterDependency(d)
  PROVE  PortfolioInv'
<1>1. /\ dependencies' = dependencies \cup {d}
      /\ d.profile \in profiles /\ d.registeredAt \in Times
      /\ d.profile.registeredAt =< d.registeredAt
      /\ d.service.modelVersion \in versions
      /\ CurrentProfile(d.profile)
      /\ Advances(d, DependencyHistory(d))
  BY DEF RegisterDependency, DependencyType
<1>2. d.version \in Nat /\ \A e \in DependencyHistory(d) : e.version < d.version
  BY <1>1, AdvancesBehind DEF DependencyHistory, PortfolioInv, DependenciesHold
<1>3. \A e \in dependencies : Identity(e) = Identity(d) =>
        /\ e.version < d.version
        /\ e.profile.providerId = d.profile.providerId => e.profile.version =< d.profile.version
  BY <1>1, <1>2
  DEF DependencyHistory, CurrentProfile, ProfileHistory, Newest, PortfolioInv, DependenciesHold
<1>4. \A e \in dependencies' :
        /\ e.version \in Nat /\ e.registeredAt \in Times
        /\ e.profile \in profiles' /\ e.profile.registeredAt =< e.registeredAt
        /\ e.service.modelVersion \in versions'
  BY <1>1, <1>2 DEF Grows, PortfolioInv, DependenciesHold
<1>5. d.profile.version \in Nat
  BY <1>1, ProfileFields DEF PortfolioInv, ProfilesHold
<1>6. \A e, f \in dependencies' : Identity(e) = Identity(f) =>
        /\ e.version = f.version => e = f
        /\ e.version < f.version /\ e.profile.providerId = f.profile.providerId
             => e.profile.version =< f.profile.version
  <2> SUFFICES ASSUME NEW e \in dependencies', NEW f \in dependencies',
                      Identity(e) = Identity(f)
               PROVE  /\ e.version = f.version => e = f
                      /\ e.version < f.version /\ e.profile.providerId = f.profile.providerId
                           => e.profile.version =< f.profile.version
    OBVIOUS
  <2>1. CASE e \in dependencies /\ f \in dependencies
    BY <2>1 DEF PortfolioInv, DependenciesHold
  <2>2. CASE e \in dependencies /\ f = d
    <3>1. e.version \in Nat
      BY <2>2 DEF PortfolioInv, DependenciesHold
    <3> QED BY <1>2, <1>3, <2>2, <3>1
  <2>3. CASE e = d /\ f \in dependencies
    <3>1. f.version \in Nat
      BY <2>3 DEF PortfolioInv, DependenciesHold
    <3> QED BY <1>2, <1>3, <2>3, <3>1
  <2>4. CASE e = d /\ f = d
    BY <1>2, <1>5, <2>4
  <2> QED BY <1>1, <2>1, <2>2, <2>3, <2>4
<1>7. DependenciesHold'
  BY <1>4, <1>6 DEF DependenciesHold, Identity
<1>8. WeightsHold'
  <2>1. IsFiniteSet(dependencies \cup {d})
    BY FS_AddElement DEF PortfolioInv, WeightsHold
  <2>2. IsFiniteSet(dependencies')
    BY <1>1, <2>1
  <2> QED BY <2>2 DEF RegisterDependency, PortfolioInv, WeightsHold
<1> QED BY <1>7, <1>8, KeptUnchanged DEF RegisterDependency, PortfolioInv

LEMMA RegisterExitPlan_Inv ==
  ASSUME PortfolioInv, Grows, NEW x \in PlanType, RegisterExitPlan(x)
  PROVE  PortfolioInv'
<1>1. /\ exitPlans' = exitPlans \cup {x}
      /\ x.dependency \in dependencies /\ x.registeredAt \in Times
      /\ x.testedAt # NotTested => x.testedAt \in Times
      /\ DependencyCurrent(x.dependency)
      /\ Advances(x, PlanHistory(x.dependency))
  BY DEF RegisterExitPlan, PlanType
<1>2. x.version \in Nat /\ \A y \in PlanHistory(x.dependency) : y.version < x.version
  BY <1>1, AdvancesBehind DEF PlanHistory, PortfolioInv, ExitPlansHold
<1>3. \A y \in exitPlans : Identity(y.dependency) = Identity(x.dependency) =>
        /\ y.version < x.version
        /\ y.dependency.version =< x.dependency.version
  BY <1>1, <1>2
  DEF PlanHistory, DependencyCurrent, DependencyHistory, Newest, PortfolioInv, ExitPlansHold
<1>4. \A y \in exitPlans' :
        /\ y.version \in Nat /\ y.registeredAt \in Times
        /\ y.testedAt # NotTested => y.testedAt \in Times
        /\ y.dependency \in dependencies'
  BY <1>1, <1>2 DEF Grows, PortfolioInv, ExitPlansHold
<1>5. x.dependency.version \in Nat
  BY <1>1 DEF PortfolioInv, DependenciesHold
<1>6. \A y, z \in exitPlans' : Identity(y.dependency) = Identity(z.dependency) =>
        /\ y.version = z.version => y = z
        /\ y.version < z.version => y.dependency.version =< z.dependency.version
  <2> SUFFICES ASSUME NEW y \in exitPlans', NEW z \in exitPlans',
                      Identity(y.dependency) = Identity(z.dependency)
               PROVE  /\ y.version = z.version => y = z
                      /\ y.version < z.version => y.dependency.version =< z.dependency.version
    OBVIOUS
  <2>1. CASE y \in exitPlans /\ z \in exitPlans
    BY <2>1 DEF PortfolioInv, ExitPlansHold
  <2>2. CASE y \in exitPlans /\ z = x
    <3>1. y.version \in Nat
      BY <2>2 DEF PortfolioInv, ExitPlansHold
    <3> QED BY <1>2, <1>3, <2>2, <3>1
  <2>3. CASE y = x /\ z \in exitPlans
    <3>1. z.version \in Nat
      BY <2>3 DEF PortfolioInv, ExitPlansHold
    <3> QED BY <1>2, <1>3, <2>3, <3>1
  <2>4. CASE y = x /\ z = x
    BY <1>2, <1>5, <2>4
  <2> QED BY <1>1, <2>1, <2>2, <2>3, <2>4
<1>7. ExitPlansHold'
  BY <1>4, <1>6 DEF ExitPlansHold, Identity
<1> QED BY <1>7, KeptUnchanged DEF RegisterExitPlan, PortfolioInv

LEMMA RegisterSnapshot_Inv ==
  ASSUME PortfolioInv, Grows, NEW b \in Books, NEW version, NEW at \in Times,
         NEW s \in Presentable(b, version, at), RegisterSnapshot(s)
  PROVE  PortfolioInv'
<1>1. /\ snapshots' = snapshots \cup {s}
      /\ s.inventory = <<models, versions>>
      /\ PositionsBound(s)
      /\ Advances(s, snapshots)
      /\ UNCHANGED <<inventoryVars, profiles, dependencies, exitPlans, assessments, packages>>
  BY DEF RegisterSnapshot, InventorySnapshot
<1>2. s.registeredAt \in Times
  BY DEF Presentable
<1>3. \A d \in DependenciesOf(s) : d \in dependencies /\ d.registeredAt =< s.registeredAt
  BY <1>1 DEF PositionsBound, DependencyCurrent, DependencyHistory, Newest, DependenciesOf
<1>4. Ordered(snapshots')
  <2>1. \A t \in snapshots : t.version \in Nat /\ t.registeredAt \in Int
    BY PortfolioTimeAssumption DEF PortfolioInv, SnapshotsHold, Times
  <2>2. s.registeredAt \in Int
    BY <1>2, PortfolioTimeAssumption DEF Times
  <2> QED BY <1>1, <2>1, <2>2, AdvancesOrdered DEF PortfolioInv, SnapshotsHold
<1>5. s.version \in Nat /\ \A t \in snapshots : t.version \in Nat /\ t.version < s.version
  BY <1>1, AdvancesBehind DEF PortfolioInv, SnapshotsHold
<1>6. \A t \in snapshots' :
        /\ t.version \in Nat /\ t.registeredAt \in Times
        /\ t.inventory = <<t.inventory[1], t.inventory[2]>>
        /\ t.inventory[1] \subseteq models' /\ t.inventory[2] \subseteq versions'
        /\ \A d \in DependenciesOf(t) : d \in dependencies' /\ d.registeredAt =< t.registeredAt
  BY <1>1, <1>2, <1>3, <1>5 DEF inventoryVars, PortfolioInv, SnapshotsHold
<1>7. \A t, u \in snapshots' : t.version < u.version =>
        /\ t.inventory[1] \subseteq u.inventory[1]
        /\ t.inventory[2] \subseteq u.inventory[2]
  BY <1>1, <1>5 DEF PortfolioInv, SnapshotsHold
<1>8. SnapshotsHold'
  BY <1>4, <1>6, <1>7 DEF SnapshotsHold, Ordered, DependenciesOf
<1>9. WeightsHold'
  BY <1>1, PresentedWhole DEF PortfolioInv, WeightsHold
<1> QED BY <1>1, <1>8, <1>9, KeptUnchanged DEF PortfolioInv

\* An assessment made at a time that is not incomplete found a plan in force for
\* every service that needs one.
LEMMA PlanFound ==
  ASSUME PortfolioInv, NEW d \in dependencies, NEW at \in Times, PlanFinding(d, at) = "none"
  PROVE  \E x \in exitPlans : x.dependency = d /\ InForce(d, x, at)
<1>1. CurrentPlan(d) # {}
  BY DEF PlanFinding
<1>2. PICK x \in CurrentPlan(d) : x = (CHOOSE y \in CurrentPlan(d) : TRUE)
  BY <1>1
<1>3. /\ ~ (x.registeredAt > at)
      /\ d.service.materiality = "critical" => x.testedAt # NotTested /\ ~ (x.testedAt > at)
  BY <1>1, <1>2 DEF PlanFinding
<1>4. x \in exitPlans /\ x.dependency = d
  BY DEF CurrentPlan, PlanHistory
<1>5. at \in Int /\ x.registeredAt \in Int /\ (x.testedAt # NotTested => x.testedAt \in Int)
  BY <1>4, PortfolioTimeAssumption DEF PortfolioInv, ExitPlansHold, Times
<1> QED BY <1>3, <1>4, <1>5 DEF InForce

LEMMA Assess_Inv ==
  ASSUME PortfolioInv, Grows, NEW s \in snapshots, NEW policy, NEW at \in Times,
         Assess(s, policy, at)
  PROVE  PortfolioInv'
<1> DEFINE a == Assessment(s, policy, at)
<1>1. /\ assessments' = assessments \cup {a}
      /\ s.registeredAt =< at
      /\ UNCHANGED <<inventoryVars, profiles, dependencies, exitPlans, snapshots, packages>>
  BY DEF Assess
<1>2. /\ a.snapshot = s /\ a.assessedAt = at
      /\ a.state # "incomplete" => Incomplete(s, at) = {}
  BY DEF Assessment
<1>3. ASSUME Incomplete(s, at) = {}, NEW d \in DependenciesOf(s)
      PROVE  /\ at < d.profile.diligenceUntil /\ at < d.profile.contractUntil
             /\ NeedsPlan(d) => \E x \in exitPlans : x.dependency = d /\ InForce(d, x, at)
  <2>1. /\ ~ (d.profile.diligenceUntil =< at) /\ ~ (d.profile.contractUntil =< at)
        /\ NeedsPlan(d) => PlanFinding(d, at) = "none"
    BY <1>3 DEF Incomplete
  <2>2. d \in dependencies
    BY DEF PortfolioInv, SnapshotsHold
  <2>3. at \in Int /\ d.profile.diligenceUntil \in Int /\ d.profile.contractUntil \in Int
    BY <2>2, ProfileFields, PortfolioTimeAssumption
    DEF PortfolioInv, DependenciesHold, ProfilesHold, Times
  <2> QED BY <2>1, <2>2, <2>3, PlanFound
<1>4. AssessmentsHold'
  <2> HIDE DEF a
  <2> SUFFICES ASSUME NEW c \in assessments'
               PROVE  /\ c.snapshot \in snapshots
                      /\ c.assessedAt \in Times /\ c.snapshot.registeredAt =< c.assessedAt
                      /\ c.state # "incomplete" =>
                           \A d \in DependenciesOf(c.snapshot) :
                             /\ c.assessedAt < d.profile.diligenceUntil
                             /\ c.assessedAt < d.profile.contractUntil
                             /\ NeedsPlan(d) => \E x \in exitPlans :
                                   x.dependency = d /\ InForce(d, x, c.assessedAt)
    BY <1>1 DEF AssessmentsHold
  <2>1. CASE c \in assessments
    BY <2>1 DEF PortfolioInv, AssessmentsHold
  <2>2. CASE c = a
    BY <1>1, <1>2, <1>3, <2>2
  <2> QED BY <1>1, <2>1, <2>2
<1>5. WeightsHold'
  <2>1. /\ a.exposures = RowsOf(s) /\ a.thirdParty = ThirdParty(s)
        /\ a.highCritical = HighCritical(s)
    BY DEF Assessment, RowsOf
  <2> HIDE DEF a
  <2> QED BY <1>1, <1>2, <2>1 DEF PortfolioInv, WeightsHold
<1> QED BY <1>1, <1>4, <1>5, KeptUnchanged DEF PortfolioInv

LEMMA BuildPackage_Inv ==
  ASSUME PortfolioInv, Grows, NEW a \in assessments, NEW at, BuildPackage(a, at)
  PROVE  PortfolioInv'
<1>1. PackagesHold'
  <2>1. /\ packages' = packages \cup {Package(a, at)}
        /\ UNCHANGED <<exitPlans, assessments>>
    BY DEF BuildPackage
  <2>2. Package(a, at).assessment = a /\ Package(a, at).plans \subseteq exitPlans
    BY DEF Package, CurrentPlan, PlanHistory
  <2> QED BY <2>1, <2>2 DEF PortfolioInv, PackagesHold
<1> QED BY <1>1, KeptUnchanged DEF BuildPackage, PortfolioInv

LEMMA PortfolioNext_Inv == PortfolioInv /\ [PortfolioNext]_portfolioVars => PortfolioInv'
<1> SUFFICES ASSUME PortfolioInv, [PortfolioNext]_portfolioVars PROVE PortfolioInv'
  OBVIOUS
<1>1. Grows
  BY PortfolioNext_Grows
<1>2. CASE InventoryNext /\ UNCHANGED registryVars
  BY <1>1, <1>2, KeptUnchanged DEF PortfolioInv, registryVars
<1>3. ASSUME NEW p \in ProviderProfiles, RegisterProfile(p) PROVE PortfolioInv'
  BY <1>1, <1>3, RegisterProfile_Inv
<1>4. ASSUME NEW d \in DependencyType, RegisterDependency(d) PROVE PortfolioInv'
  BY <1>1, <1>4, RegisterDependency_Inv
<1>5. ASSUME NEW x \in PlanType, RegisterExitPlan(x) PROVE PortfolioInv'
  BY <1>1, <1>5, RegisterExitPlan_Inv
<1>6. ASSUME NEW b \in Books, NEW version \in 1 .. MaxVersions, NEW at \in Times,
             NEW s \in Presentable(b, version, at), RegisterSnapshot(s)
      PROVE  PortfolioInv'
  BY <1>1, <1>6, RegisterSnapshot_Inv
<1>7. ASSUME NEW s \in snapshots, NEW policy \in PortfolioPolicies, NEW at \in Times,
             Assess(s, policy, at)
      PROVE  PortfolioInv'
  BY <1>1, <1>7, Assess_Inv
<1>8. ASSUME NEW a \in assessments, NEW at \in Times, BuildPackage(a, at) PROVE PortfolioInv'
  BY <1>1, <1>8, BuildPackage_Inv
<1>9. CASE UNCHANGED portfolioVars
  BY <1>1, <1>9, KeptUnchanged DEF PortfolioInv, portfolioVars, registryVars
<1> QED BY <1>2, <1>3, <1>4, <1>5, <1>6, <1>7, <1>8, <1>9 DEF PortfolioNext

LEMMA PortfolioInvariant == PortfolioSpec => []PortfolioInv
<1> QED BY PortfolioInit_Inv, PortfolioNext_Inv, PTL DEF PortfolioSpec

--------------------------------------------------------------------------------
\* No later version of a dependency, of an exit plan or of a snapshot is bound to
\* something older than an earlier version was, although no registration compares
\* the two (register_dependency, register_exit_plan, register_snapshot).
THEOREM BindingsAdvance == PortfolioSpec => []BindingsNeverRollBack
<1>1. PortfolioInv => BindingsNeverRollBack
  BY DEF PortfolioInv, DependenciesHold, ExitPlansHold, SnapshotsHold, Ordered,
         BindingsNeverRollBack
<1> QED BY <1>1, PortfolioInvariant, PTL

\* An assessment that is not incomplete rests on evidence that was there, unexpired
\* and in force when it was made (assess_portfolio).
THEOREM NoFutureEvidence == PortfolioSpec => []AssessedOnEvidenceOfItsTime
<1>1. PortfolioInv => AssessedOnEvidenceOfItsTime
  <2> SUFFICES ASSUME PortfolioInv, NEW a \in assessments, a.state # "incomplete",
                      NEW d \in DependenciesOf(a.snapshot)
               PROVE  /\ d.registeredAt =< a.snapshot.registeredAt
                      /\ a.snapshot.registeredAt =< a.assessedAt
                      /\ d.profile.registeredAt =< a.assessedAt
                      /\ a.assessedAt < d.profile.diligenceUntil
                      /\ a.assessedAt < d.profile.contractUntil
                      /\ NeedsPlan(d) => \E x \in exitPlans : /\ x.dependency = d
                                                              /\ InForce(d, x, a.assessedAt)
    BY DEF AssessedOnEvidenceOfItsTime
  <2>1. a.snapshot \in snapshots /\ a.assessedAt \in Times
    BY DEF PortfolioInv, AssessmentsHold
  <2>2. d \in dependencies /\ d.registeredAt =< a.snapshot.registeredAt
    BY <2>1 DEF PortfolioInv, SnapshotsHold
  <2>3. /\ d.profile.registeredAt =< d.registeredAt
        /\ d.profile.registeredAt \in Int /\ d.registeredAt \in Int
        /\ a.snapshot.registeredAt \in Int /\ a.assessedAt \in Int
    BY <2>1, <2>2, ProfileFields, PortfolioTimeAssumption
    DEF PortfolioInv, ProfilesHold, DependenciesHold, SnapshotsHold, Times
  <2>4. a.snapshot.registeredAt =< a.assessedAt
    BY DEF PortfolioInv, AssessmentsHold
  <2> QED BY <2>2, <2>3, <2>4 DEF PortfolioInv, AssessmentsHold
<1> QED BY <1>1, PortfolioInvariant, PTL

--------------------------------------------------------------------------------
\* A dependency that is current after a step was current before.
LEMMA CurrentWasCurrent ==
  ASSUME PortfolioInv, Grows, NEW d \in dependencies, DependencyCurrent(d)'
  PROVE  DependencyCurrent(d)
<1>1. d.profile \in profiles /\ d.service.modelVersion \in versions
  BY DEF PortfolioInv, DependenciesHold
<1>2. Newest(d, DependencyHistory(d))
  BY DEF DependencyCurrent, DependencyHistory, Newest, Grows
<1>3. CurrentProfile(d.profile)
  BY <1>1 DEF DependencyCurrent, CurrentProfile, ProfileHistory, Newest, Grows
<1> QED BY <1>1, <1>2, <1>3 DEF DependencyCurrent

\* So was a snapshot: what it binds has only grown, and it binds all of it.
LEMMA SnapshotWasCurrent ==
  ASSUME PortfolioInv, Grows, NEW s \in snapshots, SnapshotCurrent(s)'
  PROVE  SnapshotCurrent(s)
<1>1. Newest(s, snapshots)
  BY DEF SnapshotCurrent, Newest, Grows
<1>2. s.inventory = InventorySnapshot
  <2>1. /\ s.inventory = <<s.inventory[1], s.inventory[2]>>
        /\ s.inventory[1] \subseteq models /\ s.inventory[2] \subseteq versions
    BY DEF PortfolioInv, SnapshotsHold
  <2>2. s.inventory[1] = models' /\ s.inventory[2] = versions'
    BY DEF SnapshotCurrent, InventorySnapshot
  <2>3. s.inventory[1] = models /\ s.inventory[2] = versions
    BY <2>1, <2>2 DEF Grows
  <2> QED BY <2>1, <2>3 DEF InventorySnapshot
<1>3. \A d \in DependenciesOf(s) : DependencyCurrent(d)
  BY CurrentWasCurrent DEF SnapshotCurrent, PortfolioInv, SnapshotsHold
<1> QED BY <1>1, <1>2, <1>3 DEF SnapshotCurrent

\* While a dependency is current, the only thing that changes its current exit plan
\* is a new plan of its own.
LEMMA PlanKeptOrNew ==
  ASSUME PortfolioInv, [PortfolioNext]_portfolioVars, NEW d \in dependencies, DependencyCurrent(d),
         CurrentPlan(d)' \subseteq exitPlans
  PROVE  CurrentPlan(d)' = CurrentPlan(d)
<1>1. CASE UNCHANGED exitPlans
  BY <1>1 DEF CurrentPlan, PlanHistory
<1>2. ASSUME NEW x \in PlanType, RegisterExitPlan(x) PROVE CurrentPlan(d)' = CurrentPlan(d)
  <2>1. /\ exitPlans' = exitPlans \cup {x}
        /\ x.dependency \in dependencies
        /\ DependencyCurrent(x.dependency)
        /\ Advances(x, PlanHistory(x.dependency))
    BY <1>2 DEF RegisterExitPlan, PlanType
  <2>2. CASE Identity(x.dependency) # Identity(d)
    <3>1. PlanHistory(d)' = PlanHistory(d)
      BY <2>1, <2>2 DEF PlanHistory, Identity
    <3> QED BY <3>1 DEF CurrentPlan
  <2>3. CASE Identity(x.dependency) = Identity(d)
    <3>1. x.dependency = d
      <4>1. DependencyHistory(x.dependency) = DependencyHistory(d)
        BY <2>3 DEF DependencyHistory
      <4>2. /\ \A y \in DependencyHistory(d) : y.version \in Nat
            /\ \A y, z \in DependencyHistory(d) : y.version = z.version => y = z
        BY DEF DependencyHistory, PortfolioInv, DependenciesHold
      <4> QED BY <2>1, <4>1, <4>2, OneNewest DEF DependencyCurrent, Newest
    <3>2. x.version \in Nat /\ \A y \in PlanHistory(d) : y.version < x.version
      BY <2>1, <3>1, AdvancesBehind DEF PlanHistory, PortfolioInv, ExitPlansHold
    <3>3. PlanHistory(d)' = PlanHistory(d) \cup {x}
      BY <2>1, <2>3 DEF PlanHistory, Identity
    <3>4. x \in CurrentPlan(d)'
      <4>1. \A y \in PlanHistory(d) : y.version \in Nat
        BY DEF PlanHistory, PortfolioInv, ExitPlansHold
      <4> QED BY <3>1, <3>2, <3>3, <4>1 DEF CurrentPlan, Newest
    <3>5. x \notin exitPlans
      BY <2>3, <3>2 DEF PlanHistory
    <3> QED BY <3>4, <3>5
  <2> QED BY <2>2, <2>3
<1>3. UNCHANGED exitPlans \/ \E x \in PlanType : RegisterExitPlan(x)
  BY DEF PortfolioNext, portfolioVars, registryVars, RegisterProfile, RegisterDependency,
         RegisterSnapshot, Assess, BuildPackage
<1> QED BY <1>1, <1>2, <1>3

\* An assessment made again finds the same where the current exit plans are the
\* same: nothing else it reads can change.
LEMMA AssessedTheSame ==
  ASSUME NEW s, NEW policy, NEW at,
         \A d \in DependenciesOf(s) : CurrentPlan(d)' = CurrentPlan(d)
  PROVE  Assessment(s, policy, at)' = Assessment(s, policy, at)
<1>1. \A d \in DependenciesOf(s) : PlanFinding(d, at)' = PlanFinding(d, at)
  BY DEF PlanFinding
<1>2. Incomplete(s, at)' = Incomplete(s, at)
  BY <1>1 DEF Incomplete
<1> QED BY <1>2 DEF Assessment

\* A package, or a snapshot, that is stale stays so: the exit plans a package holds
\* are those that are current only as long as none is registered after them
\* (verify_evidence_package, assert_snapshot_current).
THEOREM StalenessIsForGood == PortfolioSpec => StaleForGood
<1>1. ASSUME PortfolioInv, [PortfolioNext]_portfolioVars
      PROVE  /\ \A s \in snapshots : SnapshotCurrent(s)' => SnapshotCurrent(s)
             /\ \A g \in packages : PackageVerifies(g)' => PackageVerifies(g)
  <2>1. Grows
    BY <1>1, PortfolioNext_Grows
  <2>2. \A s \in snapshots : SnapshotCurrent(s)' => SnapshotCurrent(s)
    BY <1>1, <2>1, SnapshotWasCurrent
  <2>3. ASSUME NEW g \in packages, PackageVerifies(g)' PROVE PackageVerifies(g)
    <3> DEFINE a == g.assessment
               s == a.snapshot
    <3>1. s \in snapshots /\ g.plans \subseteq exitPlans
      BY <1>1 DEF PortfolioInv, PackagesHold, AssessmentsHold
    <3>2. /\ SnapshotCurrent(s)'
          /\ a = Assessment(s, a.policy, a.assessedAt)'
          /\ g = Package(a, g.generatedAt)'
      BY <2>3 DEF PackageVerifies, Reproduces
    <3>3. SnapshotCurrent(s)
      BY <2>2, <3>1, <3>2
    <3>4. ASSUME NEW d \in DependenciesOf(s) PROVE CurrentPlan(d)' = CurrentPlan(d)
      <4>1. d \in dependencies /\ DependencyCurrent(d)
        BY <1>1, <3>1, <3>3 DEF PortfolioInv, SnapshotsHold, SnapshotCurrent
      <4>2. g.plans = UNION {CurrentPlan(e)' : e \in DependenciesOf(s)}
        BY <3>2 DEF Package
      <4>3. CurrentPlan(d)' \subseteq exitPlans
        BY <3>1, <4>2
      <4> QED BY <1>1, <4>1, <4>3, PlanKeptOrNew
    <3>5. a = Assessment(s, a.policy, a.assessedAt)
      BY <3>2, <3>4, AssessedTheSame
    <3>6. g = Package(a, g.generatedAt)
      BY <3>2, <3>4 DEF Package
    <3> QED BY <3>3, <3>5, <3>6 DEF PackageVerifies, Reproduces
  <2> QED BY <2>2, <2>3
<1> QED BY <1>1, PortfolioInvariant, PTL DEF PortfolioSpec, StaleForGood

--------------------------------------------------------------------------------
\* How the exposures of one snapshot relate.
LEMMA SnapshotAddsUp ==
  ASSUME PortfolioInv, NEW s \in snapshots
  PROVE  /\ \A p \in ProvidersOf(s) : Exposure(s, p) > 0 /\ Exposure(s, p) =< ThirdParty(s)
         /\ ThirdParty(s) =< RowTotal(RowsOf(s))
         /\ ThirdParty(s) =< Total /\ HighCritical(s) =< Total
<1> DEFINE ps == s.positions
           served == {p \in ps : p.dependencies # {}}
           part == [q \in ProvidersOf(s) |-> {p \in ps : On(p, q)}]
           w == WeightOf(ps)
<1>1. Whole(ps) /\ Weight(ps) = Total
  BY DEF PortfolioInv, WeightsHold, Whole
<1>2. /\ ThirdParty(s) = Weight(served) /\ served \in SUBSET ps
      /\ HighCritical(s) = Weight({p \in ps : p.high})
  BY DEF ThirdParty, HighCritical
<1>3. ThirdParty(s) =< Total /\ HighCritical(s) =< Total
  <2>1. Weight(served) =< Weight(ps) /\ Weight({p \in ps : p.high}) =< Weight(ps)
    BY <1>1, WeightIsMonotone
  <2> QED BY <1>1, <1>2, <2>1
<1>4. ASSUME NEW q \in ProvidersOf(s)
      PROVE  /\ part[q] \in SUBSET served /\ part[q] # {}
             /\ Exposure(s, q) = Weight(part[q])
             /\ Exposure(s, q) > 0 /\ Exposure(s, q) =< ThirdParty(s)
  <2>1. part[q] \in SUBSET served /\ part[q] # {}
    BY DEF On, ProvidersOf, DependenciesOf
  <2>2. Exposure(s, q) = Weight(part[q])
    BY DEF Exposure
  <2>3. Weight(part[q]) > 0
    BY <1>1, <1>2, <2>1, WeightIsPositive
  <2>4. Weight(part[q]) =< Weight(served)
    BY <1>1, <1>2, <2>1, WeightIsMonotone
  <2> QED BY <1>2, <2>1, <2>2, <2>3, <2>4
<1>5. IsFiniteSet(ProvidersOf(s))
  <2>1. DependenciesOf(s) \subseteq dependencies
    BY DEF PortfolioInv, SnapshotsHold
  <2>2. IsFiniteSet(DependenciesOf(s))
    BY <2>1, FS_Subset DEF PortfolioInv, WeightsHold
  <2> DEFINE g == [d \in DependenciesOf(s) |-> d.profile]
  <2>3. g \in Surjection(DependenciesOf(s), ProvidersOf(s))
    BY DEF ProvidersOf, Surjection
  <2> QED BY <2>2, <2>3, FS_Surjection
<1> DEFINE v == [q \in ProvidersOf(s) |-> SumOf(w, part[q])]
<1>6. UNION {part[q] : q \in ProvidersOf(s)} = served
  <2>1. ASSUME NEW p \in served PROVE p \in UNION {part[q] : q \in ProvidersOf(s)}
    <3>1. PICK d \in p.dependencies : TRUE
      OBVIOUS
    <3>2. d.profile \in ProvidersOf(s) /\ p \in part[d.profile]
      BY DEF On, ProvidersOf, DependenciesOf
    <3> QED BY <3>2
  <2>2. UNION {part[q] : q \in ProvidersOf(s)} \subseteq served
    BY <1>4
  <2> QED BY <2>1, <2>2
<1>7. Weights(v, ProvidersOf(s)) /\ SumOf(w, served) =< SumOf(v, ProvidersOf(s))
  <2>1. IsFiniteSet(ps) /\ Weights(w, ps)
    BY <1>1, WeightOfPart
  <2>2. \A q \in ProvidersOf(s) : part[q] \in SUBSET ps
    BY <1>2, <1>4
  <2> HIDE DEF part, w
  <2>3. /\ Weights(v, ProvidersOf(s))
        /\ SumOf(w, UNION {part[q] : q \in ProvidersOf(s)}) =< SumOf(v, ProvidersOf(s))
    BY <1>5, <2>1, <2>2, SumOfCover
  <2> QED BY <1>6, <2>3
<1>8. \A q \in ProvidersOf(s) : v[q] = Exposure(s, q)
  BY <1>1, <1>2, <1>4, WeightOfPart
<1>9. SumOf(v, ProvidersOf(s)) = SumOf([row \in RowsOf(s) |-> row.bps], RowsOf(s))
  <2> DEFINE g == [q \in ProvidersOf(s) |-> [profile |-> q, bps |-> Exposure(s, q)]]
             u == [row \in RowsOf(s) |-> row.bps]
  <2>1. RowsOf(s) = {g[q] : q \in ProvidersOf(s)}
    BY DEF RowsOf
  <2>2. \A q, r \in ProvidersOf(s) : g[q] = g[r] => q = r
    <3> SUFFICES ASSUME NEW q \in ProvidersOf(s), NEW r \in ProvidersOf(s), g[q] = g[r]
                 PROVE  q = r
      OBVIOUS
    <3>1. g[q].profile = q /\ g[r].profile = r
      OBVIOUS
    <3> QED BY <3>1
  <2>3. \A q \in ProvidersOf(s) : u[g[q]] = v[q]
    <3> SUFFICES ASSUME NEW q \in ProvidersOf(s) PROVE u[g[q]] = v[q]
      OBVIOUS
    <3>1. g[q] \in RowsOf(s) /\ g[q].bps = Exposure(s, q)
      BY <2>1
    <3> QED BY <1>8, <3>1
  <2> HIDE DEF g, u, v
  <2>4. /\ IsFiniteSet({g[x] : x \in ProvidersOf(s)})
        /\ Weights(u, {g[x] : x \in ProvidersOf(s)})
        /\ SumOf(u, {g[x] : x \in ProvidersOf(s)}) = SumOf(v, ProvidersOf(s))
    BY <1>5, <1>7, <2>2, <2>3, SumOfImages
  <2> QED BY <2>1, <2>4 DEF u
<1>10. ThirdParty(s) =< RowTotal(RowsOf(s))
  <2>1. Weight(served) = SumOf(w, served)
    BY <1>1, <1>2, WeightOfPart
  <2> HIDE DEF w, v, served
  <2> QED BY <1>2, <1>7, <1>9, <2>1, RowsSum
<1> QED BY <1>3, <1>4, <1>10

\* The exposures of an assessment add up, for books of any size and whatever
\* services the models share: a provider's part lies in the third-party part, the
\* providers' parts cover it, and nobody's exceeds the whole (assess_portfolio).
THEOREM ExposuresAreSums == PortfolioSpec => []ExposuresAddUp
<1>1. PortfolioInv => ExposuresAddUp
  <2> SUFFICES ASSUME PortfolioInv, NEW a \in assessments
               PROVE  /\ \A row \in a.exposures : row.bps > 0 /\ row.bps =< a.thirdParty
                      /\ a.thirdParty =< RowTotal(a.exposures)
                      /\ a.thirdParty =< Total /\ a.highCritical =< Total
    BY DEF ExposuresAddUp
  <2>1. /\ a.snapshot \in snapshots
        /\ a.exposures = RowsOf(a.snapshot)
        /\ a.thirdParty = ThirdParty(a.snapshot)
        /\ a.highCritical = HighCritical(a.snapshot)
    BY DEF PortfolioInv, AssessmentsHold, WeightsHold
  <2>2. \A row \in RowsOf(a.snapshot) :
          \E p \in ProvidersOf(a.snapshot) : row.bps = Exposure(a.snapshot, p)
    BY DEF RowsOf
  <2>3. /\ \A p \in ProvidersOf(a.snapshot) :
             /\ Exposure(a.snapshot, p) > 0
             /\ Exposure(a.snapshot, p) =< ThirdParty(a.snapshot)
        /\ ThirdParty(a.snapshot)
             =< RowTotal(RowsOf(a.snapshot))
        /\ ThirdParty(a.snapshot) =< Total /\ HighCritical(a.snapshot) =< Total
    BY <2>1, SnapshotAddsUp
  <2> QED BY <2>1, <2>2, <2>3
<1> QED BY <1>1, PortfolioInvariant, PTL
================================================================================
