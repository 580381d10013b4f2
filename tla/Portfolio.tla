------------------------------- MODULE Portfolio -------------------------------
(***************************************************************************)
(* Third-party dependencies and the risk of a portfolio of models          *)
(* (portfolio.py, class PortfolioRiskRegistry) over the inventory.         *)
(* Provider profiles, dependencies, exit plans and snapshots are versioned *)
(* histories that anyone extends in any order, each binding the current    *)
(* elements of others.  Assessments and evidence packages are not kept by  *)
(* the registry: they are what its callers hold.  A record holds the       *)
(* records whose digests it carries; one institution and one portfolio.    *)
(***************************************************************************)
EXTENDS Inventory, Integers, FiniteSets, FiniteSetsExt

CONSTANTS
  MaxTime,           \* the bound on every timestamp
  ProviderProfiles,  \* the provider profiles callers present
  Services,          \* contents of dependencies: [dependencyId, modelVersion,
                     \* providerId, materiality, substitutable]
  NotTested,         \* the tested_at of a plan without a test (None)
  Books,             \* sets of positions without evidence: [modelVersion, high, weight]
  PortfolioPolicies, \* [warning, limit, highLimit] in basis points
  MaxVersions,       \* a bound on the versions of a dependency, a plan, a snapshot
  MaxAssessments, MaxPackages  \* bounds on what callers hold

Times == 0 .. MaxTime
Total == 10000

\* ThirdPartyProviderProfile.__post_init__.
WellFormedProfile(p) ==
  /\ p.version \in Nat \ {0} /\ p.registeredAt \in Times
  /\ p.diligenceUntil \in Nat /\ p.registeredAt < p.diligenceUntil
  /\ p.contractUntil \in Nat /\ p.registeredAt < p.contractUntil

Weight(ps) == MapThenSumSet(LAMBDA p : p.weight, ps)

\* PortfolioSnapshot.__post_init__: one version per model, and all of the exposure.
WellFormedBook(b) ==
  /\ b # {} /\ IsFiniteSet(b)
  /\ \A p, q \in b : p.modelVersion.modelId = q.modelVersion.modelId => p = q
  /\ \A p \in b : p.weight \in 1 .. Total
  /\ Weight(b) = Total

\* PortfolioRiskPolicy.__post_init__.
WellFormedPortfolioPolicy(policy) ==
  /\ policy.warning \in 1 .. Total /\ policy.limit \in 1 .. Total
  /\ policy.highLimit \in 1 .. Total
  /\ policy.warning < policy.limit

ASSUME PortfolioTimeAssumption == MaxTime \in Nat
ASSUME ProfilesAssumption == \A p \in ProviderProfiles : WellFormedProfile(p)
ASSUME BooksAssumption == \A b \in Books : WellFormedBook(b)
ASSUME PortfolioPoliciesAssumption ==
  \A policy \in PortfolioPolicies : WellFormedPortfolioPolicy(policy)

VARIABLES
  profiles,      \* _provider_profiles
  dependencies,  \* _dependencies
  exitPlans,     \* _exit_plans
  snapshots,     \* _snapshots
  assessments,   \* PortfolioAssessment
  packages       \* PortfolioEvidencePackage

registryVars == <<profiles, dependencies, exitPlans, snapshots, assessments, packages>>
portfolioVars == <<inventoryVars, registryVars>>

PortfolioInit ==
  /\ InventoryInit
  /\ profiles = {} /\ dependencies = {} /\ exitPlans = {}
  /\ snapshots = {} /\ assessments = {} /\ packages = {}

\* The current element of a history, and what may be appended to it: versions
\* are contiguous and time strictly advances.  A registered element presented
\* again is returned, whatever has drifted since, and changes nothing.
Newest(x, S) == x \in S /\ \A y \in S : y.version =< x.version
Advances(x, S) ==
  IF S = {}
    THEN x.version = 1
    ELSE \E last \in S : /\ Newest(last, S)
                         /\ x.version = last.version + 1
                         /\ last.registeredAt < x.registeredAt

--------------------------------------------------------------------------------
ProfileHistory(p) == {q \in profiles : q.providerId = p.providerId}
CurrentProfile(p) == Newest(p, ProfileHistory(p))

\* register_provider_profile.
RegisterProfile(p) ==
  /\ Advances(p, ProfileHistory(p))
  /\ profiles' = profiles \cup {p}
  /\ UNCHANGED <<inventoryVars, dependencies, exitPlans, snapshots, assessments, packages>>

\* The identity of a dependency, under which it and its exit plans are versioned.
Identity(d) == <<d.service.modelVersion.modelId, d.service.modelVersion.versionId,
                 d.service.dependencyId>>
DependencyHistory(d) == {e \in dependencies : Identity(e) = Identity(d)}

DependencyType ==
  {d \in [service : Services, profile : profiles, version : 1 .. MaxVersions,
          registeredAt : Times] : d.profile.providerId = d.service.providerId}

\* register_dependency.
RegisterDependency(d) ==
  /\ d.service.modelVersion \in versions
  /\ CurrentProfile(d.profile)
  /\ d.profile.registeredAt =< d.registeredAt
  /\ Advances(d, DependencyHistory(d))
  /\ dependencies' = dependencies \cup {d}
  /\ UNCHANGED <<inventoryVars, profiles, exitPlans, snapshots, assessments, packages>>

\* assert_dependency_current.
DependencyCurrent(d) ==
  /\ Newest(d, DependencyHistory(d))
  /\ CurrentProfile(d.profile)
  /\ d.service.modelVersion \in versions

\* Exit plans are versioned along the identity, across the dependency's versions;
\* registeredAt is created_at.
PlanHistory(d) == {x \in exitPlans : Identity(x.dependency) = Identity(d)}

PlanType == {x \in [dependency : dependencies, version : 1 .. MaxVersions,
                    registeredAt : Times, testedAt : Times \cup {NotTested}] :
               x.testedAt # NotTested => x.registeredAt =< x.testedAt}

\* A mutant of the registration: plans count per version of the dependency.
RegisterPlanPerVersion(x) ==
  /\ DependencyCurrent(x.dependency)
  /\ x.dependency.registeredAt =< x.registeredAt
  /\ Advances(x, {y \in exitPlans : y.dependency = x.dependency})
  /\ exitPlans' = exitPlans \cup {x}
  /\ UNCHANGED <<inventoryVars, profiles, dependencies, snapshots, assessments, packages>>

\* A mutant: another content of a version replaces it.
OverwritePlan(x) ==
  LET others == {y \in PlanHistory(x.dependency) : y.version # x.version} IN
  /\ DependencyCurrent(x.dependency)
  /\ x.dependency.registeredAt =< x.registeredAt
  /\ Advances(x, others)
  /\ exitPlans' = (exitPlans \ PlanHistory(x.dependency)) \cup others \cup {x}
  /\ UNCHANGED <<inventoryVars, profiles, dependencies, snapshots, assessments, packages>>

\* register_exit_plan.
RegisterExitPlan(x) ==
  /\ DependencyCurrent(x.dependency)
  /\ x.dependency.registeredAt =< x.registeredAt
  /\ Advances(x, PlanHistory(x.dependency))
  /\ exitPlans' = exitPlans \cup {x}
  /\ UNCHANGED <<inventoryVars, profiles, dependencies, snapshots, assessments, packages>>

\* A mutant: the newest plan of the identity serves every version.
AnyVersionsPlan(d) == {x \in PlanHistory(d) : Newest(x, PlanHistory(d))}

\* current_exit_plan: at most one, none if the newest plan is that of another
\* version of the dependency.
CurrentPlan(d) == {x \in PlanHistory(d) : Newest(x, PlanHistory(d)) /\ x.dependency = d}

--------------------------------------------------------------------------------
DependenciesOf(s) == UNION {p.dependencies : p \in s.positions}

\* The evidence register_snapshot asks of the positions: which of a model's
\* dependencies a position names is the caller's choice.
PositionsBound(s) ==
  \A p \in s.positions :
    /\ p.modelVersion \in versions
    /\ \A d \in p.dependencies : /\ DependencyCurrent(d)
                                 /\ d.service.modelVersion = p.modelVersion
                                 /\ d.registeredAt =< s.registeredAt

\* register_snapshot; registeredAt is as_of_time.  The risk decision of a position
\* is modelled by what is read of it, whether its tier is high or critical.
RegisterSnapshot(s) ==
  /\ s.inventory = InventorySnapshot
  /\ PositionsBound(s)
  /\ Advances(s, snapshots)
  /\ snapshots' = snapshots \cup {s}
  /\ UNCHANGED <<inventoryVars, profiles, dependencies, exitPlans, assessments, packages>>

\* assert_snapshot_current.
SnapshotCurrent(s) ==
  /\ Newest(s, snapshots)
  /\ s.inventory = InventorySnapshot
  /\ \A d \in DependenciesOf(s) : DependencyCurrent(d)

--------------------------------------------------------------------------------
\* What assess_portfolio derives at a time.
ProvidersOf(s) == {d.profile : d \in DependenciesOf(s)}
On(p, profile) == \E d \in p.dependencies : d.profile = profile

\* A mutant of the exposure: a model counts once per service of the provider.
ExposurePerService(s, profile) ==
  MapThenSumSet(LAMBDA p : p.weight * Cardinality({d \in p.dependencies : d.profile = profile}),
                s.positions)

Exposure(s, profile) == Weight({p \in s.positions : On(p, profile)})
ThirdParty(s) == Weight({p \in s.positions : p.dependencies # {}})
HighCritical(s) == Weight({p \in s.positions : p.high})

NeedsPlan(d) == d.service.materiality \in {"material", "critical"}

\* What is wrong with the exit plan of a service that needs one.
PlanFinding(d, at) ==
  IF CurrentPlan(d) = {} THEN "missing_current_exit_plan"
  ELSE LET x == CHOOSE y \in CurrentPlan(d) : TRUE IN
       IF x.registeredAt > at THEN "exit_plan_not_effective_at_assessment"
       ELSE IF d.service.materiality # "critical" THEN "none"
       ELSE IF x.testedAt = NotTested THEN "untested_critical_exit_plan"
       ELSE IF x.testedAt > at THEN "critical_exit_test_not_effective_at_assessment"
       ELSE "none"

\* Findings, without the figures that the assessment carries anyway.
Incomplete(s, at) ==
  LET ds == DependenciesOf(s) IN
  {<<"provider_due_diligence_expired", d.profile.providerId>> :
      d \in {e \in ds : e.profile.diligenceUntil =< at}}
  \cup {<<"provider_contract_expired", d.profile.providerId>> :
      d \in {e \in ds : e.profile.contractUntil =< at}}
  \cup {<<PlanFinding(d, at), d.service.dependencyId>> :
      d \in {e \in ds : NeedsPlan(e) /\ PlanFinding(e, at) # "none"}}

Breached(s, policy) ==
  (IF HighCritical(s) > policy.highLimit
     THEN {<<"high_critical_exposure_breach", "portfolio">>} ELSE {})
  \cup {<<"provider_concentration_breach", profile.providerId>> :
      profile \in {p \in ProvidersOf(s) : Exposure(s, p) > policy.limit}}

Degraded(s, policy) ==
  {<<"provider_concentration_warning", profile.providerId>> :
      profile \in {p \in ProvidersOf(s) : /\ policy.warning =< Exposure(s, p)
                                          /\ Exposure(s, p) =< policy.limit}}
  \cup {<<"low_substitutability", d.service.dependencyId>> :
      d \in {e \in DependenciesOf(s) : NeedsPlan(e) /\ ~ e.service.substitutable}}

\* The rows' counts of models and of services are left out.
Assessment(s, policy, at) ==
  [snapshot |-> s, policy |-> policy, assessedAt |-> at,
   exposures |-> {[profile |-> p, bps |-> Exposure(s, p)] : p \in ProvidersOf(s)},
   critical |-> {d.profile.providerId :
                   d \in {e \in DependenciesOf(s) : e.service.materiality = "critical"}},
   thirdParty |-> ThirdParty(s), highCritical |-> HighCritical(s),
   findings |-> Incomplete(s, at) \cup Breached(s, policy) \cup Degraded(s, policy),
   state |-> IF Incomplete(s, at) # {} THEN "incomplete"
             ELSE IF Breached(s, policy) # {} THEN "breached"
             ELSE IF Degraded(s, policy) # {} THEN "degraded" ELSE "healthy"]

\* assess_portfolio.
Assess(s, policy, at) ==
  /\ SnapshotCurrent(s)
  /\ s.registeredAt =< at
  /\ Cardinality(assessments) < MaxAssessments
  /\ assessments' = assessments \cup {Assessment(s, policy, at)}
  /\ UNCHANGED <<inventoryVars, profiles, dependencies, exitPlans, snapshots, packages>>

\* What build_evidence_package collects.
Package(a, at) ==
  [assessment |-> a, generatedAt |-> at, profiles |-> ProvidersOf(a.snapshot),
   dependencies |-> DependenciesOf(a.snapshot),
   plans |-> UNION {CurrentPlan(d) : d \in DependenciesOf(a.snapshot)}]

Reproduces(a) ==
  SnapshotCurrent(a.snapshot) /\ a = Assessment(a.snapshot, a.policy, a.assessedAt)

\* build_evidence_package.
BuildPackage(a, at) ==
  /\ a.assessedAt =< at
  /\ Reproduces(a)
  /\ Cardinality(packages) < MaxPackages
  /\ packages' = packages \cup {Package(a, at)}
  /\ UNCHANGED <<inventoryVars, profiles, dependencies, exitPlans, snapshots, assessments>>

\* verify_evidence_package.
PackageVerifies(g) == Reproduces(g.assessment) /\ g = Package(g.assessment, g.generatedAt)

--------------------------------------------------------------------------------
\* The snapshots that may be presented: a book with dependencies of its models.
Presentable(b, version, at) ==
  {[version |-> version, registeredAt |-> at, inventory |-> InventorySnapshot,
    positions |-> {[modelVersion |-> p.modelVersion, high |-> p.high, weight |-> p.weight,
                    dependencies |-> {d \in ds : d.service.modelVersion = p.modelVersion}] :
                     p \in b}] : ds \in SUBSET dependencies}

PortfolioNext ==
  \/ InventoryNext /\ UNCHANGED registryVars
  \/ \E p \in ProviderProfiles : RegisterProfile(p)
  \/ \E d \in DependencyType : RegisterDependency(d)
  \/ \E x \in PlanType : RegisterExitPlan(x)
  \/ \E b \in Books, version \in 1 .. MaxVersions, at \in Times :
       \E s \in Presentable(b, version, at) : RegisterSnapshot(s)
  \/ \E s \in snapshots, policy \in PortfolioPolicies, at \in Times : Assess(s, policy, at)
  \/ \E a \in assessments, at \in Times : BuildPackage(a, at)

PortfolioSpec == PortfolioInit /\ [][PortfolioNext]_portfolioVars

--------------------------------------------------------------------------------
\* What a later version binds is never older than what an earlier one of the same
\* history binds: provider profiles along a dependency, versions of the dependency
\* along its exit plans, the inventory along the snapshots.  Nothing compares
\* these; they follow from binding what is current at every registration.
BindingsNeverRollBack ==
  /\ \A d, e \in dependencies :
       /\ Identity(d) = Identity(e) /\ d.version = e.version => d = e
       /\ Identity(d) = Identity(e) /\ d.version < e.version
            /\ d.profile.providerId = e.profile.providerId => d.profile.version =< e.profile.version
  /\ \A x, y \in exitPlans : Identity(x.dependency) = Identity(y.dependency) =>
       /\ x.version = y.version => x = y
       /\ x.version < y.version => x.dependency.version =< y.dependency.version
  /\ \A s, t \in snapshots :
       /\ s.version = t.version => s = t
       /\ s.version < t.version => /\ s.registeredAt < t.registeredAt
                                   /\ s.inventory[1] \subseteq t.inventory[1]
                                   /\ s.inventory[2] \subseteq t.inventory[2]

\* A plan in force at a time: made, and for a critical service tested, by then.
InForce(d, x, at) ==
  /\ x.registeredAt =< at
  /\ d.service.materiality = "critical" => x.testedAt # NotTested /\ x.testedAt =< at

\* docs/PORTFOLIO_THIRD_PARTY.md: "Future evidence therefore cannot retroactively
\* satisfy an earlier portfolio assessment."  Whoever holds an assessment that is
\* not incomplete can point, for every service that needs it, to a plan of that
\* very version of the dependency, in force at the time of the assessment, and all
\* the rest of its evidence, the provider profiles included, existed and was
\* unexpired by then.
AssessedOnEvidenceOfItsTime ==
  \A a \in assessments : a.state # "incomplete" =>
    \A d \in DependenciesOf(a.snapshot) :
      /\ d.registeredAt =< a.snapshot.registeredAt /\ a.snapshot.registeredAt =< a.assessedAt
      /\ d.profile.registeredAt =< a.assessedAt
      /\ a.assessedAt < d.profile.diligenceUntil /\ a.assessedAt < d.profile.contractUntil
      /\ NeedsPlan(d) => \E x \in exitPlans : /\ x.dependency = d
                                              /\ InForce(d, x, a.assessedAt)

RowTotal(rows) == MapThenSumSet(LAMBDA row : row.bps, rows)

\* The exposures add up: no provider is given more than the third-party exposure
\* of the portfolio, all providers together have at least that much, and nobody
\* more than the whole portfolio, whichever and however many services a model has.
ExposuresAddUp ==
  \A a \in assessments :
    /\ \A row \in a.exposures : row.bps > 0 /\ row.bps =< a.thirdParty
    /\ a.thirdParty =< RowTotal(a.exposures)
    /\ a.thirdParty =< Total /\ a.highCritical =< Total

\* Drift is for good: a package that does not reproduce from the evidence that is
\* current never does again, whatever is registered later, although its assessment
\* may (verify_evidence_package); nor does a snapshot become current again.
StaleForGood ==
  [][/\ \A s \in snapshots : SnapshotCurrent(s)' => SnapshotCurrent(s)
     /\ \A g \in packages : PackageVerifies(g)' => PackageVerifies(g)]_portfolioVars
================================================================================
