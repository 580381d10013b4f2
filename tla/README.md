# ModelRiskOps in TLA+

A verification project for the ModelRiskOps library (`src/src/modelriskops`): TLA+
modules translated from the source, TLC runs over small instances, and TLAPS proofs for
every value of the constants.

* [1. The system](#1-the-system)
* [2. Modelling conventions](#2-modelling-conventions)
* [3. The modules](#3-the-modules)
* [4. The runs](#4-the-runs)
* [5. What is proved](#5-what-is-proved)
* [6. Disagreements found](#6-disagreements-found)
* [7. What is not modelled](#7-what-is-not-modelled)
* [8. Plan](#8-plan)

To repeat a result: `tlc -config MCConfigChain.cfg MCConfigChain.tla` for a run,
`tlapm HardeningProofs.tla` for a proof module.

## 1. The system

ModelRiskOps is a library of governance evidence: immutable artefacts, each carrying the
digest of the artefacts it rests on, and registries that accept new versions of them. It
has no server, no thread, no clock and no persistent store. A caller holds every artefact
and passes them, **with the represented time of the operation**, to functions that refuse
or answer. What makes it hard is therefore not scheduling but *sequence*: any caller may
call any operation, with any artefact made so far, as of any represented time, in any
order, and the checks scattered over a dozen functions must together imply what the
documents promise.

| Component | State | Operations | Interacts with | What is hard | What makes it correct |
|---|---|---|---|---|---|
| Signing-key registry (`signing.py`) | keys and revocations by key id | register, revoke, `assert_key_active`; sign and verify | read by change control and the signed dossier | a revocation or expiry between signing, voting, resolving and the dossier; the same key id presented with another content | a revoked key decides nothing from then on |
| Change control (`change_control.py`, `genai_change.py`) | none of its own: proposals, requirements, votes, envelopes, resolutions, implementation evidence in the caller's hands | propose, derive requirement, vote, sign, resolve, implement; the GenAI variants of propose and implement | signing keys; the approval chain, as evidence of a material change | seven steps, each of which may be given the artefact of another change or an old one; two ways to implement | four eyes, attribution, what is implemented was authorized |
| Approval chain (`risk.py`, `validation.py`, `governance.py`) | none of its own | risk assessment, validation plan and resolution, requirement, votes, approval resolution, exceptions, revalidation | models and versions of the inventory; feeds change control and dossiers | record, version or policy replaced between two steps; scores at a threshold | one chain; validated; independent; duties follow from risk |
| Dossiers (`dossier.py`, `genai_dossier.py`, `signed_dossier.py`) | none of its own | build the governance, GenAI and signed-change dossier | everything above | every artefact handed over again, old and new ones mixed; state and completeness set along separate branches | a complete dossier can be judged by what is in it |
| Tenant key lifecycle (`hardening.py`) | key references per scope, lifecycle states per key | `register`, `transition`, `status_at`, `current_key` | read by the configuration chain and the evidence | events recorded late, as of the past; overlapping, nested, reversed validity windows | ordered histories; no status regained; rotation is one way |
| Signed configuration chain (`hardening.py`) | changes per tenant; latest configuration per object | sign, verify, `append` | key lifecycle | a change signed ahead or against another predecessor and appended after a rotation | one list per tenant; its key never goes back; the cache is the replay |
| Tenant isolation (`hardening.py`) | policies and profiles, versioned | `register_policy`, `register_profile`, `assert_profile_current` | bound by evidence and deployment | a policy superseded under a profile that stays | drift shows |
| Encrypted evidence (`hardening.py`) | envelopes in the caller's hands | encrypt, decrypt, `assert_encrypted_evidence_current` | key lifecycle, isolation | two registries drift independently; three checks repeat each other's conditions | current evidence opens; drift keeps history; currency is lost for good |
| Production deployment (`deployment.py`) | seven registries per tenant | seven registrations, `assert_release_current` | isolation | seven pieces with times and versions of their own, bound directly or through each other | of one piece; nothing of the future; ineligible for good |
| Stable baseline (`stability.py`) | one baseline | `register_baseline`, `assert_baseline_current` | two releases of the deployment registry | the releases are compared by times, which may be equal | source before target in one history |
| Inventory (`models.py`) | models, versions | `register_model`, `register_version`, snapshot | bound by portfolios | a book of models read while it grows | as part of the portfolio |
| Portfolio and third parties (`portfolio.py`) | profiles, dependencies, exit plans, snapshots | five registrations, assess, evidence package and its verification | inventory | current evidence mixed with evidence that was current; several services on one provider | nothing rolls back; nothing of the future; exposures add up; drift is final |
| Assurance (`assurance.py`) | profiles, scopes, evidence, applicability, entries, packages | six registrations, build and verify a package | none | a superseded profile or scope; a second answer for a reference; answers that arrive after the package | packages verify for ever; nothing left out; catalogue goes forward |
| Monitoring (`monitoring.py`) | none of its own: plans, observations, assessments, revalidations | build a plan, observe, assess, derive a revalidation | risk decisions | late, stale, repeated, conflicting or foreign observations; the first branch decides | fails closed; time alone clears nothing; late evidence changes nothing |
| GenAI governance (`genai.py`, `genai_runtime.py`) | none of its own: overlays, plans, observations, assessments, oversight | snapshot, plan, observe, assess, require oversight, decide, revalidate | the GenAI dossier; GenAI changes | gaps and conflicts in one metric; optional oversight artefacts | deterioration fails closed; review where it is required |
| Canonical encoding, API, CLI | none | | | | section 7 |

How they interact: by digests carried in artefacts, and by registries passed as arguments. A
change of one component is seen by another only when the caller makes the other look: `resolve`
looks at the signing keys, `append` at the lifecycle, a release at the isolation registry,
a snapshot at the inventory and the provider histories, a baseline at the releases. Between any two
such looks anything may have been registered.

There is one concurrency statement to make and it is negative: no function awaits, locks,
spawns or calls back, and there is no documentation of thread safety. The interleavings
modelled are interleavings of whole calls. There is likewise nothing to recover after a
crash, because nothing is written. Messages do not exist, but observations, votes and signed
changes are made in one place and presented in another, and there they may be delayed, left out,
presented twice or out of order; the models let the caller do all of that. `PROJECT.json` lists
under "hazards" the lines where this code can go wrong in the ways listed above, with the
properties that would show it.

## 2. Modelling conventions

*Digests.* The library identifies an artefact by the SHA-256 of its canonical JSON. A
digest is modelled by the content it is the digest of, so that two digests are equal
exactly when the contents are; a field holding the digest of another artefact holds that
artefact. This is what makes the models shorter than the code: the many comparisons of a
stored digest with a recomputed one become an equality of values. Where the code hashes
something else than the plain content -- the after state of a change proposal hashed with
the salt of its triggers -- the model keeps the difference (`afterState.salt`).

*Artefacts held by callers.* Functions that return artefacts without storing them are
actions that add the artefact to a set ("pool") of those made so far. Whether the
caller keeps, loses or reorders them is the choice `\E x \in pool` of later actions.
Callers are assumed to hold artefacts that the library made; a forged frozen dataclass is
outside the model, as is breaking a signature or a cipher.

*Times.* `Times` is `0 .. MaxTime`. Each operation takes its time as a parameter, chosen
nondeterministically; nothing relates the time of one call to that of the next unless a
check does. This is the code: timestamps are arguments, and there is no clock.

*Guards.* One action per operation, its guard the conjunction of the checks that may
raise. A call that raises changes nothing, so it is a stutter. Checks of the form and
type of fields are the types of the constants.

*Bounds.* Each `Max...` constant bounds the size of a pool and occurs only in guards
of the form `Cardinality(pool) < Max...`. Together with `MaxTime` these are the only bounds
in the modules; the MC modules add constraints described under each run.

*Deadlock.* `CHECK_DEADLOCK FALSE` is given where an instance ends when its pools and
histories are full. The runs of `ChangeControl` check for deadlock: registering a registered
key again is accepted and changes nothing, so a step can always be taken there.

*Fairness.* None is assumed and no liveness is claimed. The library is passive: nothing
in it obliges a caller to make the next call, so there is no scheduler that could justify a
fairness condition, and "a change is eventually resolved" is not something the code
promises. Every specification is `Init /\ [][Next]_vars`. All properties are safety
properties: invariants and action properties `[][A]_vars`.

## 3. The modules

| Module | Models | Variables and their counterparts | Actions and their counterparts |
|---|---|---|---|
| `VersionedHistory` | the idiom of the registries: append version n+1 behind n, in the order of time, and read the last | -- | operators used by the registries below |
| `SigningKeys` | `SigningKeyRegistry` | `keys` (`_keys`), `revocations` (`_revocations`) | register, revoke |
| `ChangeControl` | `change_control.py`, with `derive_revalidation_requirement`; extends `SigningKeys` | one pool per artefact type: `proposals`, `requirements`, `votes`, `envelopes`, `approvals`, `resolutions`, `implementations` | `Propose`, `DeriveRequirement`, `CreateVote`, `SignVote`, `GrantApproval` (the approval chain, by its effect), the three ends of `resolve_change_authorization` (`ResolveRejected`, `ResolveIncomplete`, `ResolveAuthorized`), `Implement` |
| `GenAIChange` | `genai_change.py`, extends `ChangeControl` | the pools of `ChangeControl` | `ProposeGenAI`, `ImplementGenAI` |
| `SignedDossier` | `signed_dossier.py`, extends `GenAIChange` | `signed` | `BuildSigned` |
| `ModelApproval` | `risk.py`, `validation.py`, `governance.py`: the chain | `decisions`, `plans`, `resolutions`, `requirements`, `votes`, `approvals` | one per function of the chain; `AssessRisk` computes scores, credit, tier and requirements; `RequirementCurrent` is `_assert_validation_chain_current` |
| `Dossier` | exceptions of `governance.py`, `dossier.py`; extends `ModelApproval` | `exceptions`, `dossiers` | `CreateException`, `BuildDossier` |
| `KeyLifecycle` | `InstitutionCryptoKeyRegistry` | `keys`, `states` | register, transition; `StatusAt` is `status_at`, `IsCurrent` is `current_key` |
| `ConfigChain` | signed configuration changes, extends `KeyLifecycle` | `signed` (held by callers), `changes` (`_changes`), `latest` (`_latest_object_digest`) | `Sign`, `AppendChange` |
| `ConfigLog` | the abstract specification of the chain: one list per tenant, one configuration per object | `log`, `conf` | `Change` |
| `TenantIsolation` | `TenantIsolationRegistry` | `policies`, `profiles` | register a policy, register a profile; `ProfileCurrent` |
| `TenantEvidence` | encrypted evidence, composes `KeyLifecycle` and `TenantIsolation` | `envelopes` | `Encrypt`; `Decryptable`, `EvidenceCurrent` |
| `Deployment` | `deployment.py`, extends `TenantIsolation` | `identities`, `egress`, `workers`, `rollbacks`, `upgrades`, `checkpoints`, `releases` | the seven registrations; `ReferenceReady` is `assert_release_current` |
| `Stability` | `StableReleaseRegistry`, extends `Deployment` | `baselines` | `RegisterBaseline`; `BaselineCurrent` |
| `Inventory` | `InventoryRegistry` of `models.py` | `models`, `versions` | register model, register version |
| `Portfolio` | `portfolio.py`, extends `Inventory` | `profiles`, `dependencies`, `exitPlans`, `snapshots`, `assessments`, `packages` | the registrations, `Assess`, `BuildPackage`; `SnapshotCurrent`, `PackageVerifies` |
| `Assurance` | `AssuranceEvidenceRegistry` | `profiles`, `scopes`, `assertions`, `evidence`, `entries`, `packages` | six registrations; `Verifies` is `verify_package` |
| `Monitoring` | `monitoring.py` | `plans`, `observations`, `assessments`, `revalidations` | `BuildPlan`, `Observe`, `Assess`, `DeriveRevalidation` |
| `GenAIEvaluation` | overlay and evaluation of `genai.py`, with `genai_runtime.py` | `plans`, `observations`, `assessments` | `BuildPlan`, `Observe`, `Assess` |
| `GenAIDossier` | oversight of `genai.py`, `genai_dossier.py`; extends `GenAIEvaluation` | `oversights`, `decisions`, `dossiers` | `RequireOversight`, `Decide`, `BuildDossier` |
| `HardeningProofs`, `DeploymentProofs`, `ChangeControlProofs`, `ModelRiskProofs`, `AssuranceProofs`, `MonitoringProofs`, `GenAIProofs` | theorems (section 5) | | |
| `Sums` | what adding up over a finite set computes; lemmas for `ModelRiskProofs` | | |
| `MC...` | the small instances (section 4) | | |

Composition is by `EXTENDS`: a component that reads a registry extends its module, and its
`Next` has a disjunct for the registry's own steps, so that the registry changes between any
two of the component's steps. A module that others extend names its specification after
itself (`LifecycleSpec`, `DossierSpec`, `StabilitySpec`), and so do modules that one proof
module puts side by side (`EvidenceSpec`, `PortfolioSpec`). `PROJECT.json` maps each definition
to the lines it translates.

Points of translation worth a warning to the reader:

* `current_key` and `status_at` sort histories by version and read them by time. The model
  says "the last introduced by t" and "the last effective by t". That both mean the same is
  `HistoriesOrdered`, which is a theorem, not an assumption.
* `GrantApproval(s)` in `ChangeControl` stands for the whole of `ModelApproval` and carries
  the state it was given for. The check of `resolve_change_authorization` reads only part of
  it, which is the point of `ApprovedAfterState` (section 6).
* The base dossiers of `GenAIDossier` are constants, restricted by `WellFormedBase` to what
  `build_governance_dossier` can produce.
* What an artefact does not hold, its model does not hold either. A `ValidationResolution` has
  the ids of the open findings and not the findings, so that two sets of findings may have one
  resolution, and the dossier builder accepts either (`ResolutionReproduces`): closed
  findings may be left out, added or altered, and the content behind an open id may be another.
  A `RiskDecision` has the levels and the credit, not the controls.
* Scores, thresholds and measured values are small integers. The code computes them with
  integers or compares them only, so that the order is all that is read of a reading; rating
  levels and weights of `ModelApproval` are multiplied and added as in `risk.py`.

## 4. The runs

Nine runs must pass; three must show a violation (section 6).

| Run | Distinct states (about) | Question | Properties, and what a violation would take |
|---|---|---|---|
| `change_control` | 1.3 million | Can any order of proposals, votes, signatures, registrations, expiries and revocations lead to a change implemented, or put on record in a dossier, without due authorization? | `SeparationOfDuties` (one person counted twice, or the owner counted), `SignaturesAttributable` (a key not the approver's, or outside its validity), `ImplementedAsAuthorized` (the wrong of two implementation steps, or another state or overlay), `SignedDossierHoldsTogether` (the implementation of another change, or of another authorization of the change); step: `RevokedKeysDecideNothing` |
| `config_chain` | 440 thousand | Is the chain one list, and do its keys follow rotation though no check compares key versions? | `TypeOK`, `OneChainPerTenant`, `SigningKeyNeverRollsBack`, `LatestIsReplay`; steps: `DisabledKeyActivatesNothing`, `CurrentKeyNeverRollsBack`; refinement: `ImplementsLog` |
| `model_approval` | 480 thousand | Does an approval, and the dossier over it, rest on one chain whichever artefacts the caller mixes? | `ApprovalsRestOnOneChain`, `ApprovedMeansValidated`, `ApprovedMeansIndependent`, `DutiesFollowRisk` (fewer duties at more risk, or more than one tier bought by controls), `CompleteDossierIsWhole` (findings other than those resolved, a stale plan, exceptions of another decision) |
| `tenant_evidence` | 170 thousand | Do the encryption, decryption and currency checks agree while both registries move? | `CurrentEvidenceOpens`; steps: `DriftKeepsHistory`, `CurrencyIsLostForGood` |
| `deployment` | 950 thousand | Is a release of one piece though most of the pieces are bound indirectly, and does a baseline join two releases of one history? | `NothingFromTheFuture`, `OneRuntimePerRelease`, `BaselineRestsOnOneHistory`; step: `IneligibleForGood` |
| `portfolio` | 470 thousand | Can a stale or future piece of third-party evidence support an assessment, and can exposure be counted twice or lost? | `BindingsNeverRollBack`, `AssessedOnEvidenceOfItsTime`, `ExposuresAddUp`; step: `StaleForGood` |
| `assurance` | 370 thousand | Does a package answer for all it must, and does it stay verifiable while everything it was built from is superseded? | `PackagesVerify`, `NothingCherryPicked`, `NothingFromTheFuture`, `CatalogueNeverRollsBack` |
| `monitoring` | 350 thousand | Can late, stale, foreign or omitted observations clear a model? | `ClearedOnEvidence`, `AgeingNeverClears` and `LateObservationsChangeNothing` (each relating two assessments, one of them possibly hypothetical), `RevalidationNamesEveryReason` |
| `genai` | 390 thousand | Can an evaluation, a reviewer or the mix of artefacts make a dossier complete that should not be? | `EvaluationFailsClosed`, `StateAgreesWithPath`, `GenAIEvidenceNeverRepairs`, `ReviewedWhereDemanded` |

Each property has a mutant in `PROJECT.json`, a definition changed as a plausible bug would
change it, under which TLC finds the property violated. Where the clauses of a property rest on
separate checks, the modules hold further mutants, such as `AnyHolderMayVote`, for the owner's
vote, beside `OnePerRole`. The mutants stand next to what they
mutate, with a comment that names them.

### Bounds, and why they are enough

* **change_control**: three drafts (a material change of version, an operational trigger without
  change of state, a GenAI change of overlay), two proposals, requirements, votes, envelopes,
  resolutions and implementations, one dossier, three people, times 0 and 1. Two votes are what
  the largest requirement asks for; a third envelope would allow one vote to be signed twice, of
  which a resolution takes one anyway. Keys: one for ever, whose owner may sign in either role and
  so could stand for both; one that expires at 1; and a second content for the first one's id. The
  constraint `InTurn` explores one change with every kind of package, and a second proposal,
  requirement or resolution where the packages are plain (consent, signed at once by the approver,
  nothing revoked): these are for the dossier, which may then be given the implementation of
  another change to the same version, or of an earlier authorization of the same change. Only a
  material change has more than one vote per requirement, and approvals, which nothing else reads.
* **config_chain**: one rotation, two objects, up to three signed changes of which two
  compete for the same place. Three changes are the shortest chain whose middle one may be
  signed with either key; the theorems of section 5 remove the bound.
* **model_approval**: two owners of the record, two versions, one policy of the default's
  proportions, four ratings that reach every tier (one of them through the credit for controls,
  which its cap limits), three test plans, four findings (a blocking one open and closed, two
  contents of one id, so that the dossier can be given others than were resolved), two risk decisions, one chain after them, one
  exception and one dossier, so that every later step may be given the artefacts of the wrong
  decision. The constraint `InTurn` says which pairs of decisions are compared: those that differ
  in one respect.
* **tenant_evidence**: two versions of each of key, policy and profile, and two envelopes:
  the properties relate at most two envelopes and one drift of each registry.
* **deployment**: two releases, two versions of each piece, times 0 and 1. `InTurn` says that
  the second release is prepared after the first and with plans of the last represented
  time, and that a tenant's test environment comes before production; if the stable release comes
  first, which no baseline can use, nothing drifts. Every order of drift against each release
  remains.
* **portfolio**: two models, two providers, one with two versions and two services on one
  model, books with both models or one. `Bounded` brings the second model in after the first
  and fixes what varies about it: the interesting histories are those of the first service,
  whose profile, dependency and plan each have two versions.
* **assurance**: one scope in two versions, a profile in two versions of one or two references
  beside one of another framework, two assertions, two entries, one evidence, one package, times
  0 and 1. Two of each are needed for one too many or one too few to be possible. `Small` fixes
  the order in which identifiers are used and what varies about the second profile.
* **monitoring**: two plans, of which the second is the enhanced one of a second risk decision;
  three observations, two assessments, times 0 to 3 with a staleness of 1, four readings that lie on
  and between the thresholds of metrics of either direction. Three metrics are the least that
  enhanced monitoring accepts. `Comparable` keeps the pairs of assessments that
  `AgeingNeverClears` relates.
* **genai**: one plan, two observations, one assessment, one oversight requirement and decision,
  one dossier; base dossiers of every state, a use case that demands review and one that does not,
  two contents of one model version, two foundation models of which one belongs to another
  version; times 0 to 2. Two observations of one metric are what a conflict takes. `InTurn` leaves
  out dossiers over observations that the assessment does not name.

## 5. What is proved

Seven modules of theorems and the lemmas of `Sums`, checked by TLAPS to the last leaf, for
every value of the constants: every set of people, keys, policies, metrics, books and times,
and every bound. Every property of every passing run is a theorem. What is assumed of the
constants, next to their declarations, is that

* what callers present passed the constructor of its dataclass (`KeyRefsAssumption`,
  `RequestsAssumption`, `ReferencesAssumption`, `DraftsAssumption`, `GenAIDraftsAssumption`,
  `KeyRecordsAssumption`, `PoliciesAssumption`, `RatingsAssumption`, `TestPlansAssumption`,
  `FindingsAssumption`, `ProfilesAssumption`, `BooksAssumption`, `PortfolioPoliciesAssumption`,
  `MetricSetsAssumption`, `SchedulesAssumption`, `ReadingsAssumption`, `RlsPoliciesAssumption`,
  `EgressAssumption`, `BaseDossiersAssumption`), which includes that the factors of a rating, its
  controls and the positions of a book are finitely many, being an enumeration and tuples;
* times and bounds are numbers (`MaxTimeAssumption`, `PortfolioTimeAssumption`,
  `BoundsAssumption`, `MaxProfilesAssumption`), and the absent value is not one
  (`NoneAssumption`).

| Module | Theorem | Statement |
|---|---|---|
| `HardeningProofs` | `LifecycleTypeCorrect` | `LifecycleTypeOK` is an invariant of the key lifecycle |
|  | `HistoriesAreOrdered` | `HistoriesOrdered`: versions identify, without gaps, and follow time |
|  | `StatusIsMonotone` | `StatusNeverRecovers`: whatever is recorded, as of whatever time, no status is regained |
|  | `RotationIsOneWay` | `CurrentKeyNeverRollsBack` |
|  | `ChainTypeCorrect` | `TypeOK` of the configuration chain |
|  | `ChainIsOneList` | `OneChainPerTenant` |
|  | `ChainNeverRollsBackKeys` | `SigningKeyNeverRollsBack` |
|  | `CacheAgreesWithChain` | `LatestIsReplay` |
|  | `DisablementIsFinal` | `DisabledKeyActivatesNothing` |
|  | `ChainImplementsLog` | `ImplementsLog`: the chain implements `ConfigLog` |
|  | `EvidenceOpens` | `CurrentEvidenceOpens` |
|  | `IsolationDriftKeepsHistory` | `DriftKeepsHistory` |
|  | `LostCurrencyStaysLost` | `CurrencyIsLostForGood` |
| `DeploymentProofs` | `NothingIsFromTheFuture` | `NothingFromTheFuture` of the deployment registry |
|  | `ReleasesAreOfOnePiece` | `OneRuntimePerRelease` |
|  | `IneligibilityIsForGood` | `IneligibleForGood` |
|  | `BaselineHistoryIsOne` | `BaselineRestsOnOneHistory` |
|  | `BaselinesOnlyRead` | `StabilitySpec` implies the specification of `Deployment` |
| `ChangeControlProofs` | `DutiesAreSeparated` | `SeparationOfDuties` of change control, GenAI changes included |
|  | `SignaturesAreAttributable` | `SignaturesAttributable` |
|  | `ImplementationIsAuthorized` | `ImplementedAsAuthorized` |
|  | `DossierHoldsTogether` | `SignedDossierHoldsTogether` |
|  | `RevocationCutsOff` | `RevokedKeysDecideNothing` |
| `ModelRiskProofs` | `ChainIsOne` | `ApprovalsRestOnOneChain` |
|  | `ApprovalsAreValidated` | `ApprovedMeansValidated` |
|  | `ApprovalsAreIndependent` | `ApprovedMeansIndependent` |
|  | `DutiesAreMonotone` | `DutiesFollowRisk` |
|  | `CompleteDossiersAreWhole` | `CompleteDossierIsWhole` |
|  | `DossiersOnlyRead` | `DossierSpec` implies the specification of `ModelApproval` |
|  | `BindingsAdvance` | `BindingsNeverRollBack` |
|  | `NoFutureEvidence` | `AssessedOnEvidenceOfItsTime` |
|  | `StalenessIsForGood` | `StaleForGood` |
|  | `ExposuresAreSums` | `ExposuresAddUp` |
| `AssuranceProofs` | `PackagesVerifyForEver` | `PackagesVerify` |
|  | `NothingRestsOnTheFuture` | `NothingFromTheFuture` of the assurance registry |
|  | `CatalogueIsMonotone` | `CatalogueNeverRollsBack` |
|  | `PackagesAreWhole` | `NothingCherryPicked` |
| `MonitoringProofs` | `AssessmentsRestOnEvidence` | `ClearedOnEvidence` |
|  | `TimeNeverClears` | `AgeingNeverClears` |
|  | `LateObservationsAreIdle` | `LateObservationsChangeNothing` |
|  | `EveryReasonIsNamed` | `RevalidationNamesEveryReason` |
| `GenAIProofs` | `EvaluationsFailClosed` | `EvaluationFailsClosed` |
|  | `StateAndPathAgree` | `StateAgreesWithPath` |
|  | `EvidenceNeverRepairs` | `GenAIEvidenceNeverRepairs` |
|  | `DemandedReviewsAreGiven` | `ReviewedWhereDemanded` |

**The argument for keys.** `HistoriesOrdered` alone is not inductive enough for the step
properties: that a status is not regained depends on the rank of the states of a key rising
with their version, and on every state belonging to a registered key. `LifecycleInv` adds
these two (`StatesRanked`, `StatesBound`). From it, a lemma shows that a recorded
state can only be behind all of its key's, with a rank not lower and a time not earlier;
so the status read at t either stays or weakens. Rotation follows likewise: a
new reference is introduced no earlier than it is registered and with a higher version.

**The argument for the chain.** The code never compares the versions of signing keys, yet
along a chain they never decrease. The reason is not in `append` but in what signing
established earlier: the key was the *current* key at the signing time, and the predecessor
was signed with the key current at its own. Both facts may have been made false since
by later registrations, so the invariant cannot be stated over current keys.
`ChainInv` therefore carries `LinkKeepsKeyOrder` -- of two signed changes, linked by a digest
and not signed in reverse order, the later key is not older -- together with
`SignedProperly`, over *all* signed changes, appended or not. A change signed ahead is
caught by one of the two: either the link is wrong, or the signing times are reversed.
`OneChainPerTenant`, `SigningKeyNeverRollsBack` and `LatestIsReplay` are then inductive
together. `DisablementIsFinal` follows from `ChainInv` and the guard of `AppendChange`, by the
rank of the states of the key.

**The refinement.** `ConfigLog` says what the registry promises without keys, signatures,
sequence numbers and digests. The mapping reads the set of a tenant's changes by sequence
number. `ListInv` adds to `ChainInv` that this set is `Sound`: sequence numbers identify, have no
gaps, and there is a head. Lemmas show that appending behind the head appends to the list that is
read (`ListGrows`) and that the other tenants' lists stay; a step of the key registry or of signing
is a stutter of the log.

**The argument for assurance.** A package verifies by being rebuilt from the registry, so an
answer registered later could break it. It cannot, since a package needs its scope closed --
exactly one assertion and one entry for each reference (`Closed`) -- and registering an answer
needs the place to be free: `PackagesClosed` is the inductive invariant. The times of a package
need `ComponentsBound`: what an entry or package names was registered, and bound to the scope,
under the checks of its own registration. `CatalogueNeverRollsBack` needs `VersionsBounded`: a
version is at most the size of its history, so that the profile that is current when a later scope
is registered has the highest version there is.

**The argument for change control.** The checks of a resolution are made against artefacts and a
key registry that go on changing, so the invariant must say what of them survives. `SignedFor` is
the part of the signature checks that no later registration or revocation undoes (`ActiveAt` itself
may become false, and is not in it). `ChangeInv` says that key ids denote one key, that every
proposal, requirement and vote was made by its operation, and that every resolution is
`ResolvedProperly`: its votes are distinct, of its requirement, and each is `SignedFor` by one of its
signatures, and conversely. The pools only grow, so each step preserves what was true of an older
artefact (`ResolutionStays`). That a material change has two people follows from two required
roles and the distinctness of persons. For the implementation, the salt of an after state tells which
function proposed it (`SaltsDiffer`): the plain step needs no salt, the GenAI step the salt of
that very overlay and its triggers. The cut-off of a revocation needs no invariant: both the resolution and
the dossier verify every signature in the step itself.

**The argument for evidence.** An envelope's key, profile and encryption time are fixed, and both
registries only grow: `EvidenceInv` keeps that the key was registered for evidence, that its first
state took effect before the encryption, and that the policies of the profile are registered.
Currency then implies the conditions of decryption one by one. `CurrencyIsLostForGood` combines
`StatusNeverRecovers` with the fact that what is not last in a growing history never becomes so.

**The argument for deployment.** Records are immutable, so `DeploymentInv` says of each what its
registration compared, and of the identity and release histories that versions follow times
(`Ordered`). That a worker's identity is the release's, which nothing compares, comes from both
having been the last of one ordered history at the registration. A superseded piece stays
superseded, so eligibility once lost is lost. A baseline's target follows its source because both are in one
ordered history and the target is its last: equal times do not matter.

**The argument for approvals.** `ChainInv` says of each artefact what its step compared; the
approval reaches back through its requirement. A resolution is known only to be that of *some*
accepted findings; a dossier's own findings are judged by their giving the same resolution, whose
conclusion and open ids are what those who voted were shown. That a complete dossier has as many people as roles is
a counting argument: the voter of a role is a bijection from the roles onto the voters
(`OnePersonPerRole`). `DutiesFollowRisk` needs no history but arithmetic: the score is a sum that
grows with every level, the credit is capped, the tiers are intervals in a row.

**The argument for the portfolio.** `PortfolioInv` has a part for each history. What rolls back in
none of them does so because each registration binds what is current, and the current version of a
growing history only grows. A stale package stays stale because the only thing that could make
its contents current again is a plan registered later, which is not in it (`PlanKeptOrNew`).

**Adding up.** `MapThenSumSet` of the community modules is the value of a function that is chosen
to satisfy a recursion over the subsets of a set. `Sums` proves by well-founded induction over the
finite subsets -- an induction over a *set* of good subsets, which needs no operator parameter --
that such a function exists, that any element may be taken out first, and from there that sums are
monotone, carry over along injections and are sub-additive over a cover. `ExposuresAddUp` is the
last three: parts of a book weigh no more than the book, a book becomes positions model by model,
and the positions with a provider are covered by the providers' parts. So does `DutiesFollowRisk`
get its monotone scores.

**The argument for the answers of a package.** `AnswersInv` says that what is looked up before it
is registered is there once. Since a package needs its scope closed, entries and references are in
one-to-one correspondence (`EntryPerReference`), and the four counts partition the entries
(`FourParts`, `CountsAddUp`).

**The arguments for monitoring and GenAI.** An assessment is a function of its plan, of the
observations it names and of its time (`Sound`): what the caller presented beside them leaves no
trace. Each property is then about that function: ageing turns a metric at most into a stale one,
an older observation is not the latest. For GenAI, `GenAIInv` carries what each artefact's step made
sure of, and `NoGap` says when a metric has none.

**What proving changed.** Two properties, true of the small instances, were false for some
values of the constants. `CompleteDossierIsWhole` said that no exception waives a required
role; but a policy of the caller's may require `model_risk_approver`, which can be waived
(`governance.py` does not list it as non-exceptionable), so it now says that the risk roles and
the independent validation are not. `DutiesFollowRisk` compared duties under any policy, whereas
the requirement sets are the policy's own; it now speaks of those of `default_policy`. And four
assumptions became explicit that the constructors or Python's types give (`NoneAssumption`,
`FactorsAssumption`, integral thresholds, finite books).

**What stays with TLC**: the three runs of section 6, which are counterexamples. Out of the
prover's reach in any case are liveness and `ENABLED` (there are none here) and induction with an
operator parameter; recursion enters the models only through folds over finite sets, which `Sums`
covers.

## 6. Disagreements found

Three runs check a sentence of the documentation, or a promise of the code's own messages and
tests, and TLC finds a sequence of ordinary calls that falsifies it. `PROJECT.json` quotes the
lines.

| Run | Property | What happens |
|---|---|---|
| `change_approval_binding` | `ApprovedAfterState` | A material change of the risk policy under an unchanged version is authorized by the approval given under the old policy: only model and version of the evidence are compared. |
| `approval_owner` | `OwnerDoesNotApprove` | A model's owner is compared with the approver of the record passed by the caller, which nothing binds to the record that was assessed; the approval stays current for a record they own. |
| `deployment_checkpoint` | `CheckpointIsCurrent` | A release may rest on a recovery checkpoint of an isolation profile that was superseded between the checkpoint and the release. |

Observations met while modelling, without a run of their own. They are part of the models, which
do what the code does:

* *Times.* No step of change control reads `proposed_at`, so a change may be authorized as of a
  time before it was proposed; `README.md:111` says that future evidence cannot satisfy an
  earlier evaluation. Retiring a signing key as of a time before signatures it already made makes
  changes of the configuration chain fail verification, whereas
  `docs/TENANT_CRYPTO_HARDENING.md:57` says that historical signatures stay verifiable. A
  retirement planned for the future keeps a disablement as of now from being recorded.
* *What the caller leaves out.* A rejecting vote, an observation, an oversight requirement or a
  revalidation requirement that is not passed is not missed: no registry holds them. The models
  let the caller leave each of them out, and the properties say what holds in spite of it. Nor are
  closed findings missed in a dossier, or compared with those resolved: only the ids of open
  ones are.
* *Combination.* A base dossier in state `rejected` becomes `revalidation_required` when its GenAI
  evaluation is breached; GenAI revalidation evidence is attached to a dossier and changes no
  state; a signed-change dossier compares its base by version id only; the dossier does not ask
  whether an exception has expired, and whether a one-time exception was used is an argument.
* *Bindings.* The stable baseline is one per registry, for all tenants, and is never
  replaced; the repository digest of its review is not compared with the target's. The egress
  policy of a release and that of its worker are both current but need not be the same. The first
  change of an object may name any previous configuration. One piece of assurance evidence may be
  credited under two references.
* *Change control.* An operational change without a change of state gets an after state hashed
  with its triggers, which no implemented state matches, so it is never implemented.
  `operational_triggers` is an iterable that is read twice: one that can be read once, a
  generator, is empty the second time.
* *Inventory.* `docs/PORTFOLIO_THIRD_PARTY.md` speaks of "one current model version per
  position", while the inventory has no notion of a current version; the snapshot only requires
  a registered one, once per model. The result of `transition_model` cannot be registered, as it
  has other content under the same id.

## 7. What is not modelled

* **`transition_model`** of `models.py`: a function from a record to another that no registry
  takes up.
* **`assert_exception_valid`** of `governance.py`: a question about its arguments, asked by no
  operation of the library.
* **Manifests and JSON of dossiers**: `verify` compares digests of what is in a dossier, reading a
  dossier parses it. Digests are content in the models, so both are the identity.
* **Canonical encoding, API, command line**: serialisation, re-exports and argument parsing.
  Canonical JSON and SHA-256 are modelled by what they are for (section 2).
* **Cryptography**: Ed25519 and AES-GCM are modelled by their effect: a signature verifies for
  exactly what was signed with that key, a ciphertext opens for exactly its key and its
  associated data.
* **Constructors that fix a value**: readiness artefacts of `stability.py` of which one content
  only is accepted are represented by their times; the EU AI Act roles of `assurance.py`, read by
  no operation after their own constructor, are left out.
* **Rendering**: SQL of the row-level-security policies, wording of findings, rationales and
  messages, row counts of packages.

## 8. Plan

Done: change control with its GenAI variant and signed dossier; the key lifecycle, the
configuration chain and the refinement of `ConfigLog`; the approval chain with
risk scoring, exceptions and the dossier; isolation, evidence, deployment and the stable baseline;
inventory and portfolio; assurance; monitoring; GenAI evaluation, oversight and
dossier.

Also done: the theorems of section 5 for every property of the passing runs.

Next, in order:

1. *An abstract change* (proposed, authorized, implemented) implemented by `ChangeControl`, and an
   abstract approval implemented by `ModelApproval`, as `ConfigLog` is by the chain.
2. *Composition*: the approval chain under change control in place of `GrantApproval`.
