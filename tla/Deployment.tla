------------------------------ MODULE Deployment -------------------------------
(***************************************************************************)
(* The production-reference control plane (deployment.py, class            *)
(* ProductionDeploymentRegistry) over the isolation registry of            *)
(* TenantIsolation: runtime identities, egress policies, workers, plans,   *)
(* recovery checkpoints and releases, registered by anyone in any order.   *)
(* The two registries are separate objects: isolation may drift between    *)
(* any two registrations.  A record holds the records whose digests it     *)
(* carries.  A release is named by its id and its version.                 *)
(***************************************************************************)
EXTENDS TenantIsolation, FiniteSets

CONSTANTS
  EgressPolicies,  \* the egress policy contents callers present
  WorkerIds,
  CheckpointIds,
  ReleaseNames,    \* pairs <<release_id, release_version>>
  RestorePoints,   \* contents of the rollback plans
  MaxVersions,     \* a bound on identities and worker profiles
  MaxReleases      \* a bound on the releases of a tenant

ASSUME EgressAssumption == \A g \in EgressPolicies : WellFormedPolicy(g)
ASSUME BoundsAssumption == MaxVersions \in Nat /\ MaxReleases \in Nat

VARIABLES
  identities,   \* _identities: RuntimeIdentityProfile
  egress,       \* _egress: HttpsEgressPolicy
  workers,      \* _workers: IsolatedWorkerProfile
  rollbacks,    \* _rollbacks
  upgrades,     \* _upgrades
  checkpoints,  \* _checkpoints
  releases      \* _releases: DeploymentReleaseManifest

deploymentVars == <<identities, egress, workers, rollbacks, upgrades, checkpoints, releases>>
vars == <<isolationVars, deploymentVars>>

Init ==
  /\ IsolationInit
  /\ identities = {} /\ egress = {} /\ workers = {}
  /\ rollbacks = {} /\ upgrades = {} /\ checkpoints = {} /\ releases = {}

IdentityHistory(tenant) == {i \in identities : i.tenant = tenant}
EgressHistory(g) == {h \in egress : h.tenant = g.tenant /\ h.policyId = g.policyId}
WorkerHistory(w) == {v \in workers : v.tenant = w.tenant /\ v.workerId = w.workerId}
ReleaseHistory(tenant) == {m \in releases : m.tenant = tenant}

--------------------------------------------------------------------------------
IdentityType == [tenant : Tenants, version : 1 .. MaxVersions, environment : Environments,
                 isolation : profiles, registeredAt : Times]

\* A mutant of the identity registration: times are not compared.
IdentityBindsAnyTime(i) ==
  /\ i.isolation.tenant = i.tenant
  /\ ProfileCurrent(i.isolation)
  /\ i.isolation.environment = i.environment

IdentityBinds(i) ==
  /\ i.isolation.tenant = i.tenant
  /\ ProfileCurrent(i.isolation)
  /\ i.isolation.environment = i.environment
  /\ i.isolation.registeredAt =< i.registeredAt

\* register_identity.
RegisterIdentity(i) ==
  /\ IdentityBinds(i)
  /\ Continues(i, IdentityHistory(i.tenant))
  /\ identities' = identities \cup {i}
  /\ UNCHANGED <<isolationVars, egress, workers, rollbacks, upgrades, checkpoints, releases>>

\* current_identity, and assert_identity_current.
IsCurrentIdentity(i) == IsLast(i, IdentityHistory(i.tenant))
IdentityCurrent(i) == IsCurrentIdentity(i) /\ ProfileCurrent(i.isolation)

\* A mutant of the egress registration: a version may be registered again.
OverwriteEgress(g) ==
  LET others == {h \in EgressHistory(g) : h.version # g.version} IN
  /\ Continues(g, others)
  /\ egress' = (egress \ EgressHistory(g)) \cup others \cup {g}
  /\ UNCHANGED <<isolationVars, identities, workers, rollbacks, upgrades, checkpoints, releases>>

\* register_egress.
RegisterEgress(g) ==
  /\ Continues(g, EgressHistory(g))
  /\ egress' = egress \cup {g}
  /\ UNCHANGED <<isolationVars, identities, workers, rollbacks, upgrades, checkpoints, releases>>

\* assert_egress_current.
EgressCurrent(g) == IsLast(g, EgressHistory(g))

WorkerType == [tenant : Tenants, workerId : WorkerIds, version : 1 .. MaxVersions,
               identity : identities, egress : egress, registeredAt : Times]

\* register_worker: the identity is the newest one, whether or not its isolation
\* profile is still current.
RegisterWorker(w) ==
  /\ w.identity.tenant = w.tenant
  /\ IsCurrentIdentity(w.identity)
  /\ w.egress.tenant = w.tenant
  /\ EgressCurrent(w.egress)
  /\ w.identity.registeredAt =< w.registeredAt
  /\ w.egress.registeredAt =< w.registeredAt
  /\ Continues(w, WorkerHistory(w))
  /\ workers' = workers \cup {w}
  /\ UNCHANGED <<isolationVars, identities, egress, rollbacks, upgrades, checkpoints, releases>>

\* assert_worker_current.
WorkerCurrent(w) ==
  /\ IsLast(w, WorkerHistory(w))
  /\ EgressCurrent(w.egress)
  /\ IdentityCurrent(w.identity)

--------------------------------------------------------------------------------
\* register_rollback and register_upgrade: one plan per release name.
RegisterRollback(tenant, name, restore, at) ==
  /\ \A b \in rollbacks : b.tenant # tenant \/ b.name # name
  /\ rollbacks' = rollbacks \cup
       {[tenant |-> tenant, name |-> name, restore |-> restore, declaredAt |-> at]}
  /\ UNCHANGED <<isolationVars, identities, egress, workers, upgrades, checkpoints, releases>>

RegisterUpgrade(rollback, at) ==
  /\ \A u \in upgrades : u.tenant # rollback.tenant \/ u.name # rollback.name
  /\ rollback.declaredAt =< at
  /\ upgrades' = upgrades \cup
       {[tenant |-> rollback.tenant, name |-> rollback.name, rollback |-> rollback,
         declaredAt |-> at]}
  /\ UNCHANGED <<isolationVars, identities, egress, workers, rollbacks, checkpoints, releases>>

\* register_checkpoint: of the tenant's isolation as it is, at any represented time.
RegisterCheckpoint(id, name, snapshot, at) ==
  /\ \A c \in checkpoints : c.tenant # snapshot.tenant \/ c.id # id
  /\ ProfileCurrent(snapshot)
  /\ checkpoints' = checkpoints \cup
       {[tenant |-> snapshot.tenant, id |-> id, name |-> name, snapshot |-> snapshot,
         capturedAt |-> at]}
  /\ UNCHANGED <<isolationVars, identities, egress, workers, rollbacks, upgrades, releases>>

\* A mutant of the release: the identity is only checked to be the newest one.
RuntimeNewest(m) ==
  /\ IsCurrentIdentity(m.identity)
  /\ ProfileCurrent(m.isolation)
  /\ m.isolation.environment = "production"
  /\ m.identity.environment = "production"
  /\ EgressCurrent(m.egress)
  /\ IsLast(m.worker, WorkerHistory(m.worker))

\* The runtime a release binds; the worker carries an egress policy of its own.
RuntimeCurrent(m) ==
  /\ IsCurrentIdentity(m.identity)
  /\ ProfileCurrent(m.isolation)
  /\ m.isolation.environment = "production"
  /\ m.identity.environment = "production"
  /\ m.identity.isolation = m.isolation
  /\ EgressCurrent(m.egress)
  /\ WorkerCurrent(m.worker)

\* The plans and the checkpoint of the release itself.
PlansOf(m) ==
  /\ m.rollback.name = m.name /\ m.upgrade.name = m.name /\ m.checkpoint.name = m.name
  /\ m.upgrade.rollback = m.rollback

ReadyByRelease(m) ==
  /\ \A part \in {m.identity, m.egress, m.worker} : part.registeredAt =< m.registeredAt
  /\ m.rollback.declaredAt =< m.registeredAt
  /\ m.upgrade.declaredAt =< m.registeredAt
  /\ m.checkpoint.capturedAt =< m.registeredAt

\* register_release; version is release_sequence, registeredAt is released_at.
RegisterRelease(m) ==
  /\ m.version =< MaxReleases
  /\ PlansOf(m)
  /\ RuntimeCurrent(m)
  /\ ReadyByRelease(m)
  /\ \A part \in {m.isolation, m.identity, m.egress, m.worker, m.rollback, m.upgrade,
                  m.checkpoint} : part.tenant = m.tenant
  /\ \A n \in ReleaseHistory(m.tenant) : n.name[1] # m.name[1] /\ n.name[2] # m.name[2]
  /\ Continues(m, ReleaseHistory(m.tenant))
  /\ releases' = releases \cup {m}
  /\ UNCHANGED <<isolationVars, identities, egress, workers, rollbacks, upgrades, checkpoints>>

\* assert_release_current: assess_release says "reference_ready" of m at any time
\* from its release on, or "ineligible", and changes nothing.
ReferenceReady(m) ==
  /\ IsLast(m, ReleaseHistory(m.tenant))
  /\ IdentityCurrent(m.identity)
  /\ EgressCurrent(m.egress)
  /\ WorkerCurrent(m.worker)
  /\ ProfileCurrent(m.isolation)

Next ==
  \/ IsolationNext /\ UNCHANGED deploymentVars
  \/ \E i \in IdentityType : RegisterIdentity(i)
  \/ \E g \in EgressPolicies : RegisterEgress(g)
  \/ \E w \in WorkerType : RegisterWorker(w)
  \/ \E tenant \in Tenants, name \in ReleaseNames, restore \in RestorePoints, at \in Times :
        RegisterRollback(tenant, name, restore, at)
  \/ \E b \in rollbacks, at \in Times : RegisterUpgrade(b, at)
  \/ \E id \in CheckpointIds, name \in ReleaseNames, f \in profiles, at \in Times :
        RegisterCheckpoint(id, name, f, at)
  \/ \E u \in upgrades, c \in checkpoints, w \in workers, at \in Times :
       \E f \in profiles, i \in identities, g \in egress, b \in rollbacks :
         RegisterRelease(
           [tenant |-> w.tenant, version |-> Cardinality(ReleaseHistory(w.tenant)) + 1,
            name |-> u.name, isolation |-> f, identity |-> i, egress |-> g, worker |-> w,
            rollback |-> b, upgrade |-> u, checkpoint |-> c, registeredAt |-> at])

Spec == Init /\ [][Next]_vars

--------------------------------------------------------------------------------
\* All a release rests on, directly or through other records, existed by its
\* time: the worker's own egress policy, the isolation profile and its row-level-
\* security policies are bound indirectly, and their times are never compared
\* with the release's (register_release).
NothingFromTheFuture ==
  \A m \in releases :
    /\ \A part \in {m.isolation, m.identity, m.egress, m.worker, m.worker.egress}
                     \cup m.isolation.policies : part.registeredAt =< m.registeredAt
    /\ m.upgrade.rollback.declaredAt =< m.registeredAt
    /\ m.checkpoint.capturedAt =< m.registeredAt

\* A release is of one piece: its worker runs under the release's identity, the
\* identity in the release's isolation profile, all of them production, its
\* upgrade plan goes with its rollback plan, and all belong to its tenant.  The
\* worker's identity is never compared with the release's.
OneRuntimePerRelease ==
  \A m \in releases :
    /\ m.worker.identity = m.identity
    /\ m.identity.isolation = m.isolation
    /\ m.worker.identity.environment = "production"
    /\ m.isolation.environment = "production"
    /\ m.upgrade.rollback = m.rollback
    /\ \A part \in {m.isolation, m.worker, m.worker.egress, m.checkpoint.snapshot} :
          part.tenant = m.tenant

\* docs/PRODUCTION_REFERENCE.md: after drift "current eligibility fails closed".
\* It does for good: no later registration, in either registry, makes a release
\* that was ineligible reference-ready again (assert_release_current).
IneligibleForGood ==
  [][\A m \in releases : ReferenceReady(m)' => ReferenceReady(m)]_vars

\* docs/PRODUCTION_REFERENCE.md: no release is reference-ready without the
\* "RecoveryCheckpoint -- exact current tenant-isolation snapshot".
CheckpointIsCurrent ==
  \A m \in releases : ReferenceReady(m) => m.checkpoint.snapshot = m.isolation
================================================================================
