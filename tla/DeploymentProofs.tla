--------------------------- MODULE DeploymentProofs ----------------------------
(***************************************************************************)
(* Proofs about TenantIsolation, Deployment and Stability, for every set   *)
(* of policies, tenants, names and times and for every bound.  Records are *)
(* immutable and the histories only grow: the inductive invariant says of  *)
(* every record what its registration made sure of, and of the identities  *)
(* and releases of a tenant that they are numbered in the order of their   *)
(* times.  The rest follows from "last of a history" being lost for good.  *)
(***************************************************************************)
EXTENDS Stability, TLAPS

\* A history in the order of its versions, which are those of one record each.
Ordered(S) ==
  /\ \A x \in S : x.version \in Nat /\ x.registeredAt \in Int
  /\ \A x, y \in S : /\ x.version = y.version => x = y
                     /\ x.version < y.version => x.registeredAt =< y.registeredAt

PoliciesHold ==
  /\ policies \subseteq RlsPolicies
  /\ \A f \in profiles :
       /\ f.tenant \in Tenants /\ f.registeredAt \in Times
       /\ f.policies \subseteq policies
       /\ \A p \in f.policies : p.registeredAt =< f.registeredAt

IdentitiesHold ==
  /\ \A i \in identities :
       /\ i.tenant \in Tenants /\ i.registeredAt \in Times
       /\ i.isolation \in profiles
       /\ i.isolation.tenant = i.tenant
       /\ i.isolation.environment = i.environment
       /\ i.isolation.registeredAt =< i.registeredAt
  /\ \A t \in Tenants : Ordered(IdentityHistory(t))

WorkersHold ==
  /\ egress \subseteq EgressPolicies
  /\ \A w \in workers :
       /\ w.tenant \in Tenants /\ w.registeredAt \in Times
       /\ w.identity \in identities /\ w.egress \in egress
       /\ w.identity.tenant = w.tenant /\ w.egress.tenant = w.tenant
       /\ w.egress.registeredAt =< w.registeredAt

CheckpointsHold == \A c \in checkpoints : c.snapshot.tenant = c.tenant

ReleasesHold ==
  /\ \A m \in releases :
       /\ m.tenant \in Tenants /\ m.registeredAt \in Times
       /\ m.isolation \in profiles /\ m.identity \in identities
       /\ m.egress \in egress /\ m.worker \in workers
  /\ \A t \in Tenants : Ordered(ReleaseHistory(t))
  /\ NothingFromTheFuture
  /\ OneRuntimePerRelease

DeploymentInv ==
  PoliciesHold /\ IdentitiesHold /\ WorkersHold /\ CheckpointsHold /\ ReleasesHold

StabilityInv ==
  /\ DeploymentInv
  /\ \A b \in baselines :
       /\ b.source \in releases /\ b.target \in releases
       /\ b.source.tenant = b.target.tenant
       /\ b.source.version < b.target.version
       /\ b.source.registeredAt =< b.assembledAt
       /\ b.target.registeredAt =< b.assembledAt
       /\ b.assembledAt \in Times

--------------------------------------------------------------------------------
\* What may continue an ordered history is newer than all of it and not earlier,
\* and leaves it ordered.
LEMMA ContinuesOrdered ==
  ASSUME NEW S, Ordered(S), NEW x, Continues(x, S), x.registeredAt \in Int
  PROVE  /\ x.version \in Nat
         /\ \A y \in S : y.version < x.version /\ y.registeredAt =< x.registeredAt
         /\ Ordered(S \cup {x})
<1>1. CASE S = {}
  BY <1>1 DEF Continues, Ordered
<1>2. CASE S # {}
  <2>1. PICK last \in S : /\ IsLast(last, S)
                          /\ x.version = last.version + 1
                          /\ last.registeredAt =< x.registeredAt
    BY <1>2 DEF Continues
  <2>2. x.version \in Nat /\ last.version \in Nat /\ last.registeredAt \in Int
    BY <2>1 DEF Ordered
  <2>3. ASSUME NEW y \in S
        PROVE  y.version < x.version /\ y.registeredAt =< x.registeredAt
    <3>1. y.version \in Nat /\ y.registeredAt \in Int /\ y.version =< last.version
      BY <2>1 DEF Ordered, IsLast
    <3>2. y.registeredAt =< last.registeredAt
      <4>1. CASE y.version = last.version
        BY <2>2, <4>1 DEF Ordered
      <4>2. CASE y.version < last.version
        BY <4>2 DEF Ordered
      <4> QED BY <2>2, <3>1, <4>1, <4>2
    <3> QED BY <2>1, <2>2, <3>1, <3>2
  <2>4. Ordered(S \cup {x})
    <3>1. \A y \in S : y.version \in Nat /\ y.registeredAt \in Int
      BY DEF Ordered
    <3>2. \A y \in S \cup {x} : y.version \in Nat /\ y.registeredAt \in Int
      BY <2>2, <3>1
    <3>3. ASSUME NEW y \in S \cup {x}, NEW z \in S \cup {x}
          PROVE  /\ y.version = z.version => y = z
                 /\ y.version < z.version => y.registeredAt =< z.registeredAt
      <4>1. CASE y \in S /\ z \in S
        BY <4>1 DEF Ordered
      <4>2. CASE y = x \/ z = x
        BY <2>2, <2>3, <3>2, <4>2
      <4> QED BY <4>1, <4>2
    <3> QED BY <3>2, <3>3 DEF Ordered
  <2> QED BY <2>2, <2>3, <2>4
<1> QED BY <1>1, <1>2

\* Two last elements of an ordered history are one.
LEMMA OneLast ==
  ASSUME NEW S, Ordered(S), NEW x, IsLast(x, S), NEW y, IsLast(y, S)
  PROVE  x = y
  BY DEF Ordered, IsLast

\* The last element of a history was the last one of every part of it it is in.
LEMMA LastOfPart ==
  ASSUME NEW S, NEW T, S \subseteq T, NEW x \in S, IsLast(x, T)
  PROVE  IsLast(x, S)
  BY DEF IsLast

\* The times of the policies callers present are represented times.
LEMMA TimesAreIntegers ==
  /\ \A at \in Times : at \in Int
  /\ \A p \in RlsPolicies : p.registeredAt \in Int
  /\ \A g \in EgressPolicies : g.registeredAt \in Int
  BY MaxTimeAssumption, RlsPoliciesAssumption, EgressAssumption DEF Times, WellFormedPolicy

--------------------------------------------------------------------------------
LEMMA Init_Inv == Init => DeploymentInv
  BY DEF Init, IsolationInit, DeploymentInv, PoliciesHold, IdentitiesHold, WorkersHold,
         CheckpointsHold, ReleasesHold, Ordered, IdentityHistory, ReleaseHistory,
         NothingFromTheFuture, OneRuntimePerRelease

\* What the isolation registry adds disturbs no record of the production registry.
LEMMA Isolation_Inv ==
  ASSUME DeploymentInv, IsolationNext, UNCHANGED deploymentVars
  PROVE  DeploymentInv'
<1> USE DEF DeploymentInv
<1>1. PoliciesHold' /\ profiles \subseteq profiles'
  <2>1. ASSUME NEW p \in RlsPolicies, RegisterPolicy(p)
        PROVE  PoliciesHold' /\ profiles \subseteq profiles'
    BY <2>1 DEF RegisterPolicy, PoliciesHold
  <2>2. ASSUME NEW f \in ProfileType, RegisterProfile(f)
        PROVE  PoliciesHold' /\ profiles \subseteq profiles'
    <3>1. f.tenant \in Tenants /\ f.registeredAt \in Times /\ f.policies \subseteq policies
      BY DEF ProfileType
    <3>2. \A p \in f.policies : p.registeredAt =< f.registeredAt
      BY <2>2 DEF RegisterProfile, BindsCurrent
    <3> QED BY <2>2, <3>1, <3>2 DEF RegisterProfile, PoliciesHold
  <2> QED BY <2>1, <2>2 DEF IsolationNext
<1>2. IdentitiesHold' /\ WorkersHold' /\ CheckpointsHold' /\ ReleasesHold'
  BY <1>1 DEF deploymentVars, IdentitiesHold, WorkersHold, CheckpointsHold, ReleasesHold,
              IdentityHistory, ReleaseHistory, NothingFromTheFuture, OneRuntimePerRelease
<1> QED BY <1>1, <1>2

LEMMA Identity_Inv ==
  ASSUME DeploymentInv, NEW i \in IdentityType, RegisterIdentity(i)
  PROVE  DeploymentInv'
<1> USE DEF DeploymentInv
<1>1. /\ i.tenant \in Tenants /\ i.registeredAt \in Times /\ i.isolation \in profiles
      /\ identities' = identities \cup {i}
      /\ UNCHANGED <<isolationVars, egress, workers, checkpoints, releases>>
  BY DEF IdentityType, RegisterIdentity, isolationVars
<1>2. Ordered(IdentityHistory(i.tenant) \cup {i})
  BY <1>1, ContinuesOrdered, TimesAreIntegers DEF RegisterIdentity, IdentitiesHold
<1>3. ASSUME NEW t \in Tenants PROVE Ordered(IdentityHistory(t)')
  <2>1. CASE t = i.tenant
    <3>1. IdentityHistory(t)' = IdentityHistory(i.tenant) \cup {i}
      BY <1>1, <2>1 DEF IdentityHistory
    <3> QED BY <1>2, <3>1
  <2>2. CASE t # i.tenant
    <3>1. IdentityHistory(t)' = IdentityHistory(t)
      BY <1>1, <2>2 DEF IdentityHistory
    <3> QED BY <3>1 DEF IdentitiesHold
  <2> QED BY <2>1, <2>2
<1>4. IdentitiesHold'
  BY <1>1, <1>3 DEF RegisterIdentity, IdentityBinds, IdentitiesHold, isolationVars, Ordered
<1>5. PoliciesHold' /\ WorkersHold' /\ CheckpointsHold' /\ ReleasesHold'
  BY <1>1 DEF isolationVars, PoliciesHold, WorkersHold, CheckpointsHold, ReleasesHold,
              ReleaseHistory, NothingFromTheFuture, OneRuntimePerRelease
<1> QED BY <1>4, <1>5

LEMMA Egress_Inv ==
  ASSUME DeploymentInv, NEW g \in EgressPolicies, RegisterEgress(g)
  PROVE  DeploymentInv'
  BY DEF RegisterEgress, isolationVars, DeploymentInv, PoliciesHold, IdentitiesHold,
         WorkersHold, CheckpointsHold, ReleasesHold, IdentityHistory, ReleaseHistory,
         NothingFromTheFuture, OneRuntimePerRelease

LEMMA Worker_Inv ==
  ASSUME DeploymentInv, NEW w \in WorkerType, RegisterWorker(w)
  PROVE  DeploymentInv'
<1> USE DEF DeploymentInv
<1>1. /\ w.tenant \in Tenants /\ w.registeredAt \in Times
      /\ w.identity \in identities /\ w.egress \in egress
  BY DEF WorkerType
<1>2. WorkersHold'
  BY <1>1 DEF RegisterWorker, WorkersHold
<1>3. PoliciesHold' /\ IdentitiesHold' /\ CheckpointsHold' /\ ReleasesHold'
  BY DEF RegisterWorker, isolationVars, PoliciesHold, IdentitiesHold, CheckpointsHold,
         ReleasesHold, IdentityHistory, ReleaseHistory, NothingFromTheFuture,
         OneRuntimePerRelease
<1> QED BY <1>2, <1>3

\* A plan or a checkpoint disturbs nothing; a checkpoint is of its snapshot's tenant.
LEMMA Plans_Inv ==
  ASSUME DeploymentInv,
         UNCHANGED <<isolationVars, identities, egress, workers, releases>>,
         CheckpointsHold'
  PROVE  DeploymentInv'
  BY DEF isolationVars, DeploymentInv, PoliciesHold, IdentitiesHold, WorkersHold,
         ReleasesHold, IdentityHistory, ReleaseHistory, NothingFromTheFuture,
         OneRuntimePerRelease

\* The worker of a release runs under its identity: both are the newest of the
\* tenant, and there is one newest.
LEMMA WorkerRunsUnderIdentity ==
  ASSUME DeploymentInv, NEW m, RegisterRelease(m), m.identity \in identities,
         m.worker \in workers
  PROVE  m.worker.identity = m.identity
<1>1. /\ m.worker.tenant = m.tenant /\ m.identity.tenant = m.tenant
      /\ IsCurrentIdentity(m.identity) /\ IsCurrentIdentity(m.worker.identity)
  BY DEF RegisterRelease, RuntimeCurrent, WorkerCurrent, IdentityCurrent
<1>2. m.worker.identity.tenant = m.tenant /\ m.tenant \in Tenants
  BY <1>1 DEF DeploymentInv, WorkersHold
<1>3. Ordered(IdentityHistory(m.tenant))
  BY <1>2 DEF DeploymentInv, IdentitiesHold
<1> QED BY <1>1, <1>2, <1>3, OneLast DEF IsCurrentIdentity

LEMMA Release_Inv ==
  ASSUME DeploymentInv, NEW m, RegisterRelease(m),
         m.isolation \in profiles, m.identity \in identities, m.egress \in egress,
         m.worker \in workers, m.checkpoint \in checkpoints, m.registeredAt \in Times
  PROVE  DeploymentInv'
<1> USE DEF DeploymentInv
<1>1. /\ releases' = releases \cup {m}
      /\ UNCHANGED <<isolationVars, identities, egress, workers, checkpoints>>
  BY DEF RegisterRelease
<1>2. /\ PlansOf(m) /\ RuntimeCurrent(m) /\ ReadyByRelease(m)
      /\ m.isolation.tenant = m.tenant /\ m.worker.tenant = m.tenant
      /\ m.checkpoint.tenant = m.tenant
  BY DEF RegisterRelease
<1>3. m.tenant \in Tenants
  BY <1>2 DEF WorkersHold
<1>4. Ordered(ReleaseHistory(m.tenant) \cup {m})
  BY <1>3, ContinuesOrdered, TimesAreIntegers DEF RegisterRelease, ReleasesHold
<1>5. ASSUME NEW t \in Tenants PROVE Ordered(ReleaseHistory(t)')
  <2>1. CASE t = m.tenant
    <3>1. ReleaseHistory(t)' = ReleaseHistory(m.tenant) \cup {m}
      BY <1>1, <2>1 DEF ReleaseHistory
    <3> QED BY <1>4, <3>1
  <2>2. CASE t # m.tenant
    <3>1. ReleaseHistory(t)' = ReleaseHistory(t)
      BY <1>1, <2>2 DEF ReleaseHistory
    <3> QED BY <3>1 DEF ReleasesHold
  <2> QED BY <2>1, <2>2
<1>6. NothingFromTheFuture'
  <2>1. /\ m.identity.registeredAt =< m.registeredAt
        /\ m.egress.registeredAt =< m.registeredAt
        /\ m.worker.registeredAt =< m.registeredAt
    BY <1>2 DEF ReadyByRelease
  <2>2. /\ m.worker.egress \in EgressPolicies
        /\ m.worker.egress.registeredAt =< m.worker.registeredAt
        /\ m.worker.registeredAt \in Times
    BY DEF WorkersHold
  <2>3. m.worker.egress.registeredAt =< m.registeredAt
    BY <2>1, <2>2, TimesAreIntegers
  <2>4. /\ m.isolation.registeredAt =< m.identity.registeredAt
        /\ m.isolation.registeredAt \in Times /\ m.identity.registeredAt \in Times
    BY <1>2 DEF RuntimeCurrent, IdentitiesHold, PoliciesHold
  <2>5. m.isolation.registeredAt =< m.registeredAt
    BY <2>1, <2>4, TimesAreIntegers
  <2>6. \A p \in m.isolation.policies : p.registeredAt =< m.registeredAt
    <3> SUFFICES ASSUME NEW p \in m.isolation.policies
                 PROVE  p.registeredAt =< m.registeredAt
      OBVIOUS
    <3>1. p \in RlsPolicies /\ p.registeredAt =< m.isolation.registeredAt
      BY DEF PoliciesHold
    <3> QED BY <2>4, <2>5, <3>1, TimesAreIntegers
  <2>7. /\ m.upgrade.rollback.declaredAt =< m.registeredAt
        /\ m.checkpoint.capturedAt =< m.registeredAt
    BY <1>2 DEF PlansOf, ReadyByRelease
  <2>8. ASSUME NEW n \in releases'
        PROVE  /\ \A part \in {n.isolation, n.identity, n.egress, n.worker, n.worker.egress}
                                \cup n.isolation.policies : part.registeredAt =< n.registeredAt
               /\ n.upgrade.rollback.declaredAt =< n.registeredAt
               /\ n.checkpoint.capturedAt =< n.registeredAt
    <3>1. CASE n = m
      BY <2>1, <2>3, <2>5, <2>6, <2>7, <3>1
    <3>2. CASE n \in releases
      BY <3>2 DEF ReleasesHold, NothingFromTheFuture
    <3> QED BY <1>1, <3>1, <3>2
  <2> QED BY <2>8 DEF NothingFromTheFuture
<1>7. OneRuntimePerRelease'
  <2>1. m.worker.identity = m.identity
    BY WorkerRunsUnderIdentity
  <2>2. /\ m.identity.isolation = m.isolation
        /\ m.identity.environment = "production" /\ m.isolation.environment = "production"
        /\ m.upgrade.rollback = m.rollback
    BY <1>2 DEF RuntimeCurrent, PlansOf
  <2>3. m.worker.egress.tenant = m.tenant /\ m.checkpoint.snapshot.tenant = m.tenant
    BY <1>2 DEF WorkersHold, CheckpointsHold
  <2> QED BY <1>1, <1>2, <2>1, <2>2, <2>3 DEF ReleasesHold, OneRuntimePerRelease
<1>8. ReleasesHold'
  BY <1>1, <1>3, <1>5, <1>6, <1>7 DEF isolationVars, ReleasesHold
<1>9. PoliciesHold' /\ IdentitiesHold' /\ WorkersHold' /\ CheckpointsHold'
  BY <1>1 DEF isolationVars, PoliciesHold, IdentitiesHold, WorkersHold, CheckpointsHold,
              IdentityHistory
<1> QED BY <1>8, <1>9

LEMMA Next_Inv == DeploymentInv /\ [Next]_vars => DeploymentInv'
<1> SUFFICES ASSUME DeploymentInv, [Next]_vars PROVE DeploymentInv'
  OBVIOUS
<1>1. CASE IsolationNext /\ UNCHANGED deploymentVars
  BY <1>1, Isolation_Inv
<1>2. ASSUME NEW i \in IdentityType, RegisterIdentity(i) PROVE DeploymentInv'
  BY <1>2, Identity_Inv
<1>3. ASSUME NEW g \in EgressPolicies, RegisterEgress(g) PROVE DeploymentInv'
  BY <1>3, Egress_Inv
<1>4. ASSUME NEW w \in WorkerType, RegisterWorker(w) PROVE DeploymentInv'
  BY <1>4, Worker_Inv
<1>5. ASSUME NEW tenant \in Tenants, NEW name \in ReleaseNames, NEW restore \in RestorePoints,
             NEW at \in Times, RegisterRollback(tenant, name, restore, at)
      PROVE  DeploymentInv'
  BY <1>5, Plans_Inv DEF RegisterRollback, DeploymentInv, CheckpointsHold
<1>6. ASSUME NEW b \in rollbacks, NEW at \in Times, RegisterUpgrade(b, at)
      PROVE  DeploymentInv'
  BY <1>6, Plans_Inv DEF RegisterUpgrade, DeploymentInv, CheckpointsHold
<1>7. ASSUME NEW id \in CheckpointIds, NEW name \in ReleaseNames, NEW f \in profiles,
             NEW at \in Times, RegisterCheckpoint(id, name, f, at)
      PROVE  DeploymentInv'
  BY <1>7, Plans_Inv DEF RegisterCheckpoint, DeploymentInv, CheckpointsHold
<1>8. ASSUME NEW u \in upgrades, NEW c \in checkpoints, NEW w \in workers, NEW at \in Times,
             NEW f \in profiles, NEW i \in identities, NEW g \in egress, NEW b \in rollbacks,
             RegisterRelease(
               [tenant |-> w.tenant, version |-> Cardinality(ReleaseHistory(w.tenant)) + 1,
                name |-> u.name, isolation |-> f, identity |-> i, egress |-> g, worker |-> w,
                rollback |-> b, upgrade |-> u, checkpoint |-> c, registeredAt |-> at])
      PROVE  DeploymentInv'
  <2> DEFINE m == [tenant |-> w.tenant,
                   version |-> Cardinality(ReleaseHistory(w.tenant)) + 1,
                   name |-> u.name, isolation |-> f, identity |-> i, egress |-> g,
                   worker |-> w, rollback |-> b, upgrade |-> u, checkpoint |-> c,
                   registeredAt |-> at]
  <2>1. /\ m.isolation \in profiles /\ m.identity \in identities /\ m.egress \in egress
        /\ m.worker \in workers /\ m.checkpoint \in checkpoints /\ m.registeredAt \in Times
    OBVIOUS
  <2>2. RegisterRelease(m)
    BY <1>8
  <2> HIDE DEF m
  <2> QED BY <2>1, <2>2, Release_Inv
<1>9. CASE UNCHANGED vars
  BY <1>9, Plans_Inv DEF vars, deploymentVars, DeploymentInv, CheckpointsHold
<1> QED BY <1>1, <1>2, <1>3, <1>4, <1>5, <1>6, <1>7, <1>8, <1>9 DEF Next

LEMMA DeploymentInvariant == Spec => []DeploymentInv
<1>1. Init => DeploymentInv
  BY Init_Inv
<1>2. DeploymentInv /\ [Next]_vars => DeploymentInv'
  BY Next_Inv
<1> QED BY <1>1, <1>2, PTL DEF Spec

\* All a production release rests on existed by its time, however indirectly it is
\* bound: the worker's own egress policy is not later than the worker, the
\* isolation profile not later than the identity, its row-level-security policies
\* not later than the profile (register_profile, register_identity,
\* register_worker, register_release).
THEOREM NothingIsFromTheFuture == Spec => []NothingFromTheFuture
<1>1. DeploymentInv => NothingFromTheFuture
  BY DEF DeploymentInv, ReleasesHold
<1> QED BY <1>1, DeploymentInvariant, PTL

\* A release is of one piece: register_release never compares the worker's
\* identity with the release's, but requires each to be the newest of the tenant,
\* and there is one newest.
THEOREM ReleasesAreOfOnePiece == Spec => []OneRuntimePerRelease
<1>1. DeploymentInv => OneRuntimePerRelease
  BY DEF DeploymentInv, ReleasesHold
<1> QED BY <1>1, DeploymentInvariant, PTL

\* No step takes a record away from either registry.
LEMMA RegistriesGrow ==
  ASSUME [Next]_vars
  PROVE  /\ policies \subseteq policies' /\ profiles \subseteq profiles'
         /\ identities \subseteq identities' /\ egress \subseteq egress'
         /\ workers \subseteq workers' /\ releases \subseteq releases'
<1> USE DEF isolationVars, deploymentVars
<1>1. ASSUME NEW p \in RlsPolicies, RegisterPolicy(p), UNCHANGED deploymentVars
      PROVE  policies \subseteq policies' /\ UNCHANGED <<profiles, deploymentVars>>
  BY <1>1 DEF RegisterPolicy
<1>2. ASSUME NEW f \in ProfileType, RegisterProfile(f), UNCHANGED deploymentVars
      PROVE  profiles \subseteq profiles' /\ UNCHANGED <<policies, deploymentVars>>
  BY <1>2 DEF RegisterProfile
<1>3. CASE IsolationNext /\ UNCHANGED deploymentVars
  BY <1>1, <1>2, <1>3 DEF IsolationNext
<1>4. CASE \E i \in IdentityType : RegisterIdentity(i)
  BY <1>4 DEF RegisterIdentity
<1>5. CASE \E g \in EgressPolicies : RegisterEgress(g)
  BY <1>5 DEF RegisterEgress
<1>6. CASE \E w \in WorkerType : RegisterWorker(w)
  BY <1>6 DEF RegisterWorker
<1>7. ASSUME NEW tenant, NEW name, NEW restore, NEW at,
             RegisterRollback(tenant, name, restore, at)
      PROVE  UNCHANGED <<isolationVars, identities, egress, workers, releases>>
  BY <1>7 DEF RegisterRollback
<1>8. ASSUME NEW b, NEW at, RegisterUpgrade(b, at)
      PROVE  UNCHANGED <<isolationVars, identities, egress, workers, releases>>
  BY <1>8 DEF RegisterUpgrade
<1>9. ASSUME NEW id, NEW name, NEW f, NEW at, RegisterCheckpoint(id, name, f, at)
      PROVE  UNCHANGED <<isolationVars, identities, egress, workers, releases>>
  BY <1>9 DEF RegisterCheckpoint
<1>10. ASSUME NEW m, RegisterRelease(m)
       PROVE  /\ releases \subseteq releases'
              /\ UNCHANGED <<isolationVars, identities, egress, workers>>
  BY <1>10 DEF RegisterRelease
<1>11. CASE UNCHANGED vars
  BY <1>11 DEF vars
<1> QED BY <1>3, <1>4, <1>5, <1>6, <1>7, <1>8, <1>9, <1>10, <1>11 DEF Next

\* Currency is lost for good: what is current after a step was current before it.
LEMMA CurrencyWasThere ==
  ASSUME DeploymentInv, [Next]_vars
  PROVE  /\ \A f \in profiles : ProfileCurrent(f)' => ProfileCurrent(f)
         /\ \A i \in identities : IdentityCurrent(i)' => IdentityCurrent(i)
         /\ \A g \in egress : EgressCurrent(g)' => EgressCurrent(g)
         /\ \A w \in workers : WorkerCurrent(w)' => WorkerCurrent(w)
<1>1. ASSUME NEW f \in profiles, ProfileCurrent(f)' PROVE ProfileCurrent(f)
  <2>1. IsLast(f, ProfileHistory(f.tenant))
    <3>1. /\ IsLast(f, ProfileHistory(f.tenant)') /\ f \in ProfileHistory(f.tenant)
          /\ ProfileHistory(f.tenant) \subseteq ProfileHistory(f.tenant)'
      BY <1>1, RegistriesGrow DEF ProfileCurrent, ProfileHistory
    <3> QED BY <3>1, LastOfPart
  <2>2. ASSUME NEW p \in f.policies PROVE PolicyCurrent(p)
    <3>1. p \in policies
      BY DEF DeploymentInv, PoliciesHold
    <3>2. /\ IsLast(p, PolicyHistory(p)') /\ p \in PolicyHistory(p)
          /\ PolicyHistory(p) \subseteq PolicyHistory(p)'
      BY <1>1, <3>1, RegistriesGrow DEF ProfileCurrent, PolicyCurrent, PolicyHistory
    <3> QED BY <3>2, LastOfPart DEF PolicyCurrent
  <2> QED BY <2>1, <2>2 DEF ProfileCurrent
<1>2. ASSUME NEW i \in identities, IdentityCurrent(i)' PROVE IdentityCurrent(i)
  <2>1. /\ IsLast(i, IdentityHistory(i.tenant)') /\ i \in IdentityHistory(i.tenant)
        /\ IdentityHistory(i.tenant) \subseteq IdentityHistory(i.tenant)'
    BY <1>2, RegistriesGrow DEF IdentityCurrent, IsCurrentIdentity, IdentityHistory
  <2>2. i.isolation \in profiles
    BY DEF DeploymentInv, IdentitiesHold
  <2>3. ProfileCurrent(i.isolation)
    BY <1>1, <1>2, <2>2 DEF IdentityCurrent
  <2> QED BY <2>1, <2>3, LastOfPart DEF IdentityCurrent, IsCurrentIdentity
<1>3. ASSUME NEW g \in egress, EgressCurrent(g)' PROVE EgressCurrent(g)
  <2>1. /\ IsLast(g, EgressHistory(g)') /\ g \in EgressHistory(g)
        /\ EgressHistory(g) \subseteq EgressHistory(g)'
    BY <1>3, RegistriesGrow DEF EgressCurrent, EgressHistory
  <2> QED BY <2>1, LastOfPart DEF EgressCurrent
<1>4. ASSUME NEW w \in workers, WorkerCurrent(w)' PROVE WorkerCurrent(w)
  <2>1. /\ IsLast(w, WorkerHistory(w)') /\ w \in WorkerHistory(w)
        /\ WorkerHistory(w) \subseteq WorkerHistory(w)'
    BY <1>4, RegistriesGrow DEF WorkerCurrent, WorkerHistory
  <2>2. w.identity \in identities /\ w.egress \in egress
    BY DEF DeploymentInv, WorkersHold
  <2>3. IdentityCurrent(w.identity) /\ EgressCurrent(w.egress)
    BY <1>2, <1>3, <1>4, <2>2 DEF WorkerCurrent
  <2> QED BY <2>1, <2>3, LastOfPart DEF WorkerCurrent
<1> QED BY <1>1, <1>2, <1>3, <1>4

\* A release that was ineligible never becomes reference-ready again, for any
\* number of policies, profiles, identities, workers and releases: each part of
\* assert_release_current asks for the last of an append-only history.
THEOREM IneligibilityIsForGood == Spec => IneligibleForGood
<1>1. ASSUME DeploymentInv, [Next]_vars
      PROVE  \A m \in releases : ReferenceReady(m)' => ReferenceReady(m)
  <2> SUFFICES ASSUME NEW m \in releases, ReferenceReady(m)' PROVE ReferenceReady(m)
    OBVIOUS
  <2>1. /\ IsLast(m, ReleaseHistory(m.tenant)') /\ m \in ReleaseHistory(m.tenant)
        /\ ReleaseHistory(m.tenant) \subseteq ReleaseHistory(m.tenant)'
    BY <1>1, RegistriesGrow DEF ReferenceReady, ReleaseHistory
  <2>2. /\ m.isolation \in profiles /\ m.identity \in identities
        /\ m.egress \in egress /\ m.worker \in workers
    BY <1>1 DEF DeploymentInv, ReleasesHold
  <2>3. /\ ProfileCurrent(m.isolation)' /\ IdentityCurrent(m.identity)'
        /\ EgressCurrent(m.egress)' /\ WorkerCurrent(m.worker)'
    BY DEF ReferenceReady
  <2>4. /\ ProfileCurrent(m.isolation) /\ IdentityCurrent(m.identity)
        /\ EgressCurrent(m.egress) /\ WorkerCurrent(m.worker)
    BY <1>1, <2>2, <2>3, CurrencyWasThere
  <2> QED BY <2>1, <2>4, LastOfPart DEF ReferenceReady
<1> QED BY <1>1, DeploymentInvariant, PTL DEF Spec, IneligibleForGood

--------------------------------------------------------------------------------
\* The stable baseline only reads the production registry: a behaviour of the two
\* is a behaviour of the production registry, so that every theorem above holds of
\* it (register_baseline).
THEOREM BaselinesOnlyRead == StabilitySpec => Spec
<1>1. StabilityInit => Init
  BY DEF StabilityInit
<1>2. [StabilityNext]_stabilityVars => [Next]_vars
  BY DEF StabilityNext, RegisterBaseline, stabilityVars
<1> QED BY <1>1, <1>2, PTL DEF StabilitySpec, Spec

LEMMA Baseline_Inv ==
  ASSUME StabilityInv, NEW b \in BaselineType, RegisterBaseline(b)
  PROVE  StabilityInv'
<1>1. b.source \in releases /\ b.target \in releases /\ b.assembledAt \in Times
  BY DEF BaselineType
<1>2. b.source.tenant = b.target.tenant /\ b.source # b.target
  BY DEF RegisterBaseline
<1>3. Ordered(ReleaseHistory(b.target.tenant)) /\ b.target.tenant \in Tenants
  BY <1>1 DEF StabilityInv, DeploymentInv, ReleasesHold
<1>4. /\ b.source \in ReleaseHistory(b.target.tenant)
      /\ b.target \in ReleaseHistory(b.target.tenant)
  BY <1>1, <1>2 DEF ReleaseHistory
<1>5. b.source.version < b.target.version
  <2>1. b.source.version =< b.target.version
    BY <1>4 DEF RegisterBaseline, TargetReady, ReferenceReady, IsLast
  <2> QED BY <1>2, <1>3, <1>4, <2>1 DEF Ordered
<1>6. /\ b.source.registeredAt =< b.assembledAt
      /\ b.target.registeredAt =< b.assembledAt
  <2>1. /\ b.source.registeredAt =< b.target.registeredAt
        /\ b.target.registeredAt =< b.assembledAt
    BY DEF RegisterBaseline, Chronological
  <2>2. b.source.registeredAt \in Times /\ b.target.registeredAt \in Times
    BY <1>1 DEF StabilityInv, DeploymentInv, ReleasesHold
  <2> QED BY <1>1, <2>1, <2>2, TimesAreIntegers
<1>7. DeploymentInv'
  <2>1. UNCHANGED vars
    BY DEF RegisterBaseline
  <2> QED BY <2>1, Next_Inv DEF StabilityInv
<1> QED BY <1>1, <1>2, <1>5, <1>6, <1>7 DEF RegisterBaseline, StabilityInv, vars,
                                           deploymentVars

LEMMA StabilityInvariant == StabilitySpec => []StabilityInv
<1>1. StabilityInit => StabilityInv
  BY Init_Inv DEF StabilityInit, StabilityInv
<1>2. ASSUME StabilityInv, [StabilityNext]_stabilityVars PROVE StabilityInv'
  <2>1. CASE [Next]_vars /\ UNCHANGED baselines
    <3>1. DeploymentInv'
      BY <1>2, <2>1, Next_Inv DEF StabilityInv
    <3>2. releases \subseteq releases'
      BY <2>1, RegistriesGrow
    <3> QED BY <1>2, <2>1, <3>1, <3>2 DEF StabilityInv
  <2>2. ASSUME NEW b \in BaselineType, RegisterBaseline(b) PROVE StabilityInv'
    BY <1>2, <2>2, Baseline_Inv
  <2> QED BY <1>2, <2>1, <2>2 DEF StabilityNext, stabilityVars
<1> QED BY <1>1, <1>2, PTL DEF StabilitySpec

\* The baseline rests on one release history: the target is the newest release and
\* the source another one of the tenant, so the source precedes it; what the two
\* rest on is not later than they are; and while the target is the newest release
\* the source cannot be current (register_baseline, assert_baseline_current).
THEOREM BaselineHistoryIsOne == StabilitySpec => []BaselineRestsOnOneHistory
<1>1. ASSUME StabilityInv PROVE BaselineRestsOnOneHistory
  <2> SUFFICES ASSUME NEW b \in baselines
               PROVE  /\ b.source.tenant = b.target.tenant
                      /\ b.source.version < b.target.version
                      /\ \A part \in {b.source, b.target, b.target.isolation,
                                      b.target.worker.egress, b.source.worker.egress} :
                            part.registeredAt =< b.assembledAt
                      /\ BaselineCurrent(b) =>
                           /\ \A m \in ReleaseHistory(b.target.tenant) :
                                 m.version =< b.target.version
                           /\ ~ ReferenceReady(b.source)
    BY DEF BaselineRestsOnOneHistory
  <2> USE <1>1 DEF StabilityInv
  <2>1. /\ b.source \in releases /\ b.target \in releases
        /\ b.source.tenant = b.target.tenant
        /\ b.source.version < b.target.version
        /\ b.source.registeredAt =< b.assembledAt
        /\ b.target.registeredAt =< b.assembledAt
        /\ b.assembledAt \in Times
    OBVIOUS
  <2>2. ASSUME NEW m \in releases
        PROVE  /\ m.registeredAt \in Times /\ m.isolation.registeredAt \in Times
               /\ m.worker.egress.registeredAt \in Int
               /\ m.isolation.registeredAt =< m.registeredAt
               /\ m.worker.egress.registeredAt =< m.registeredAt
    <3>1. m.registeredAt \in Times /\ m.isolation.registeredAt \in Times
      BY DEF DeploymentInv, ReleasesHold, PoliciesHold
    <3>2. m.worker.egress.registeredAt \in Int
      BY TimesAreIntegers DEF DeploymentInv, ReleasesHold, WorkersHold
    <3>3. /\ m.isolation.registeredAt =< m.registeredAt
          /\ m.worker.egress.registeredAt =< m.registeredAt
      BY DEF DeploymentInv, ReleasesHold, NothingFromTheFuture
    <3> QED BY <3>1, <3>2, <3>3
  <2>3. \A part \in {b.source, b.target, b.target.isolation, b.target.worker.egress,
                     b.source.worker.egress} : part.registeredAt =< b.assembledAt
    <3>1. \A m \in {b.source, b.target} : /\ m.isolation.registeredAt =< b.assembledAt
                                          /\ m.worker.egress.registeredAt =< b.assembledAt
      BY <2>1, <2>2, TimesAreIntegers
    <3> QED BY <2>1, <3>1
  <2>4. ASSUME BaselineCurrent(b)
        PROVE  \A m \in ReleaseHistory(b.target.tenant) : m.version =< b.target.version
    BY <2>4 DEF BaselineCurrent, ReferenceReady, IsLast
  <2>5. ~ ReferenceReady(b.source)
    <3> SUFFICES ASSUME ReferenceReady(b.source) PROVE FALSE
      OBVIOUS
    <3>1. b.target \in ReleaseHistory(b.source.tenant)
          /\ b.source \in ReleaseHistory(b.source.tenant)
          /\ b.source.tenant \in Tenants
      BY <2>1 DEF ReleaseHistory, DeploymentInv, ReleasesHold
    <3>2. b.target.version =< b.source.version
      BY <3>1 DEF ReferenceReady, IsLast
    <3>3. b.target.version \in Nat /\ b.source.version \in Nat
      BY <3>1 DEF DeploymentInv, ReleasesHold, Ordered
    <3> QED BY <2>1, <3>2, <3>3
  <2> QED BY <2>1, <2>3, <2>4, <2>5
<1> QED BY <1>1, StabilityInvariant, PTL
================================================================================
