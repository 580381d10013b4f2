---------------------------- MODULE TenantIsolation ----------------------------
(***************************************************************************)
(* The registry of row-level-security policies and of the tenants'         *)
(* isolation profiles that bind them (hardening.py, class                  *)
(* TenantIsolationRegistry).  policyId stands for the pair                 *)
(* (institution_id, policy_id).  A digest is modelled by the content it    *)
(* identifies: a profile holds the policies whose digests it carries.      *)
(***************************************************************************)
EXTENDS VersionedHistory

CONSTANTS
  RlsPolicies,  \* the policy contents callers present
  Tenants,      \* (institution_id, tenant_id)
  Environments,
  MaxProfiles   \* a bound on the profiles of a tenant

InstitutionOf(tenant) == tenant[1]

WellFormedPolicy(p) ==
  p.version \in Nat \ {0} /\ p.registeredAt \in Times

ASSUME RlsPoliciesAssumption == \A p \in RlsPolicies : WellFormedPolicy(p)
ASSUME MaxProfilesAssumption == MaxProfiles \in Nat

VARIABLES
  policies,  \* _policies
  profiles   \* _profiles

isolationVars == <<policies, profiles>>

IsolationInit == policies = {} /\ profiles = {}

PolicyHistory(p) == {q \in policies : q.policyId = p.policyId}
ProfileHistory(tenant) == {f \in profiles : f.tenant = tenant}

\* assert_policy_current of a registered policy.
PolicyCurrent(p) == IsLast(p, PolicyHistory(p))

\* register_policy.
RegisterPolicy(p) ==
  /\ Continues(p, PolicyHistory(p))
  /\ policies' = policies \cup {p}
  /\ UNCHANGED profiles

\* The profiles that may be presented while these policies are registered: a
\* digest of an unregistered policy, or of another institution's, is unknown.
ProfileType == [tenant : Tenants, version : 1 .. MaxProfiles, environment : Environments,
                policies : SUBSET policies \ {{}}, registeredAt : Times]

\* A profile binds current policies of its institution that exist by its time.
BindsCurrent(f) ==
  \A p \in f.policies : /\ p.policyId[1] = InstitutionOf(f.tenant)
                        /\ PolicyCurrent(p)
                        /\ p.registeredAt =< f.registeredAt

\* register_profile.
RegisterProfile(f) ==
  /\ BindsCurrent(f)
  /\ Continues(f, ProfileHistory(f.tenant))
  /\ profiles' = profiles \cup {f}
  /\ UNCHANGED policies

\* assert_profile_current of a registered profile.
ProfileCurrent(f) ==
  /\ IsLast(f, ProfileHistory(f.tenant))
  /\ \A p \in f.policies : PolicyCurrent(p)

IsolationNext ==
  \/ \E p \in RlsPolicies : RegisterPolicy(p)
  \/ \E f \in ProfileType : RegisterProfile(f)

IsolationSpec == IsolationInit /\ [][IsolationNext]_isolationVars

================================================================================
