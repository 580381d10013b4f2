--------------------------- MODULE MCTenantEvidence ----------------------------
(* Small instance of TenantEvidence: one tenant, two versions of its encryption  *)
(* key, of its row-level-security policy and of its isolation profile.           *)
EXTENDS TenantEvidence

MCTenants == {<<"inst", "t">>}

Ref(version, id, from, until, registered) ==
  [tenant |-> <<"inst", "t">>, purpose |-> "evidence_encryption", version |-> version,
   keyId |-> id, notBefore |-> from, notAfter |-> until, registeredAt |-> registered]
MCKeyRefs == {Ref(1, "a", 0, 3, 0), Ref(2, "b", 1, 2, 0)}

Rls(version, at) ==
  [policyId |-> <<"inst", "rls">>, version |-> version, registeredAt |-> at]
MCRlsPolicies == {Rls(1, 0), Rls(2, 0)}
================================================================================
