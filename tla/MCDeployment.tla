----------------------------- MODULE MCDeployment ------------------------------
(* Small instance of Stability and Deployment: one tenant whose row-level-security *)
(* policy and egress policy are superseded while releases are prepared and after.  *)
EXTENDS Stability

MCTenants == {<<"inst", "t">>}

Rls(version, content, at) ==
  [policyId |-> <<"inst", "rls">>, version |-> version, content |-> content, registeredAt |-> at]
MCRlsPolicies == {Rls(1, "a", 0), Rls(2, "b", 1)}

Egress(id, version, content, at) ==
  [tenant |-> <<"inst", "t">>, policyId |-> id, version |-> version, content |-> content,
   registeredAt |-> at]
MCEgress == {Egress("e", 1, "a", 0), Egress("e", 1, "b", 0), Egress("e", 2, "a", 1)}
Source == <<"r1", "0.8.1">>
Stable == <<"r2", "1.0.0">>
MCNames == {Source, Stable}

\* A second release is prepared after the first one, with plans and a checkpoint
\* of the last represented time; a tenant may go from test to production; if the
\* stable release comes first nothing drifts before both are made.
StableFirst == \E plan \in rollbacks : plan.name = Stable /\ ReleaseHistory(plan.tenant) = {}
SourceLate == \E m \in releases : m.name = Stable /\ m.version = 1

InTurn ==
  /\ \A f \in profiles : f.environment = "test" => f.version = 1
  /\ {Source, Stable} \subseteq {plan.name : plan \in rollbacks} => releases # {}
  /\ \A plan \in rollbacks \cup upgrades :
        plan.name = Stable \/ SourceLate => plan.declaredAt = MaxTime
  /\ \A c \in checkpoints :
        /\ c.id = "c1" <=> c.name = Source
        /\ c.name = Stable \/ SourceLate => c.capturedAt = MaxTime
        /\ \E plan \in rollbacks : plan.name = c.name
  /\ StableFirst \/ (SourceLate /\ Cardinality(releases) = 1) =>
        /\ \A x \in profiles \cup identities \cup egress \cup workers : x.version = 1
        /\ \A f \in profiles : f.environment = "production"
        /\ \A g \in egress : g.content = "a"
================================================================================
