------------------------------ MODULE MCPortfolio ------------------------------
(* Small instance of Portfolio: two models, one of them on two services of one   *)
(* provider, whose profile is superseded; the other one on another provider.     *)
EXTENDS Portfolio

M1 == [modelId |-> "m1", versionId |-> "1"]
M2 == [modelId |-> "m2", versionId |-> "1"]
MCModels == {[modelId |-> "m1"], [modelId |-> "m2"]}
MCVersions == {M1, M2}

Profile(id, version, diligence, at) ==
  [providerId |-> id, version |-> version, registeredAt |-> at,
   diligenceUntil |-> diligence, contractUntil |-> 3]
MCProfiles == {Profile("A", 1, 1, 0), Profile("A", 2, 3, 1), Profile("B", 1, 3, 0)}

Service(id, model, provider, materiality, substitutable) ==
  [dependencyId |-> id, modelVersion |-> model, providerId |-> provider,
   materiality |-> materiality, substitutable |-> substitutable]
MCServices == {Service("s1", M1, "A", "critical", TRUE), Service("s2", M1, "A", "non_material", FALSE),
               Service("s3", M2, "B", "material", FALSE)}

Slot(model, high, weight) == [modelVersion |-> model, high |-> high, weight |-> weight]
MCBooks == {{Slot(M1, TRUE, 3000), Slot(M2, FALSE, 7000)}, {Slot(M1, FALSE, 10000)}}
MCPolicies == {[warning |-> 2500, limit |-> 8000, highLimit |-> 6000]}

\* The second model and its provider come in when the first model is registered,
\* and what varies about them is bounded: one version of each dependency but s1,
\* plans only where needed, exit tests for s1 only, a portfolio of one model only before there are two.
Bounded ==
  /\ [modelId |-> "m2"] \in models => M1 \in versions
  /\ profiles # {} => M1 \in versions
  /\ Profile("B", 1, 3, 0) \in profiles => M2 \in versions /\ Profile("A", 1, 1, 0) \in profiles
  /\ Cardinality(dependencies) =< 3 /\ Cardinality(exitPlans) =< 2
  /\ \A d \in dependencies : /\ d.service.dependencyId # "s1" => d.version = 1
                             /\ d.version = 1 => d.registeredAt = d.profile.registeredAt
  /\ \A x \in exitPlans : /\ NeedsPlan(x.dependency)
                          /\ x.dependency.service.dependencyId # "s1" =>
                               x.version = 1 /\ x.testedAt = NotTested
  /\ \A s \in snapshots : Cardinality(s.positions) = Cardinality(s.inventory[2])
  /\ \A g \in packages : g.generatedAt = MaxTime /\ Cardinality(snapshots) = 1
================================================================================
