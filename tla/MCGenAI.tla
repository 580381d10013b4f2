-------------------------------- MODULE MCGenAI --------------------------------
(* Small instance of GenAIDossier: two contents of one model version, a use case *)
(* that demands human review and one that does not, dossiers of every state.     *)
EXTENDS GenAIDossier

MCModelVersions == {[id |-> "v1", content |-> "a"], [id |-> "v1", content |-> "b"]}
MCFoundations == {[version |-> "v1", model |-> "f"], [version |-> "v2", model |-> "f"]}
MCPrompts == {[version |-> "v1", prompt |-> "p"]}
MCUseCases == {[version |-> "v1", humanReview |-> TRUE, highImpact |-> FALSE],
               [version |-> "v1", humanReview |-> FALSE, highImpact |-> FALSE]}

Groundedness == [id |-> "grounded", kind |-> "groundedness", direction |-> "higher_is_better",
                 pass |-> 2, warning |-> 1, minSamples |-> 2, maxAge |-> 1]
Leakage == [id |-> "leakage", kind |-> "privacy_leakage", direction |-> "lower_is_better",
            pass |-> 0, warning |-> None, minSamples |-> 1, maxAge |-> 1]
MCMetricSets == {{Groundedness}, {Groundedness, Leakage}}

MCReadings == {[value |-> 2, samples |-> 2], [value |-> 1, samples |-> 2],
               [value |-> 0, samples |-> 2], [value |-> 2, samples |-> 1]}

Base(state, conditions, gaps) ==
  [version |-> [id |-> "v1", content |-> "a"], state |-> state,
   complete |-> state \in ApprovedStates, conditions |-> conditions, gaps |-> gaps]
MCBaseDossiers ==
  {Base("approved", {}, {}), Base("approved_with_conditions", {"c"}, {}),
   Base("rejected", {}, {"approval_rejected"}),
   Base("revalidation_required", {}, {"revalidation_required"})}

Demanding == CHOOSE o \in Overlays : o.useCase.humanReview

\* A plan for the plain use case is made at 0; oversight is required and a dossier
\* built once the plan is assessed, and of the observations the assessment names.
InTurn ==
  /\ \A p \in plans : p.plannedAt = 0 \/ (p.overlay = Demanding /\ p.plannedAt = 1)
  /\ \A o \in observations : \E m \in o.plan.metrics : m.id = o.metric
  /\ (oversights # {} \/ dossiers # {}) =>
       \A o \in observations : \E a \in assessments : o \in a.named
================================================================================
