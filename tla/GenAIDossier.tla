------------------------------ MODULE GenAIDossier -----------------------------
(***************************************************************************)
(* Human oversight of a generative-AI model (genai.py) and the governance  *)
(* dossier that takes up its evaluation (genai_dossier.py with the checks  *)
(* of genai_runtime.py): the state of the base dossier, which the approval *)
(* chain decided, is combined with the evaluation and with the decision of *)
(* a reviewer.  A dossier holds every artefact it was built from; what is  *)
(* left out is modelled as None.                                           *)
(***************************************************************************)
EXTENDS GenAIEvaluation

CONSTANTS
  BaseDossiers,  \* dossiers without GenAI entries: [version, state, complete, conditions, gaps]
  Reviewers, ReviewRoles,
  GenAITriggers,  \* GenAIRevalidationTrigger
  MaxOversights, MaxDecisions, MaxDossiers  \* bounds on the pools

ApprovedStates == {"approved", "approved_with_conditions"}

\* What build_governance_dossier produces.
WellFormedBase(b) ==
  /\ b.version \in ModelVersions
  /\ b.complete = (b.state \in ApprovedStates)
  /\ b.complete <=> b.gaps = {}
  /\ b.state = "approved" => b.conditions = {}

ASSUME BaseDossiersAssumption == \A b \in BaseDossiers : WellFormedBase(b)
\* derive_genai_revalidation: evidence of a change from one overlay to another.
Revalidations ==
  {r \in [before : Overlays, after : Overlays, triggers : SUBSET GenAITriggers] :
     r.before # r.after /\ r.triggers # {}}

VARIABLES
  oversights,  \* HumanOversightRequirement
  decisions,   \* HumanOversightDecision
  dossiers     \* GovernanceDossier, with GenAI entries

dossierVars == <<oversights, decisions, dossiers>>
vars == <<evaluationVars, dossierVars>>

Init == EvaluationInit /\ oversights = {} /\ decisions = {} /\ dossiers = {}

--------------------------------------------------------------------------------
\* A mutant of the requirement: only a high impact makes review mandatory.
OnlyHighImpact(u, required) == u.highImpact => required

\* The oversight artefact may not weaken what the use case demands.
NotWeakened(u, required) == u.humanReview \/ u.highImpact => required

\* create_human_oversight_requirement.  The use case need not be the one of the
\* plan's overlay: their scope is compared here, the rest in the dossier.
RequireOversight(u, p, required, roles) ==
  /\ u.version = p.version.id
  /\ NotWeakened(u, required)
  /\ required <=> roles # {}
  /\ Cardinality(oversights) < MaxOversights
  /\ oversights' = oversights \cup {[useCase |-> u, plan |-> p, required |-> required,
                                     roles |-> roles]}
  /\ UNCHANGED <<evaluationVars, decisions, dossiers>>

\* A mutant of the decision: the reviewer may hold any role.
AnyReviewer(q, role) == TRUE

ReviewerQualifies(q, role) == q.required => role \in q.roles

\* create_human_oversight_decision.
Decide(q, who, role, decision) ==
  /\ ReviewerQualifies(q, role)
  /\ Cardinality(decisions) < MaxDecisions
  /\ decisions' = decisions \cup {[requirement |-> q, reviewer |-> who, role |-> role,
                                   decision |-> decision]}
  /\ UNCHANGED <<evaluationVars, oversights, dossiers>>

--------------------------------------------------------------------------------
\* A mutant of the bindings: the use case of the oversight is not compared.
OversightOfPlan(overlay, p, q, w) ==
  /\ q # None => q.plan = p /\ (q.required => w # None)
  /\ w # None => q # None /\ w.requirement = q

\* The oversight artefacts, where the caller passes any.
OversightBound(overlay, p, q, w) ==
  /\ q # None => /\ q.useCase = overlay.useCase
                 /\ q.plan = p
                 /\ q.required => w # None
  /\ w # None => q # None /\ w.requirement = q

\* The state after the evaluation, and the gaps and conditions it adds.
AfterEvaluation(b, a) ==
  CASE a.state = "incomplete" -> "incomplete"
    [] a.state = "breached"   -> "revalidation_required"
    [] a.state = "degraded" /\ b.state = "approved" -> "approved_with_conditions"
    [] OTHER -> b.state

EvaluationGaps(a) ==
  CASE a.state = "incomplete" -> {"genai_evaluation_incomplete"}
    [] a.state = "breached"   -> {"genai_evaluation_breached"}
    [] OTHER -> {}

Says(w, decision) == w # None /\ w.decision = decision

\* A mutant of the combination: the reviewer's acceptance restores the base state.
AcceptanceRestores(b, a, w) ==
  CASE Says(w, "reject")   -> "rejected"
    [] Says(w, "escalate") -> "revalidation_required"
    [] Says(w, "accept")   -> b.state
    [] OTHER -> AfterEvaluation(b, a)

\* A decision of the reviewer comes after the evaluation and overrides its state.
CombinedState(b, a, w) ==
  CASE Says(w, "reject")   -> "rejected"
    [] Says(w, "escalate") -> "revalidation_required"
    [] OTHER -> AfterEvaluation(b, a)

\* A mutant of the combination: escalating leaves the governance path complete.
CompleteWhenEscalated(b, a, w) == b.complete /\ EvaluationGaps(a) = {} /\ ~ Says(w, "reject")

\* Each deterioration makes the path incomplete; nothing completes it.
PathComplete(b, a, w) ==
  /\ b.complete
  /\ EvaluationGaps(a) = {}
  /\ ~ Says(w, "reject") /\ ~ Says(w, "escalate")

OversightGaps(w) ==
  IF Says(w, "reject") THEN {"human_oversight_rejected"}
  ELSE IF Says(w, "escalate") THEN {"human_oversight_escalated"}
  ELSE {}

\* build_genai_governance_dossier of both modules.  The base must be a dossier of
\* the exact content of the version the plan evaluates.  Revalidation evidence is
\* attached and changes nothing else.
BuildDossier(b, overlay, p, a, q, w, r) ==
  /\ b.version = p.version
  /\ p.overlay = overlay
  /\ a.plan = p
  /\ OversightBound(overlay, p, q, w)
  /\ r # None => r.after = overlay
  /\ Cardinality(dossiers) < MaxDossiers
  /\ dossiers' = dossiers \cup
       {[base |-> b, overlay |-> overlay, assessment |-> a, oversight |-> q, decision |-> w,
         revalidation |-> r,
         state |-> CombinedState(b, a, w),
         complete |-> PathComplete(b, a, w),
         conditions |-> b.conditions \cup
                          (IF a.state = "degraded" THEN {"genai_evaluation_degraded"} ELSE {}),
         gaps |-> b.gaps \cup EvaluationGaps(a) \cup OversightGaps(w)]}
  /\ UNCHANGED <<evaluationVars, oversights, decisions>>

Next ==
  \/ EvaluationNext /\ UNCHANGED dossierVars
  \/ \E u \in UseCases, p \in plans, required \in BOOLEAN, roles \in SUBSET ReviewRoles :
        RequireOversight(u, p, required, roles)
  \/ \E q \in oversights, who \in Reviewers, role \in ReviewRoles,
        decision \in {"accept", "escalate", "reject"} : Decide(q, who, role, decision)
  \/ \E b \in BaseDossiers, overlay \in Overlays, p \in plans, a \in assessments,
        q \in oversights \cup {None}, w \in decisions \cup {None},
        r \in Revalidations \cup {None} : BuildDossier(b, overlay, p, a, q, w, r)

Spec == Init /\ [][Next]_vars

--------------------------------------------------------------------------------
\* Two fields say whether a model is governed, the state and the completeness of
\* its path, and are set along different branches: they agree, and a path is
\* complete exactly if it has no gap (build_genai_governance_dossier).
StateAgreesWithPath ==
  \A d \in dossiers : /\ d.complete <=> d.state \in ApprovedStates
                      /\ d.complete <=> d.gaps = {}
                      /\ d.conditions # {} /\ d.complete => d.state = "approved_with_conditions"

\* "fail closed on represented deterioration": GenAI evidence never repairs a
\* base dossier.  A complete one rests on an approved base of the version content
\* that was evaluated, an acceptable evaluation of the dossier's own overlay and
\* no objection of the reviewer; what the base lacked stays on record.
GenAIEvidenceNeverRepairs ==
  \A d \in dossiers :
    /\ d.complete => /\ d.base.complete
                     /\ Acceptably(d.assessment)
                     /\ d.base.version = d.assessment.plan.version
                     /\ d.overlay = d.assessment.plan.overlay
                     /\ d.decision # None => d.decision.decision = "accept"
    /\ d.base.gaps \subseteq d.gaps /\ d.base.conditions \subseteq d.conditions

\* Where oversight was required at all, a use case that demands human review is
\* complete only with the acceptance of a reviewer in a required role, given for
\* that very use case and evaluation plan.
ReviewedWhereDemanded ==
  \A d \in dossiers :
    LET u == d.overlay.useCase IN
    d.complete /\ d.oversight # None /\ (u.humanReview \/ u.highImpact) =>
      /\ d.decision # None /\ d.decision.decision = "accept"
      /\ d.decision.role \in d.oversight.roles
      /\ d.oversight.useCase = u /\ d.oversight.plan = d.assessment.plan
================================================================================
