------------------------------ MODULE GenAIChange ------------------------------
(***************************************************************************)
(* Changes of a generative-AI model under signed change control            *)
(* (genai_change.py): a proposal binds, beside the governance states of    *)
(* ChangeControl, the overlay snapshots before and after the change and    *)
(* the triggers of its revalidation; it is authorized like any other and   *)
(* implemented by a step of its own.                                       *)
(***************************************************************************)
EXTENDS ChangeControl

CONSTANTS
  OverlaySnapshots,  \* contents of overlays: [id, version]
  GenAITriggers,     \* GenAIRevalidationTrigger
  GenAIDrafts        \* a draft and its overlays

GenAIDraftType ==
  [before : States, after : States, triggers : SUBSET GenAITriggers, material : BOOLEAN,
   owner : People, beforeOverlay : OverlaySnapshots, afterOverlay : OverlaySnapshots]

ASSUME GenAIDraftsAssumption == GenAIDrafts \subseteq GenAIDraftType

\* _assert_scope.
InScope(s, o) == o.version = s.version

\* _triggered_after_state: never the digest of a plain state.
TriggeredAfterState(s, o, triggers) ==
  [state |-> s, salt |-> {<<"genai_triggers", {o}, triggers>>}]

\* create_genai_model_change_proposal.  Its evidence needs a changed overlay; the
\* states themselves may be equal.
ProposeGenAI(d) ==
  /\ InScope(d.before, d.beforeOverlay) /\ InScope(d.after, d.afterOverlay)
  /\ d.triggers # {}
  /\ d.beforeOverlay # d.afterOverlay
  /\ Cardinality(proposals) < MaxProposals
  /\ proposals' = proposals \cup
       {[draft |-> d, afterState |-> TriggeredAfterState(d.after, d.afterOverlay, d.triggers)]}
  /\ UNCHANGED <<keyVars, requirements, votes, envelopes, approvals, resolutions,
                 implementations>>

\* A mutant of the implementation: the state is recomputed with the proposed overlay.
RecomputedAsProposed(z, s, o, triggers, at) ==
  /\ z.outcome = "authorized"
  /\ s = z.requirement.proposal.draft.after
  /\ InScope(s, o)
  /\ z.resolvedAt =< at

\* The checks of create_genai_change_implementation_evidence on the state and the
\* overlay put in place; the triggers are those of the evidence, which is bound to
\* the proposal through its revalidation requirement.
MayImplementGenAI(z, s, o, triggers, at) ==
  /\ z.outcome = "authorized"
  /\ InScope(s, o)
  /\ s = z.requirement.proposal.draft.after
  /\ TriggeredAfterState(s, o, triggers) = z.requirement.proposal.afterState
  /\ z.resolvedAt =< at

ImplementGenAI(z, s, o, triggers, at) ==
  /\ MayImplementGenAI(z, s, o, triggers, at)
  /\ Cardinality(implementations) < MaxImplementations
  /\ implementations' = implementations \cup
       {[resolution |-> z, state |-> s, overlay |-> o, implementedAt |-> at]}
  /\ UNCHANGED <<keyVars, proposals, requirements, votes, envelopes, approvals,
                 resolutions>>

GenAINext ==
  \/ Next
  \/ \E d \in GenAIDrafts : ProposeGenAI(d)
  \/ \E z \in resolutions, s \in States, o \in OverlaySnapshots, at \in Times :
       \E triggers \in SUBSET GenAITriggers \ {{}} : ImplementGenAI(z, s, o, triggers, at)

--------------------------------------------------------------------------------
\* The overlay put in place, if the step that implemented knew of one.
OverlayOf(i) == IF "overlay" \in DOMAIN i THEN {i.overlay} ELSE {}
Proposed(d, which) == IF which \in DOMAIN d THEN {d[which]} ELSE {}

\* What is implemented is what was authorized, in whole: the record, version and
\* policy, and the overlay exactly if one was proposed, so that a GenAI change is
\* not put in place by the step that knows nothing of overlays, nor any other by
\* the GenAI step.  It differs from what was before, follows its authorization,
\* and a material one rests on an approved chain for the implemented version
\* (create_change_implementation_evidence and its GenAI counterpart).
ImplementedAsAuthorized ==
  \A i \in implementations :
    LET d == i.resolution.requirement.proposal.draft IN
    /\ i.resolution \in Authorized /\ i.resolution.resolvedAt =< i.implementedAt
    /\ i.state = d.after
    /\ OverlayOf(i) = Proposed(d, "afterOverlay")
    /\ <<i.state, OverlayOf(i)>> # <<d.before, Proposed(d, "beforeOverlay")>>
    /\ d.material => /\ i.resolution.evidence \in approvals
                     /\ i.resolution.evidence.version = i.state.version
================================================================================
