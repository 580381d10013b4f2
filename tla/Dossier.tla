-------------------------------- MODULE Dossier --------------------------------
(***************************************************************************)
(* Exceptions from risk requirements (governance.py) and the governance    *)
(* dossier (dossier.py) over the approval chain of ModelApproval.  The     *)
(* builder is given every artefact of the chain again, old or new ones as  *)
(* the caller likes, recomputes what it can and compares; the dossier      *)
(* holds them all.                                                         *)
(***************************************************************************)
EXTENDS ModelApproval

CONSTANTS
  Waivers,        \* what an exception may be asked to waive
  Revalidations,  \* RevalidationRequirement, of which only the presence is read
  NoRevalidation,
  MaxExceptions, MaxDossiers  \* bounds on the pools

VARIABLES
  exceptions,  \* ExceptionArtifact
  dossiers     \* GovernanceDossier

dossierVars == <<exceptions, dossiers>>
allVars == <<vars, dossierVars>>

DossierInit == Init /\ exceptions = {} /\ dossiers = {}

\* A mutant of _NON_EXCEPTIONABLE: the roles of approvers are not in it.
OnlyInventory == {"accountable_owner", "current_inventory", "independent_validation"}

NonExceptionable == {"accountable_owner", "current_inventory", "independent_validation",
                     "senior_risk_approval", "executive_risk_acceptance"}

\* create_exception, from what the risk decision of the version requires.
CreateException(v, d, waived) ==
  /\ waived # {} /\ waived \subseteq d.requirements
  /\ waived \cap NonExceptionable = {}
  /\ d.version = v
  /\ Cardinality(exceptions) < MaxExceptions
  /\ exceptions' = exceptions \cup {[version |-> v, decision |-> d, waived |-> waived]}
  /\ UNCHANGED <<vars, dossiers>>

\* Exceptions are those of the dossier's version and risk decision; whether they
\* have expired is not asked.
Applies(x, v, d) == x.version = v /\ x.decision = d

\* A mutant of the dossier: a revalidation requirement does not touch the state.
StateAsApproved(a, revalidation) == a.state

\* The governance state: a revalidation requirement overrides any approval.
StateOf(a, revalidation) ==
  IF revalidation # NoRevalidation THEN "revalidation_required" ELSE a.state

\* A mutant of the dossier: the resolution is taken as it was submitted.
ResolutionAsSubmitted(p, fs, x) == FindingsFit(p, fs)

\* The validation is resolved again over the findings supplied, and must give the
\* resolution.  That one holds the ids of open findings only: closed findings may be
\* left out, added or altered, and the content behind an open id may be another.
ResolutionReproduces(p, fs, x) == FindingsFit(p, fs) /\ x = Resolution(p, fs)

\* build_governance_dossier.
BuildDossier(r, v, policy, d, p, fs, x, q, vs, a, xs, revalidation) ==
  /\ Cardinality(dossiers) < MaxDossiers
  /\ d.policy = policy /\ d.version = v
  /\ ResolutionReproduces(p, fs, x)
  /\ RequirementCurrent(q, v, d, p, x)
  /\ a = [requirement |-> q, votes |-> vs, state |-> Outcome(q, vs)]
  /\ \A e \in xs : Applies(e, v, d)
  /\ dossiers' = dossiers \cup
       {[record |-> r, version |-> v, policy |-> policy, decision |-> d, plan |-> p,
         findings |-> fs, votes |-> vs, exceptions |-> xs,
         state |-> StateOf(a, revalidation),
         complete |-> StateOf(a, revalidation) \in {"approved", "approved_with_conditions"},
         revalidation |-> revalidation]}
  /\ UNCHANGED <<vars, exceptions>>

DossierNext ==
  \/ Next /\ UNCHANGED dossierVars
  \/ \E v \in Versions, d \in decisions, waived \in Waivers : CreateException(v, d, waived)
  \/ \E a \in approvals, r \in Records, v \in Versions, policy \in Policies, d \in decisions :
       \E p \in plans, x \in resolutions, q \in requirements, xs \in SUBSET exceptions,
          fs \in SUBSET Findings, revalidation \in Revalidations \cup {NoRevalidation} :
         BuildDossier(r, v, policy, d, p, fs, x, q, a.votes, a, xs, revalidation)

DossierSpec == DossierInit /\ [][DossierNext]_allVars

--------------------------------------------------------------------------------
\* What the artefacts held by a dossier say of each other.
IsWhole(k) ==
  /\ k.decision.policy = k.policy
  /\ k.decision.version = k.version /\ k.plan.version = k.version /\ k.plan.decision = k.decision
  /\ \A t \in k.plan.tests : t.mandatory => t.status = "pass"
  /\ \A f \in k.findings : f.blocking => f.closedBy = k.plan.validator
  /\ \A w \in k.votes : /\ w.requirement.resolution.plan = k.plan
                        /\ w.requirement.resolution.open = Ids(Open(k.findings))
  /\ \A role \in RequiredRoles(k.decision) : \E w \in k.votes : w.role = role
  /\ \A w \in k.votes : w.decision # "reject"
  /\ Cardinality({w.approver : w \in k.votes}) = Cardinality(RequiredRoles(k.decision))
  /\ \A x \in k.exceptions :
       /\ x.waived \subseteq k.decision.requirements
       /\ x.waived \cap (RiskRoles \cup {"independent_validation"}) = {}
  /\ k.revalidation = NoRevalidation

\* A dossier whose governance path is complete can be judged by what is in it
\* alone, however stale the artefacts its caller mixed: its risk decision is made
\* under its policy and for its version, its plan is the one of that decision; the
\* findings in it, which need not be those that were resolved, leave nothing blocking
\* open, and leave open, by id, what was open to everyone who voted; each role the
\* decision requires consented, through a person of its own and without a rejection; no exception
\* in it comes from another decision or waives a risk role or the independent
\* validation; and nothing calls for revalidation (build_governance_dossier).
CompleteDossierIsWhole == \A k \in dossiers : k.complete => IsWhole(k)
================================================================================
