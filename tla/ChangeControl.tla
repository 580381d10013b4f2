----------------------------- MODULE ChangeControl -----------------------------
(***************************************************************************)
(* Signed authorization of a model change (change_control.py), over the    *)
(* key registry of SigningKeys.  Every operation of the code is a function *)
(* that checks the artefacts it is given and returns a new immutable       *)
(* artefact, bound to them by their digests.  The state is the pool of the *)
(* artefacts made so far, in any order and by anyone; a step adds one.     *)
(* A digest is modelled by the artefact it identifies.  One model identity *)
(* is modelled: its scope is part of every artefact, hence of every digest.*)
(***************************************************************************)
EXTENDS SigningKeys, FiniteSets

CONSTANTS
  States,      \* governance states: [record, version, policy] contents, where
               \* versions differ in a part derive_revalidation_requirement compares
  Drafts,      \* the changes callers propose
  People,
  Roles,
  NoEvidence,  \* the approval evidence of a change that needs none (None)
  MaxProposals, MaxRequirements, MaxVotes, MaxEnvelopes, MaxApprovals,
  MaxResolutions, MaxImplementations  \* bounds on the pools

\* A draft names the states before and after the change, the operational
\* triggers (monitoring or control deterioration), whether its materiality
\* was decided material, and by whom.  The time of the proposal is never read.
DraftType == [before : States, after : States, triggers : SUBSET {"monitoring", "control"},
              material : BOOLEAN, owner : People]

ASSUME DraftsAssumption == Drafts \subseteq DraftType

VARIABLES
  proposals,       \* ModelChangeProposal
  requirements,    \* ChangeAuthorizationRequirement
  votes,           \* ChangeAuthorizationVote
  envelopes,       \* SignedGovernanceEnvelope over a vote
  approvals,       \* governance states with an approved approval chain
  resolutions,     \* ChangeAuthorizationResolution
  implementations  \* ChangeImplementationEvidence

changeVars == <<proposals, requirements, votes, envelopes, approvals, resolutions,
                implementations>>
vars == <<keyVars, changeVars>>

Init ==
  /\ KeysInit
  /\ proposals = {} /\ requirements = {} /\ votes = {} /\ envelopes = {}
  /\ approvals = {} /\ resolutions = {} /\ implementations = {}

--------------------------------------------------------------------------------
\* derive_revalidation_requirement returns evidence: the state changes, or there is
\* an operational trigger.
NeedsRevalidation(d) == d.before # d.after \/ d.triggers # {}

\* The digest of an unchanged after state is salted with the triggers.
AfterState(d) ==
  [state |-> d.after,
   salt |-> IF d.before = d.after THEN {<<"operational_triggers", {}, d.triggers>>} ELSE {}]

\* create_model_change_proposal.
Propose(d) ==
  /\ NeedsRevalidation(d)
  /\ Cardinality(proposals) < MaxProposals
  /\ proposals' = proposals \cup {[draft |-> d, afterState |-> AfterState(d)]}
  /\ UNCHANGED <<keyVars, requirements, votes, envelopes, approvals, resolutions,
                 implementations>>

\* The roles of ChangeAuthorizationRequirement.__post_init__.
RolesSuffice(p, roles) ==
  /\ roles # {}
  /\ p.draft.material => Cardinality(roles) >= 2

\* derive_change_authorization_requirement: the default roles are one choice of
\* those the caller may require.
DeriveRequirement(p, roles) ==
  /\ p \in proposals
  /\ RolesSuffice(p, roles)
  /\ Cardinality(requirements) < MaxRequirements
  /\ requirements' = requirements \cup {[proposal |-> p, roles |-> roles]}
  /\ UNCHANGED <<keyVars, proposals, votes, envelopes, approvals, resolutions,
                 implementations>>

\* A mutant of the vote: whoever holds a required role may vote.
AnyHolderMayVote(q, who, role) == role \in q.roles

MayVote(q, who, role) ==
  /\ role \in q.roles
  /\ who # q.proposal.draft.owner

\* create_change_authorization_vote.
CreateVote(q, who, role, authorize, at) ==
  /\ q \in requirements
  /\ MayVote(q, who, role)
  /\ Cardinality(votes) < MaxVotes
  /\ votes' = votes \cup {[requirement |-> q, approver |-> who, role |-> role,
                           authorize |-> authorize, decidedAt |-> at]}
  /\ UNCHANGED <<keyVars, proposals, requirements, envelopes, approvals, resolutions,
                 implementations>>

\* create_signed_envelope over a vote: the holder of a registered, active key
\* signs, in any of the key's roles.  Nothing ties the signer to the vote yet.
SignVote(v, k, role, at) ==
  /\ v \in votes
  /\ k \in keys
  /\ role \in k.roles
  /\ ActiveAt(k, at)
  /\ Cardinality(envelopes) < MaxEnvelopes
  /\ envelopes' = envelopes \cup {[vote |-> v, signer |-> k.owner, role |-> role,
                                   key |-> k, signedAt |-> at]}
  /\ UNCHANGED <<keyVars, proposals, requirements, votes, approvals, resolutions,
                 implementations>>

\* The approval chain of ModelApproval reaches an approved resolution for the
\* record, version and policy of s (resolve_approval).
GrantApproval(s) ==
  /\ Cardinality(approvals) < MaxApprovals
  /\ approvals' = approvals \cup {s}
  /\ UNCHANGED <<keyVars, proposals, requirements, votes, envelopes, resolutions,
                 implementations>>

--------------------------------------------------------------------------------
\* A mutant of the verification: the key is checked at the signing time only.
VerifiesAtSigning(e, v, at) ==
  /\ e.vote = v
  /\ e.key \in keys
  /\ e.signer = e.key.owner
  /\ e.role \in e.key.roles
  /\ ActiveAt(e.key, e.signedAt)
  /\ e.signedAt =< at

\* verify_signed_envelope with at_time = at.
Verifies(e, v, at) ==
  /\ e.vote = v
  /\ e.key \in keys
  /\ e.signer = e.key.owner
  /\ e.role \in e.key.roles
  /\ ActiveAt(e.key, e.signedAt)
  /\ e.signedAt =< at
  /\ ActiveAt(e.key, at)

\* A mutant of the signature loop: the signer need not be the approver.
SignedByAnyKey(v, e, at) == Verifies(e, v, at) /\ v.decidedAt =< e.signedAt

\* One round of the signature loop of resolve_change_authorization.
SignedBy(v, e, at) ==
  /\ e.signer = v.approver
  /\ e.role = v.role
  /\ v.decidedAt =< e.signedAt
  /\ Verifies(e, v, at)

\* A mutant of the package: a person may hold several of the roles.
OnePerRole(vs) == \A v, w \in vs : v.role = w.role => v = w

\* At most one vote per role and one per person.
Distinct(vs) ==
  \A v, w \in vs : v.role = w.role \/ v.approver = w.approver => v = w

\* The votes and signatures that resolve_change_authorization accepts; which
\* votes are submitted is the caller's choice.
Package(q, vs, sig, at) ==
  /\ q \in requirements
  /\ \A v \in vs : v.requirement = q /\ v.role \in q.roles
  /\ Distinct(vs)
  /\ \A v \in vs : SignedBy(v, sig[v], at)

Rejected(vs) == \E v \in vs : ~ v.authorize
Covered(q, vs) == q.roles \subseteq {v.role : v \in vs}

\* The gate of a material change: an approved chain for the after version.
\* The record and the policy of the chain are not compared with the proposal.
ApprovedFor(p, e) ==
  /\ e \in approvals
  /\ e.version = p.draft.after.version

Record(q, outcome, vs, sig, evidence, at) ==
  /\ Cardinality(resolutions) < MaxResolutions
  /\ resolutions' = resolutions \cup
       {[requirement |-> q, outcome |-> outcome, votes |-> vs,
         signatures |-> {sig[v] : v \in vs}, evidence |-> evidence, resolvedAt |-> at]}
  /\ UNCHANGED <<keyVars, proposals, requirements, votes, envelopes, approvals,
                 implementations>>

\* resolve_change_authorization: a rejection wins over missing roles, and both
\* are decided before the evidence of a material change is looked at.
ResolveRejected(q, vs, sig, at) ==
  /\ Package(q, vs, sig, at)
  /\ Rejected(vs)
  /\ Record(q, "rejected", vs, sig, NoEvidence, at)

ResolveIncomplete(q, vs, sig, at) ==
  /\ Package(q, vs, sig, at)
  /\ ~ Rejected(vs)
  /\ ~ Covered(q, vs)
  /\ Record(q, "incomplete", vs, sig, NoEvidence, at)

ResolveAuthorized(q, vs, sig, at, e) ==
  /\ Package(q, vs, sig, at)
  /\ ~ Rejected(vs)
  /\ Covered(q, vs)
  /\ IF q.proposal.draft.material THEN ApprovedFor(q.proposal, e) ELSE e = NoEvidence
  /\ Record(q, "authorized", vs, sig, e, at)

\* The checks of create_change_implementation_evidence on the state s that was
\* put in place: the plain digest of s must be the proposal's after state.
MayImplement(z, s, at) ==
  /\ z.outcome = "authorized"
  /\ s = z.requirement.proposal.draft.after
  /\ [state |-> s, salt |-> {}] = z.requirement.proposal.afterState
  /\ z.resolvedAt =< at

Implement(z, s, at) ==
  /\ z \in resolutions
  /\ MayImplement(z, s, at)
  /\ Cardinality(implementations) < MaxImplementations
  /\ implementations' = implementations \cup
       {[resolution |-> z, state |-> s, implementedAt |-> at]}
  /\ UNCHANGED <<keyVars, proposals, requirements, votes, envelopes, approvals,
                 resolutions>>

\* The signatures of a package: one envelope per vote, of those made over it.
Signatures(vs) == {sig \in [vs -> envelopes] : \A v \in vs : sig[v].vote = v}

Resolve ==
  \E q \in requirements, at \in Times :
    \E vs \in SUBSET {v \in votes : v.requirement = q} :
      \E sig \in Signatures(vs) :
        \/ ResolveRejected(q, vs, sig, at)
        \/ ResolveIncomplete(q, vs, sig, at)
        \/ \E e \in approvals \cup {NoEvidence} : ResolveAuthorized(q, vs, sig, at, e)

Next ==
  \/ KeysNext /\ UNCHANGED changeVars
  \/ \E d \in Drafts : Propose(d)
  \/ \E p \in proposals, roles \in SUBSET Roles : DeriveRequirement(p, roles)
  \/ \E q \in requirements, who \in People, role \in Roles, b \in BOOLEAN, at \in Times :
        CreateVote(q, who, role, b, at)
  \/ \E v \in votes, k \in keys, role \in Roles, at \in Times : SignVote(v, k, role, at)
  \/ \E s \in States : GrantApproval(s)
  \/ Resolve
  \/ \E z \in resolutions, s \in States, at \in Times : Implement(z, s, at)

Spec == Init /\ [][Next]_vars

--------------------------------------------------------------------------------
Authorized == {z \in resolutions : z.outcome = "authorized"}
Signers(z) == {e.signer : e \in z.signatures}

\* Four eyes: an authorized change carries, for every required role, the consent
\* of a person in that role; no person counts twice, the owner of the
\* materiality decision does not count, and a material change has two persons.
SeparationOfDuties ==
  \A z \in Authorized :
    LET p == z.requirement.proposal IN
    /\ \A role \in z.requirement.roles :
          \E v \in z.votes : v.role = role /\ v.authorize
    /\ \A v, w \in z.votes : v.approver = w.approver => v = w
    /\ p.draft.owner \notin Signers(z)
    /\ p.draft.material => \E a, b \in Signers(z) : a # b

\* Each vote behind a resolution was signed by its own approver after it was
\* decided, with a key of that person permitted for the role and valid when it
\* signed and when the change was resolved; and whatever is registered or revoked
\* later, its key id never denotes another key (resolve_change_authorization,
\* register_key).
SignaturesAttributable ==
  \A z \in resolutions : \A v \in z.votes : \E e \in z.signatures :
    /\ e.vote = v
    /\ v.decidedAt =< e.signedAt /\ e.signedAt =< z.resolvedAt
    /\ \A k \in keys : k.keyId = e.key.keyId => k = e.key
    /\ e.key \in keys
    /\ v.approver = e.key.owner
    /\ v.role \in e.key.roles
    /\ e.key.validFrom =< e.signedAt
    /\ e.key.validUntil # Forever => z.resolvedAt < e.key.validUntil

\* change_control.py says that a material change "requires approved current
\* after-state governance": the approved chain is for the after state proposed.
ApprovedAfterState ==
  \A z \in Authorized :
    z.requirement.proposal.draft.material =>
      z.evidence = z.requirement.proposal.draft.after
================================================================================
