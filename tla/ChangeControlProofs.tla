-------------------------- MODULE ChangeControlProofs --------------------------
(***************************************************************************)
(* Theorems of signed change control, with GenAI changes and the signed    *)
(* dossier, for every set of keys, drafts, people, roles and times: four   *)
(* eyes, attribution, the binding of what is implemented and of what a     *)
(* dossier holds, and the cut-off of a revocation.  Every artefact of a    *)
(* pool was made by its operation; the invariants say what of its checks   *)
(* later registrations cannot undo.                                        *)
(***************************************************************************)
EXTENDS SignedDossier, FiniteSetTheorems, TLAPS

\* A key id denotes one key.
KeysUnique == \A k, e \in keys : k.keyId = e.keyId => k = e

\* A proposal is made by one of the two functions, from a draft of its kind.
ProposedProperly(p) ==
  \/ p.draft \in DraftType /\ p.afterState = AfterState(p.draft) /\ NeedsRevalidation(p.draft)
  \/ /\ p.draft \in GenAIDraftType
     /\ p.afterState = TriggeredAfterState(p.draft.after, p.draft.afterOverlay, p.draft.triggers)
     /\ p.draft.beforeOverlay # p.draft.afterOverlay

ArtefactsBound ==
  /\ \A p \in proposals : ProposedProperly(p)
  /\ \A q \in requirements : q.proposal \in proposals /\ RolesSuffice(q.proposal, q.roles)
  /\ \A v \in votes : MayVote(v.requirement, v.approver, v.role)

\* What remains of the signature checks whatever is registered or revoked later.
SignedFor(v, e, at) ==
  /\ e.vote = v
  /\ e.signer = v.approver /\ e.role = v.role
  /\ v.decidedAt =< e.signedAt /\ e.signedAt =< at
  /\ e.key \in keys /\ e.signer = e.key.owner /\ e.role \in e.key.roles
  /\ e.key.validFrom =< e.signedAt
  /\ e.key.validUntil # Forever => at < e.key.validUntil

\* The same of a whole resolution.
ResolvedProperly(z) ==
  /\ z.requirement \in requirements
  /\ z.votes \subseteq {v \in votes : v.requirement = z.requirement}
  /\ Distinct(z.votes)
  /\ \A v \in z.votes : \E e \in z.signatures : SignedFor(v, e, z.resolvedAt)
  /\ \A e \in z.signatures : \E v \in z.votes : SignedFor(v, e, z.resolvedAt)
  /\ z.outcome = "authorized" =>
       /\ ~ Rejected(z.votes)
       /\ Covered(z.requirement, z.votes)
       /\ z.requirement.proposal.draft.material =>
            ApprovedFor(z.requirement.proposal, z.evidence)

ResolutionsBound == \A z \in resolutions : ResolvedProperly(z)

ChangeInv == KeysUnique /\ ArtefactsBound /\ ResolutionsBound

\* The pools a resolution rests on; no step takes anything away from them.
Growing ==
  /\ keys \subseteq keys' /\ proposals \subseteq proposals'
  /\ requirements \subseteq requirements' /\ votes \subseteq votes'
  /\ approvals \subseteq approvals'

LEMMA ResolutionStays ==
  ASSUME Growing, NEW z, ResolvedProperly(z)
  PROVE  ResolvedProperly(z)'
BY DEF Growing, ResolvedProperly, SignedFor, ApprovedFor

LEMMA KeyStep_Inv ==
  ASSUME ChangeInv, KeysNext, UNCHANGED changeVars
  PROVE  ChangeInv'
<1>1. keys \subseteq keys' /\ KeysUnique'
  BY DEF ChangeInv, KeysUnique, KeysNext, RegisterKey, RevokeKey
<1>2. Growing
  BY <1>1 DEF Growing, changeVars
<1>3. ArtefactsBound'
  BY DEF ChangeInv, ArtefactsBound, changeVars
<1>4. ResolutionsBound'
  BY <1>2, ResolutionStays DEF ChangeInv, ResolutionsBound, changeVars
<1> QED BY <1>1, <1>3, <1>4 DEF ChangeInv

\* A step that makes an artefact before any resolution.
LEMMA Preparation_Inv ==
  ASSUME ChangeInv, Growing, UNCHANGED keyVars, UNCHANGED resolutions, ArtefactsBound'
  PROVE  ChangeInv'
<1>1. KeysUnique'
  BY DEF ChangeInv, KeysUnique, keyVars
<1>2. ResolutionsBound'
  BY ResolutionStays DEF ChangeInv, ResolutionsBound
<1> QED BY <1>1, <1>2 DEF ChangeInv

LEMMA Propose_Inv ==
  ASSUME ChangeInv, NEW d,
         (d \in Drafts /\ Propose(d)) \/ (d \in GenAIDrafts /\ ProposeGenAI(d))
  PROVE  ChangeInv'
<1>1. PICK p : proposals' = proposals \cup {p} /\ ProposedProperly(p)
  <2>1. CASE d \in Drafts /\ Propose(d)
    <3> DEFINE p == [draft |-> d, afterState |-> AfterState(d)]
    <3>1. proposals' = proposals \cup {p}
      BY <2>1 DEF Propose
    <3>2. ProposedProperly(p)
      BY <2>1, DraftsAssumption DEF Propose, ProposedProperly
    <3> QED BY <3>1, <3>2
  <2>2. CASE d \in GenAIDrafts /\ ProposeGenAI(d)
    <3> DEFINE p == [draft |-> d,
                     afterState |-> TriggeredAfterState(d.after, d.afterOverlay, d.triggers)]
    <3>1. proposals' = proposals \cup {p}
      BY <2>2 DEF ProposeGenAI
    <3>2. ProposedProperly(p)
      BY <2>2, GenAIDraftsAssumption DEF ProposeGenAI, ProposedProperly
    <3> QED BY <3>1, <3>2
  <2> QED BY <2>1, <2>2
<1>2. UNCHANGED <<keyVars, requirements, votes, envelopes, approvals, resolutions>>
  BY DEF Propose, ProposeGenAI
<1>3. ArtefactsBound'
  BY <1>1, <1>2 DEF ChangeInv, ArtefactsBound, ProposedProperly
<1>4. Growing
  BY <1>1, <1>2 DEF Growing, keyVars
<1> QED BY <1>2, <1>3, <1>4, Preparation_Inv

LEMMA Derive_Inv ==
  ASSUME ChangeInv, NEW p, NEW roles, DeriveRequirement(p, roles)
  PROVE  ChangeInv'
<1>1. ArtefactsBound'
  BY DEF ChangeInv, ArtefactsBound, DeriveRequirement
<1>2. Growing
  BY DEF Growing, DeriveRequirement, keyVars
<1> QED BY <1>1, <1>2, Preparation_Inv DEF DeriveRequirement

LEMMA Vote_Inv ==
  ASSUME ChangeInv, NEW q, NEW who, NEW role, NEW b, NEW at, CreateVote(q, who, role, b, at)
  PROVE  ChangeInv'
<1>1. ArtefactsBound'
  BY DEF ChangeInv, ArtefactsBound, CreateVote
<1>2. Growing
  BY DEF Growing, CreateVote, keyVars
<1> QED BY <1>1, <1>2, Preparation_Inv DEF CreateVote

LEMMA Sign_Inv ==
  ASSUME ChangeInv, NEW v, NEW k, NEW role, NEW at, SignVote(v, k, role, at)
  PROVE  ChangeInv'
BY Preparation_Inv DEF ChangeInv, ArtefactsBound, Growing, SignVote, keyVars

LEMMA Grant_Inv ==
  ASSUME ChangeInv, NEW s, GrantApproval(s)
  PROVE  ChangeInv'
BY Preparation_Inv DEF ChangeInv, ArtefactsBound, Growing, GrantApproval, keyVars

\* A submitted package is one that stays attributable.
LEMMA PackageSigned ==
  ASSUME NEW q, NEW vs \in SUBSET {v \in votes : v.requirement = q}, NEW sig, NEW at,
         Package(q, vs, sig, at)
  PROVE  \A v \in vs : SignedFor(v, sig[v], at)
BY DEF Package, SignedBy, Verifies, ActiveAt, SignedFor

Outcomes == {"rejected", "incomplete", "authorized"}
Evidence == approvals \cup {NoEvidence}

\* What a resolution looks like when it is recorded.
Outcome(q, vs, outcome, evidence) ==
  outcome = "authorized" =>
    /\ ~ Rejected(vs)
    /\ Covered(q, vs)
    /\ q.proposal.draft.material => ApprovedFor(q.proposal, evidence)

LEMMA Record_Inv ==
  ASSUME ChangeInv, NEW q, NEW vs \in SUBSET {v \in votes : v.requirement = q}, NEW sig, NEW at,
         NEW outcome, NEW evidence,
         Package(q, vs, sig, at), Outcome(q, vs, outcome, evidence),
         Record(q, outcome, vs, sig, evidence, at)
  PROVE  ChangeInv'
<1> DEFINE z == [requirement |-> q, outcome |-> outcome, votes |-> vs,
                 signatures |-> {sig[v] : v \in vs}, evidence |-> evidence, resolvedAt |-> at]
<1>1. resolutions' = resolutions \cup {z}
  BY DEF Record
<1>2. UNCHANGED <<keyVars, proposals, requirements, votes, envelopes, approvals>>
  BY DEF Record
<1>3. ResolvedProperly(z)
  <2>1. \A v \in vs : SignedFor(v, sig[v], at)
    BY PackageSigned
  <2>2. /\ \A v \in vs : \E e \in z.signatures : SignedFor(v, e, at)
        /\ \A e \in z.signatures : \E v \in vs : SignedFor(v, e, at)
    BY <2>1
  <2> QED BY <2>2 DEF ResolvedProperly, Package, Outcome
<1>4. Growing
  BY <1>2 DEF Growing, keyVars
<1>5. ResolutionsBound'
  <2> SUFFICES ASSUME NEW y \in resolutions' PROVE ResolvedProperly(y)'
    BY DEF ResolutionsBound
  <2>1. ResolvedProperly(y)
    BY <1>1, <1>3 DEF ChangeInv, ResolutionsBound
  <2> QED BY <1>4, <2>1, ResolutionStays
<1>6. KeysUnique' /\ ArtefactsBound'
  BY <1>2 DEF ChangeInv, KeysUnique, ArtefactsBound, keyVars
<1> QED BY <1>5, <1>6 DEF ChangeInv

\* The three ends of a resolution record what Record_Inv asks for.
LEMMA ResolveRecords ==
  ASSUME Resolve
  PROVE  \E q \in requirements, at \in Times, outcome \in Outcomes, evidence \in Evidence :
           \E vs \in SUBSET {v \in votes : v.requirement = q} : \E sig \in Signatures(vs) :
             /\ Package(q, vs, sig, at) /\ Outcome(q, vs, outcome, evidence)
             /\ Record(q, outcome, vs, sig, evidence, at)
<1>1. PICK q \in requirements, at \in Times :
        \E vs \in SUBSET {v \in votes : v.requirement = q} : \E sig \in Signatures(vs) :
          \/ ResolveRejected(q, vs, sig, at)
          \/ ResolveIncomplete(q, vs, sig, at)
          \/ \E e \in approvals \cup {NoEvidence} : ResolveAuthorized(q, vs, sig, at, e)
  BY DEF Resolve
<1>2. PICK vs \in SUBSET {v \in votes : v.requirement = q} : \E sig \in Signatures(vs) :
          \/ ResolveRejected(q, vs, sig, at)
          \/ ResolveIncomplete(q, vs, sig, at)
          \/ \E e \in approvals \cup {NoEvidence} : ResolveAuthorized(q, vs, sig, at, e)
  BY <1>1
<1>3. PICK sig \in Signatures(vs) :
          \/ ResolveRejected(q, vs, sig, at)
          \/ ResolveIncomplete(q, vs, sig, at)
          \/ \E e \in approvals \cup {NoEvidence} : ResolveAuthorized(q, vs, sig, at, e)
  BY <1>2
<1>4. CASE ResolveRejected(q, vs, sig, at)
  <2>1. Outcome(q, vs, "rejected", NoEvidence)
    BY DEF Outcome
  <2> QED BY <1>4, <2>1 DEF ResolveRejected, Outcomes, Evidence
<1>5. CASE ResolveIncomplete(q, vs, sig, at)
  <2>1. Outcome(q, vs, "incomplete", NoEvidence)
    BY DEF Outcome
  <2> QED BY <1>5, <2>1 DEF ResolveIncomplete, Outcomes, Evidence
<1>6. CASE \E e \in approvals \cup {NoEvidence} : ResolveAuthorized(q, vs, sig, at, e)
  <2>1. PICK e \in Evidence : ResolveAuthorized(q, vs, sig, at, e)
    BY <1>6 DEF Evidence
  <2>2. Outcome(q, vs, "authorized", e)
    BY <2>1 DEF Outcome, ResolveAuthorized
  <2> QED BY <2>1, <2>2 DEF ResolveAuthorized, Outcomes, Evidence
<1> QED BY <1>3, <1>4, <1>5, <1>6

LEMMA Resolve_Inv ==
  ASSUME ChangeInv, Resolve
  PROVE  ChangeInv'
<1>1. PICK q \in requirements, at \in Times, outcome \in Outcomes, evidence \in Evidence :
           \E vs \in SUBSET {v \in votes : v.requirement = q} : \E sig \in Signatures(vs) :
             /\ Package(q, vs, sig, at) /\ Outcome(q, vs, outcome, evidence)
             /\ Record(q, outcome, vs, sig, evidence, at)
  BY ResolveRecords
<1>2. PICK vs \in SUBSET {v \in votes : v.requirement = q} : \E sig \in Signatures(vs) :
             /\ Package(q, vs, sig, at) /\ Outcome(q, vs, outcome, evidence)
             /\ Record(q, outcome, vs, sig, evidence, at)
  BY <1>1
<1>3. PICK sig \in Signatures(vs) :
             /\ Package(q, vs, sig, at) /\ Outcome(q, vs, outcome, evidence)
             /\ Record(q, outcome, vs, sig, evidence, at)
  BY <1>2
<1> QED BY <1>3, Record_Inv

LEMMA ChangeNext_Inv == ChangeInv /\ [DossierNext]_dossierVars => ChangeInv'
<1> SUFFICES ASSUME ChangeInv, [DossierNext]_dossierVars PROVE ChangeInv'
  OBVIOUS
<1> DEFINE Kept == UNCHANGED <<keyVars, proposals, requirements, votes, approvals, resolutions>>
<1>1. ASSUME Kept PROVE ChangeInv'
  BY <1>1 DEF ChangeInv, KeysUnique, ArtefactsBound, ResolutionsBound, ResolvedProperly,
              SignedFor, ApprovedFor, keyVars
<1>2. CASE KeysNext /\ UNCHANGED changeVars
  BY <1>2, KeyStep_Inv
<1>3. CASE (\E d \in Drafts : Propose(d)) \/ (\E d \in GenAIDrafts : ProposeGenAI(d))
  <2>1. CASE \E d \in Drafts : Propose(d)
    <3>1. PICK d \in Drafts : Propose(d)
      BY <2>1
    <3> QED BY <3>1, Propose_Inv
  <2>2. CASE \E d \in GenAIDrafts : ProposeGenAI(d)
    <3>1. PICK d \in GenAIDrafts : ProposeGenAI(d)
      BY <2>2
    <3> QED BY <3>1, Propose_Inv
  <2> QED BY <1>3, <2>1, <2>2
<1>4. CASE \E p \in proposals, roles \in SUBSET Roles : DeriveRequirement(p, roles)
  BY <1>4, Derive_Inv
<1>5. CASE \E q \in requirements, who \in People, role \in Roles, b \in BOOLEAN, at \in Times :
             CreateVote(q, who, role, b, at)
  BY <1>5, Vote_Inv
<1>6. CASE \E v \in votes, k \in keys, role \in Roles, at \in Times : SignVote(v, k, role, at)
  BY <1>6, Sign_Inv
<1>7. CASE \E s \in States : GrantApproval(s)
  BY <1>7, Grant_Inv
<1>8. CASE Resolve
  BY <1>8, Resolve_Inv
<1>9. CASE \E z \in resolutions, s \in States, at \in Times : Implement(z, s, at)
  BY <1>1, <1>9 DEF Implement
<1>10. CASE \E z \in resolutions, s \in States, o \in OverlaySnapshots, at \in Times :
              \E triggers \in SUBSET GenAITriggers \ {{}} : ImplementGenAI(z, s, o, triggers, at)
  BY <1>1, <1>10 DEF ImplementGenAI
<1>11. CASE \E base \in States, z \in resolutions, is \in SUBSET implementations :
              BuildSigned(base, z, is)
  BY <1>1, <1>11 DEF BuildSigned, vars, changeVars
<1>12. CASE UNCHANGED dossierVars
  BY <1>1, <1>12 DEF dossierVars, vars, changeVars
<1> QED BY <1>2, <1>3, <1>4, <1>5, <1>6, <1>7, <1>8, <1>9, <1>10, <1>11, <1>12
        DEF DossierNext, GenAINext, Next

LEMMA ChangeInvariant == DossierSpec => []ChangeInv
<1>1. DossierInit => ChangeInv
  BY DEF DossierInit, Init, KeysInit, ChangeInv, KeysUnique, ArtefactsBound, ResolutionsBound
<1> QED BY <1>1, ChangeNext_Inv, PTL DEF DossierSpec

\* Every vote that counts is signed by its approver with a key of their own, for
\* ever (resolve_change_authorization).
THEOREM SignaturesAreAttributable == DossierSpec => []SignaturesAttributable
<1>1. ChangeInv => SignaturesAttributable
  BY DEF ChangeInv, KeysUnique, ResolutionsBound, ResolvedProperly, SignedFor,
         SignaturesAttributable
<1> QED BY <1>1, ChangeInvariant, PTL

\* What authorizes has two people in it if the change is material.
LEMMA TwoRoles ==
  ASSUME NEW p, NEW roles, RolesSuffice(p, roles), p.draft.material
  PROVE  \E a, b \in roles : a # b
<1>1. PICK a \in roles : TRUE
  BY DEF RolesSuffice
<1>2. roles # {a}
  BY FS_Singleton DEF RolesSuffice
<1> QED BY <1>2

\* Four eyes, whatever votes and signatures a caller submits.
THEOREM DutiesAreSeparated == DossierSpec => []SeparationOfDuties
<1>1. ChangeInv => SeparationOfDuties
  <2> SUFFICES ASSUME ChangeInv, NEW z \in resolutions, z.outcome = "authorized"
               PROVE  LET p == z.requirement.proposal IN
                        /\ \A role \in z.requirement.roles :
                              \E v \in z.votes : v.role = role /\ v.authorize
                        /\ \A v, w \in z.votes : v.approver = w.approver => v = w
                        /\ p.draft.owner \notin Signers(z)
                        /\ p.draft.material => \E a, b \in Signers(z) : a # b
    BY DEF SeparationOfDuties, Authorized
  <2> DEFINE p == z.requirement.proposal
  <2>1. ResolvedProperly(z)
    BY DEF ChangeInv, ResolutionsBound
  <2>2. \A role \in z.requirement.roles : \E v \in z.votes : v.role = role /\ v.authorize
    BY <2>1 DEF ResolvedProperly, Covered, Rejected
  <2>3. \A v, w \in z.votes : v.approver = w.approver => v = w
    BY <2>1 DEF ResolvedProperly, Distinct
  <2>4. p.draft.owner \notin Signers(z)
    <3>1. ASSUME NEW e \in z.signatures PROVE e.signer # p.draft.owner
      <4>1. PICK v \in z.votes : SignedFor(v, e, z.resolvedAt)
        BY <2>1 DEF ResolvedProperly
      <4>2. v \in votes /\ v.requirement = z.requirement
        BY <2>1 DEF ResolvedProperly
      <4> QED BY <4>1, <4>2 DEF SignedFor, ChangeInv, ArtefactsBound, MayVote
    <3> QED BY <3>1 DEF Signers
  <2>5. ASSUME p.draft.material PROVE \E a, b \in Signers(z) : a # b
    <3>1. PICK r, s \in z.requirement.roles : r # s
      BY <2>1, <2>5, TwoRoles DEF ResolvedProperly, ChangeInv, ArtefactsBound
    <3>2. PICK v, w \in z.votes : v.role = r /\ w.role = s
      BY <2>2
    <3>3. v.approver # w.approver
      BY <2>3, <3>1, <3>2
    <3>4. PICK d, e \in z.signatures :
            SignedFor(v, d, z.resolvedAt) /\ SignedFor(w, e, z.resolvedAt)
      BY <2>1 DEF ResolvedProperly
    <3> QED BY <3>3, <3>4 DEF SignedFor, Signers
  <2> QED BY <2>2, <2>3, <2>4, <2>5
<1> QED BY <1>1, ChangeInvariant, PTL

\* What is implemented by either step is the state and overlay of the proposal.
AsProposed(i) ==
  LET d == i.resolution.requirement.proposal.draft IN
  /\ i.state = d.after
  /\ OverlayOf(i) = Proposed(d, "afterOverlay")
  /\ <<i.state, OverlayOf(i)>> # <<d.before, Proposed(d, "beforeOverlay")>>

\* The salt of an after state tells how it was proposed.
LEMMA SaltsDiffer ==
  ASSUME NEW s, NEW o, NEW triggers
  PROVE  /\ TriggeredAfterState(s, o, triggers).salt # {}
         /\ \A d : TriggeredAfterState(s, o, triggers) # AfterState(d)
         /\ \A t, p, more : TriggeredAfterState(s, o, triggers) = TriggeredAfterState(t, p, more)
              => o = p
<1>1. TriggeredAfterState(s, o, triggers).salt = {<<"genai_triggers", {o}, triggers>>}
  BY DEF TriggeredAfterState
<1>2. ASSUME NEW d PROVE TriggeredAfterState(s, o, triggers) # AfterState(d)
  <2>1. AfterState(d).salt \in {{}, {<<"operational_triggers", {}, d.triggers>>}}
    BY DEF AfterState
  <2>2. <<"genai_triggers", {o}, triggers>> # <<"operational_triggers", {}, d.triggers>>
    OBVIOUS
  <2> QED BY <1>1, <2>1, <2>2
<1>3. ASSUME NEW t, NEW p, NEW more,
             TriggeredAfterState(s, o, triggers) = TriggeredAfterState(t, p, more)
      PROVE  o = p
  <2>1. TriggeredAfterState(t, p, more).salt = {<<"genai_triggers", {p}, more>>}
    BY DEF TriggeredAfterState
  <2>2. <<"genai_triggers", {o}, triggers>> = <<"genai_triggers", {p}, more>>
    BY <1>1, <1>3, <2>1
  <2>3. {o} = {p}
    BY <2>2
  <2> QED BY <2>3
<1> QED BY <1>1, <1>2, <1>3

\* A plain step cannot implement a GenAI proposal, whose after state is salted.
LEMMA PlainAsProposed ==
  ASSUME NEW z, NEW s, NEW at, MayImplement(z, s, at),
         ProposedProperly(z.requirement.proposal)
  PROVE  AsProposed([resolution |-> z, state |-> s, implementedAt |-> at])
<1> DEFINE i == [resolution |-> z, state |-> s, implementedAt |-> at]
           d == z.requirement.proposal.draft
<1> DEFINE plain == [state |-> s, salt |-> {}]
<1>1. d \in DraftType /\ d.before # d.after
  <2>1. plain.salt = {} /\ plain = z.requirement.proposal.afterState
    BY DEF MayImplement
  <2>2. d \in DraftType /\ plain = AfterState(d)
    BY <2>1, SaltsDiffer DEF ProposedProperly
  <2> QED BY <2>1, <2>2 DEF AfterState
<1>2. OverlayOf(i) = {} /\ Proposed(d, "afterOverlay") = {} /\ Proposed(d, "beforeOverlay") = {}
  BY <1>1 DEF OverlayOf, Proposed, DraftType
<1> QED BY <1>1, <1>2 DEF AsProposed, MayImplement

\* Nor can the GenAI step implement another proposal, or another overlay.
LEMMA GenAIAsProposed ==
  ASSUME NEW z, NEW s, NEW o, NEW triggers, NEW at, MayImplementGenAI(z, s, o, triggers, at),
         ProposedProperly(z.requirement.proposal)
  PROVE  AsProposed([resolution |-> z, state |-> s, overlay |-> o, implementedAt |-> at])
<1> DEFINE i == [resolution |-> z, state |-> s, overlay |-> o, implementedAt |-> at]
           d == z.requirement.proposal.draft
<1>1. d \in GenAIDraftType /\ d.afterOverlay = o /\ d.beforeOverlay # o
  <2>1. TriggeredAfterState(s, o, triggers) = z.requirement.proposal.afterState
    BY DEF MayImplementGenAI
  <2> QED BY <2>1, SaltsDiffer DEF ProposedProperly
<1>2. /\ OverlayOf(i) = {o}
      /\ Proposed(d, "afterOverlay") = {o}
      /\ Proposed(d, "beforeOverlay") = {d.beforeOverlay}
  BY <1>1 DEF OverlayOf, Proposed, GenAIDraftType
<1> QED BY <1>1, <1>2 DEF AsProposed, MayImplementGenAI

ImplementedProperly(i) ==
  /\ i.resolution \in Authorized /\ i.resolution.resolvedAt =< i.implementedAt
  /\ AsProposed(i)

LEMMA ImplementedStep ==
  ASSUME ChangeInv, [DossierNext]_dossierVars
  PROVE  /\ resolutions \subseteq resolutions'
         /\ \A i \in implementations' : i \in implementations \/ ImplementedProperly(i)
<1>1. ASSUME NEW z \in resolutions, z.outcome = "authorized"
      PROVE  z \in Authorized /\ ProposedProperly(z.requirement.proposal)
  BY <1>1 DEF Authorized, ChangeInv, ResolutionsBound, ResolvedProperly, ArtefactsBound
<1>2. CASE UNCHANGED implementations /\ resolutions \subseteq resolutions'
  BY <1>2
<1>3. CASE \E z \in resolutions, s \in States, at \in Times : Implement(z, s, at)
  <2>1. PICK z \in resolutions, s \in States, at \in Times : Implement(z, s, at)
    BY <1>3
  <2>2. ImplementedProperly([resolution |-> z, state |-> s, implementedAt |-> at])
    BY <1>1, <2>1, PlainAsProposed DEF Implement, MayImplement, ImplementedProperly
  <2> QED BY <2>1, <2>2 DEF Implement
<1>4. CASE \E z \in resolutions, s \in States, o \in OverlaySnapshots, at \in Times :
             \E triggers \in SUBSET GenAITriggers \ {{}} : ImplementGenAI(z, s, o, triggers, at)
  <2>1. PICK z \in resolutions, s \in States, o \in OverlaySnapshots, at \in Times :
             \E triggers \in SUBSET GenAITriggers \ {{}} : ImplementGenAI(z, s, o, triggers, at)
    BY <1>4
  <2>2. PICK triggers \in SUBSET GenAITriggers \ {{}} : ImplementGenAI(z, s, o, triggers, at)
    BY <2>1
  <2>3. ImplementedProperly([resolution |-> z, state |-> s, overlay |-> o, implementedAt |-> at])
    BY <1>1, <2>2, GenAIAsProposed DEF ImplementGenAI, MayImplementGenAI, ImplementedProperly
  <2> QED BY <2>2, <2>3 DEF ImplementGenAI
<1>5. CASE Resolve
  BY <1>2, <1>5, ResolveRecords DEF Record
<1>6. CASE UNCHANGED <<resolutions, implementations>>
  BY <1>2, <1>6
<1> QED BY <1>3, <1>4, <1>5, <1>6
        DEF DossierNext, GenAINext, Next, dossierVars, vars, changeVars, Propose, ProposeGenAI,
            DeriveRequirement, CreateVote, SignVote, GrantApproval, BuildSigned

ImplementationsBound == \A i \in implementations : ImplementedProperly(i)

LEMMA ImplementationsInvariant == DossierSpec => []ImplementationsBound
<1>1. DossierInit => ImplementationsBound
  BY DEF DossierInit, Init, ImplementationsBound
<1>2. ChangeInv /\ ImplementationsBound /\ [DossierNext]_dossierVars => ImplementationsBound'
  BY ImplementedStep DEF ImplementationsBound, ImplementedProperly, Authorized, AsProposed,
                         OverlayOf, Proposed
<1> QED BY <1>1, <1>2, ChangeInvariant, PTL DEF DossierSpec

\* What is implemented is what was authorized, in whole (create_change_implementation_evidence
\* and its GenAI counterpart).
THEOREM ImplementationIsAuthorized == DossierSpec => []ImplementedAsAuthorized
<1>1. ChangeInv /\ ImplementationsBound => ImplementedAsAuthorized
  <2> SUFFICES ASSUME ChangeInv, ImplementationsBound, NEW i \in implementations
               PROVE  LET d == i.resolution.requirement.proposal.draft IN
                        /\ i.resolution \in Authorized
                        /\ i.resolution.resolvedAt =< i.implementedAt
                        /\ i.state = d.after
                        /\ OverlayOf(i) = Proposed(d, "afterOverlay")
                        /\ <<i.state, OverlayOf(i)>> # <<d.before, Proposed(d, "beforeOverlay")>>
                        /\ d.material => /\ i.resolution.evidence \in approvals
                                         /\ i.resolution.evidence.version = i.state.version
    BY DEF ImplementedAsAuthorized
  <2>1. ImplementedProperly(i)
    BY DEF ImplementationsBound
  <2>2. ResolvedProperly(i.resolution) /\ i.resolution.outcome = "authorized"
    BY <2>1 DEF ImplementedProperly, Authorized, ChangeInv, ResolutionsBound
  <2> QED BY <2>1, <2>2 DEF ImplementedProperly, AsProposed, ResolvedProperly, ApprovedFor
<1> QED BY <1>1, ChangeInvariant, ImplementationsInvariant, PTL

\* A dossier of a change holds one authorized change and its own implementation.
DossiersBound ==
  \A x \in signed : /\ x.resolution \in resolutions
                    /\ Fits(x.base, x.resolution)
                    /\ \A i \in x.implemented : i \in implementations /\ i.resolution = x.resolution

LEMMA PoolsGrow ==
  ASSUME ChangeInv, [DossierNext]_dossierVars
  PROVE  resolutions \subseteq resolutions' /\ implementations \subseteq implementations'
<1>1. CASE Resolve
  BY <1>1, ResolveRecords DEF Record
<1> QED BY <1>1, ImplementedStep
        DEF DossierNext, GenAINext, Next, dossierVars, vars, changeVars, Propose, ProposeGenAI,
            DeriveRequirement, CreateVote, SignVote, GrantApproval, BuildSigned, Implement,
            ImplementGenAI

LEMMA DossiersInvariant == DossierSpec => []DossiersBound
<1>1. DossierInit => DossiersBound
  BY DEF DossierInit, DossiersBound
<1>2. ChangeInv /\ DossiersBound /\ [DossierNext]_dossierVars => DossiersBound'
  <2> SUFFICES ASSUME ChangeInv, DossiersBound, [DossierNext]_dossierVars PROVE DossiersBound'
    OBVIOUS
  <2>1. CASE \E base \in States, z \in resolutions, is \in SUBSET implementations :
               BuildSigned(base, z, is)
    BY <2>1 DEF BuildSigned, DossiersBound, Fits, Implements, vars, changeVars
  <2>2. CASE UNCHANGED signed
    BY <2>2, PoolsGrow DEF DossiersBound, Fits
  <2> QED BY <2>1, <2>2 DEF DossierNext, dossierVars
<1> QED BY <1>1, <1>2, ChangeInvariant, PTL DEF DossierSpec

\* A signed dossier is attributable by itself (build_signed_change_dossier).
THEOREM DossierHoldsTogether == DossierSpec => []SignedDossierHoldsTogether
<1>1. SeparationOfDuties /\ ImplementationsBound /\ DossiersBound => SignedDossierHoldsTogether
  BY DEF SeparationOfDuties, ImplementationsBound, ImplementedProperly, AsProposed,
         DossiersBound, Fits, SignedDossierHoldsTogether, Authorized
<1> QED BY <1>1, DutiesAreSeparated, ImplementationsInvariant, DossiersInvariant, PTL

\* A revocation cuts off, at the resolution and again at the dossier
\* (verify_signed_envelope).
THEOREM RevocationCutsOff == DossierSpec => RevokedKeysDecideNothing
<1> DEFINE CutOff(z) ==
      \A r \in revocations, e \in z.signatures : r.key.keyId = e.key.keyId => z.resolvedAt < r.revokedAt
<1>1. ASSUME Resolve, NEW z \in resolutions' \ resolutions PROVE CutOff(z)
  <2>1. PICK q \in requirements, at \in Times, outcome \in Outcomes, evidence \in Evidence :
           \E vs \in SUBSET {v \in votes : v.requirement = q} : \E sig \in Signatures(vs) :
             /\ Package(q, vs, sig, at) /\ Outcome(q, vs, outcome, evidence)
             /\ Record(q, outcome, vs, sig, evidence, at)
    BY <1>1, ResolveRecords
  <2>2. PICK vs, sig : Package(q, vs, sig, at) /\ Record(q, outcome, vs, sig, evidence, at)
    BY <2>1
  <2>3. z.signatures = {sig[v] : v \in vs} /\ z.resolvedAt = at
    BY <1>1, <2>2 DEF Record
  <2> QED BY <2>2, <2>3 DEF Package, SignedBy, Verifies, ActiveAt
<1>2. ASSUME NEW base, NEW z, NEW is, BuildSigned(base, z, is),
             NEW x \in signed' \ signed
      PROVE  CutOff(x.resolution)
  BY <1>2 DEF BuildSigned, StillVerifies, Verifies, ActiveAt
<1>3. [DossierNext]_dossierVars =>
        \A r \in revocations :
          \A z \in (resolutions' \ resolutions) \cup {x.resolution : x \in signed' \ signed} :
            \A e \in z.signatures : r.key.keyId = e.key.keyId => z.resolvedAt < r.revokedAt
  <2> SUFFICES ASSUME [DossierNext]_dossierVars,
                      NEW z \in (resolutions' \ resolutions) \cup
                                  {x.resolution : x \in signed' \ signed}
               PROVE  CutOff(z)
    OBVIOUS
  <2>1. CASE Resolve /\ UNCHANGED signed
    BY <1>1, <2>1
  <2>2. CASE \E base \in States, y \in resolutions, is \in SUBSET implementations :
               BuildSigned(base, y, is)
    BY <1>2, <2>2 DEF BuildSigned, vars, changeVars
  <2>3. CASE UNCHANGED <<resolutions, signed>>
    BY <2>3
  <2> QED BY <2>1, <2>2, <2>3
          DEF DossierNext, GenAINext, Next, dossierVars, vars, changeVars, Propose, ProposeGenAI,
              DeriveRequirement, CreateVote, SignVote, GrantApproval, Implement, ImplementGenAI
<1> QED BY <1>3, PTL DEF DossierSpec, RevokedKeysDecideNothing
================================================================================
