----------------------------- MODULE SignedDossier -----------------------------
(***************************************************************************)
(* The signed dossier of a change (signed_dossier.py): an authorized       *)
(* change, its votes and signatures, and the evidence of its               *)
(* implementation if there is one, appended to a governance dossier.  The  *)
(* signatures are verified again, against the keys as they are by then.    *)
(***************************************************************************)
EXTENDS GenAIChange

CONSTANT MaxSigned  \* bound on the pool

VARIABLE signed  \* GovernanceDossier with the entries of a change

dossierVars == <<vars, signed>>

DossierInit == Init /\ signed = {}

\* Every signature verifies, as of the time of the resolution.
StillVerifies(z) == \A e \in z.signatures : Verifies(e, e.vote, z.resolvedAt)

\* A mutant of the dossier: any resolution may be attached.
AnyResolutionFits(base, z) == base.version = z.requirement.proposal.draft.after.version

\* Of the base dossier, which is about the governance state base, only the version
\* id is compared.
Fits(base, z) ==
  /\ z.outcome = "authorized"
  /\ base.version = z.requirement.proposal.draft.after.version

\* A mutant of the dossier: any implementation of the proposal may be attached.
OfTheProposal(i, z) == i.resolution.requirement.proposal = z.requirement.proposal

\* The implementation is bound to the proposal, the resolution and the after state of
\* the change; the resolution identifies the other two.
Implements(i, z) == i.resolution = z

\* build_signed_change_dossier; the votes and signatures must be those of the
\* resolution.
BuildSigned(base, z, implemented) ==
  /\ Fits(base, z)
  /\ StillVerifies(z)
  /\ \A i \in implemented : Implements(i, z)
  /\ Cardinality(implemented) =< 1
  /\ Cardinality(signed) < MaxSigned
  /\ signed' = signed \cup {[base |-> base, resolution |-> z, implemented |-> implemented]}
  /\ UNCHANGED vars

DossierNext ==
  \/ GenAINext /\ UNCHANGED signed
  \/ \E base \in States, z \in resolutions, is \in SUBSET implementations :
        BuildSigned(base, z, is)

DossierSpec == DossierInit /\ [][DossierNext]_dossierVars

--------------------------------------------------------------------------------
\* A revocation cuts off: from the moment it is recorded no step resolves a change
\* with a signature of the revoked key, and none puts a change resolved earlier on
\* record in a dossier, if the time of the resolution is revoked_at or later;
\* revoked_at may lie before signatures already made (verify_signed_envelope).
RevokedKeysDecideNothing ==
  [][\A r \in revocations :
       \A z \in (resolutions' \ resolutions) \cup {x.resolution : x \in signed' \ signed} :
         \A e \in z.signatures : r.key.keyId = e.key.keyId => z.resolvedAt < r.revokedAt]_dossierVars

\* A signed dossier is attributable by itself: the change in it was authorized for
\* the version of the base dossier by persons other than the owner of its
\* materiality; and what is said to be implemented is the state and the overlay of
\* that very change, put in place no earlier than the authorization on record,
\* although other changes, or other authorizations of this one, were implemented too.
SignedDossierHoldsTogether ==
  \A x \in signed :
    LET p == x.resolution.requirement.proposal IN
    /\ x.resolution \in Authorized
    /\ x.base.version = p.draft.after.version
    /\ p.draft.owner \notin Signers(x.resolution)
    /\ \A i \in x.implemented :
         /\ i.state = p.draft.after /\ i.state.version = x.base.version
         /\ OverlayOf(i) = Proposed(p.draft, "afterOverlay")
         /\ x.resolution.resolvedAt =< i.implementedAt
================================================================================
