---------------------------- MODULE MCChangeControl ----------------------------
(* A small instance of SignedDossier:  one model, two people with a key each, of *)
(* whom one may sign in either role, and a third who owns the materiality decisions. *)
EXTENDS SignedDossier

\* Governance states: two versions under one policy and one record.
Old == [record |-> "record", version |-> "v1", policy |-> "policy"]
New == [record |-> "record", version |-> "v2", policy |-> "policy"]
NewPolicy == [record |-> "record", version |-> "v1", policy |-> "policy2"]

MCStates == {Old, New}
MCRoles == {"model_risk_approver", "change_control_approver"}
MCPeople == {"olivia", "bob", "carol"}

Draft(before, after, triggers, material) ==
  [before |-> before, after |-> after, triggers |-> triggers, material |-> material,
   owner |-> "olivia"]

\* A material change of version, an operational trigger, and a minor change of the
\* overlay of a version.
MCDrafts == {Draft(Old, New, {}, TRUE), Draft(Old, Old, {"monitoring"}, FALSE)}

Overlay(id) == [id |-> id, version |-> "v1"]
MCOverlays == {Overlay("o1"), Overlay("o2")}
MCGenAIDrafts ==
  {[before |-> Old, after |-> Old, triggers |-> {"safety_policy"}, material |-> FALSE,
    owner |-> "olivia", beforeOverlay |-> Overlay("o1"), afterOverlay |-> Overlay("o2")]}

Key(id, owner, roles, from, until) ==
  [keyId |-> id, owner |-> owner, roles |-> roles, validFrom |-> from,
   validUntil |-> until, registeredAt |-> 0]

\* Bob's key for either role, carol's key that expires, and another content for bob's
\* key id.
MCKeys == {Key("k1", "bob", MCRoles, 0, Forever),
           Key("k2", "carol", {"change_control_approver"}, 0, 1),
           Key("k1", "olivia", {"model_risk_approver"}, 0, Forever)}

\* Every vote consents, and its approver signed it at once.
Plain ==
  /\ revocations = {}
  /\ \A v \in votes : v.authorize /\ v.decidedAt = 0
  /\ \A e \in envelopes :
       e.signedAt = 0 /\ e.signer = e.vote.approver /\ e.role = e.vote.role

\* One change in any way a package may go, or two changes, requirements or resolutions
\* whose packages are plain.  Approvals are read for material changes only, and only
\* these need more than one vote.
InTurn ==
  /\ approvals # {} => \E p \in proposals : p.draft.material
  /\ \A v, w \in votes :
       v.requirement = w.requirement /\ v # w => v.requirement.proposal.draft.material
  /\ Plain \/ /\ Cardinality(proposals) =< 1
              /\ Cardinality(requirements) =< 1
              /\ Cardinality(resolutions) =< 1

\* The instance of the disagreement with the documentation.
StatesOfPolicyChange == {Old, NewPolicy}
PolicyChange == {Draft(Old, NewPolicy, {}, TRUE)}
PlainKeys == {Key("k1", "bob", MCRoles, 0, Forever),
              Key("k2", "carol", MCRoles, 0, Forever)}
================================================================================
