---------------------------- MODULE MCModelApproval ----------------------------
(* Small instance of Dossier and ModelApproval: the record of the model changes   *)
(* owner, a policy with the proportions of the default one, ratings that reach    *)
(* every tier, and plans whose tests went well or did not.                        *)
EXTENDS Dossier

MCRecords == {[owner |-> "alice", use |-> "pricing"], [owner |-> "bob", use |-> "pricing"]}
MCPeople == {"alice", "bob", "carol"}

MCPolicies ==
  {[weights |-> [f \in {"impact", "autonomy"} |-> IF f = "impact" THEN 5 ELSE 4],
    medium |-> 7, high |-> 14, critical |-> 21, maxCredit |-> 3,
    requirements |-> DefaultRequirements]}

Rating(impact, autonomy, strengths) ==
  [levels |-> [f \in {"impact", "autonomy"} |-> IF f = "impact" THEN impact ELSE autonomy],
   strengths |-> strengths]
Controls(s) == [c \in {"c1", "c2", "c3"} |-> s]
MCRatings == {Rating(0, 1, Controls(3)), Rating(1, 1, Controls(0)), Rating(2, 3, Controls(0)),
              Rating(2, 3, Controls(3))}

Test(id, mandatory, status) == [id |-> id, mandatory |-> mandatory, status |-> status]
MCTestPlans ==
  {{Test("t1", TRUE, "pass"), Test("t2", FALSE, "fail")},
   {Test("t1", TRUE, "pass"), Test("t2", TRUE, "not_run")},
   {Test("t1", TRUE, "fail")}}

Finding(id, test, blocking, closedBy) ==
  [id |-> id, test |-> test, blocking |-> blocking, closedBy |-> closedBy]

\* A blocking finding, open and closed, and two findings of one id, so that findings
\* other than those resolved can give the same resolution.
MCFindings == {Finding("f", "t1", TRUE, NotClosed), Finding("f", "t1", TRUE, "carol"),
               Finding("g", "t1", FALSE, NotClosed), Finding("g", "t2", FALSE, NotClosed)}

MCWaivers == {{"monitoring_plan"}, {"change_control", "senior_risk_approval"}}

\* What is planned is v1, under the only decision, or beside one about the record of
\* alice that differs from it in the version alone or in the rating alone; a plan under
\* a critical decision stands alone; an exception is made once there is an approval.
InTurn ==
  /\ \A p \in plans :
       /\ p.version = "v1"
       /\ \A d \in decisions \ {p.decision} :
            /\ d.record = p.decision.record /\ d.record.owner = "alice"
            /\ d.version = p.version \/ <<d.levels, d.credit>> = <<p.decision.levels, p.decision.credit>>
            /\ "executive_risk_acceptance" \notin p.decision.requirements
  /\ exceptions # {} => approvals # {}
================================================================================
