------------------------------ MODULE MCAssurance ------------------------------
(* Small instance of Assurance: a profile of one or two references, superseded   *)
(* once, beside a profile of another framework.                                  *)
EXTENDS Assurance

MCReferenceSets == {{"r1"}, {"r1", "r2"}}

\* The profile q is registered once, at 0, of one reference, beside a profile p of one;
\* what is decided and mapped is of one scope, the evidence of any; identifiers of
\* assertions and entries are taken in their order.
Small ==
  /\ \A p \in profiles :
       IF p.id = "q" THEN p.version = 1 /\ p.framework = "g" /\ p.refs = {"r1"} /\ p.at = 0
                     ELSE p.framework = "f"
  /\ Named(profiles, "q") # {} => \A p \in profiles : p.refs = {"r1"}
  /\ \A x, y \in assertions \cup entries : x.scope = y.scope
  /\ Named(assertions, "a1") = {} => assertions = {}
  /\ Named(entries, "c1") = {} => entries = {}
================================================================================
