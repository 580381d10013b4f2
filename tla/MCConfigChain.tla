----------------------------- MODULE MCConfigChain -----------------------------
(* Small instance of ConfigChain: one tenant, one rotation of its signing key,  *)
(* two objects, requests that compete for the places of the chain.              *)
EXTENDS ConfigChain

Ref(version, id, from, until, registered) ==
  [tenant |-> "t", purpose |-> "config_signing", version |-> version, keyId |-> id,
   notBefore |-> from, notAfter |-> until, registeredAt |-> registered]

MCKeyRefs == {Ref(1, "a", 0, 3, 0), Ref(2, "b", 1, 3, 0)}

Request(sequence, object, from, to, requested, effective) ==
  [tenant |-> "t", sequence |-> sequence, object |-> object, previousConf |-> from,
   proposedConf |-> to, requestedAt |-> requested, effectiveAt |-> effective]

\* A first change, a second one of the same object, one in its place that does
\* not depart from what the first leaves, and a third one of another object.
MCRequests ==
  {Request(1, "o1", None, "x", 0, 2),
   Request(2, "o1", "x", "y", 0, 2),
   Request(2, "o1", "z", "y", 1, 1),
   Request(3, "o2", None, "x", 0, 2)}
================================================================================
