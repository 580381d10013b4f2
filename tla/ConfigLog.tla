------------------------------- MODULE ConfigLog -------------------------------
(***************************************************************************)
(* What the configuration registry promises, without keys, signatures,     *)
(* sequence numbers and digests: every tenant has one list of changes that *)
(* only grows at its end, every object one current configuration, and a    *)
(* change of an object departs from the configuration the object is in,    *)
(* once it has one.                                                        *)
(***************************************************************************)
EXTENDS Sequences

CONSTANTS
  Objects,         \* <<tenant, object>>
  Configurations,
  None             \* no configuration on record

VARIABLES
  log,  \* the changes of each tenant, in order
  conf  \* the configuration of each object

logVars == <<log, conf>>

Tenants == {x[1] : x \in Objects}

Init ==
  /\ log = [t \in Tenants |-> <<>>]
  /\ conf = [x \in Objects |-> None]

Change(x, from, to) ==
  /\ from # to
  /\ conf[x] \in {None, from}
  /\ log' = [log EXCEPT ![x[1]] = Append(@, [object |-> x, from |-> from, to |-> to])]
  /\ conf' = [conf EXCEPT ![x] = to]

Next ==
  \E x \in Objects, from \in Configurations \cup {None}, to \in Configurations :
    Change(x, from, to)

Spec == Init /\ [][Next]_logVars
================================================================================
