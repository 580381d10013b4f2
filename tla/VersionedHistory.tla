--------------------------- MODULE VersionedHistory ----------------------------
(***************************************************************************)
(* What the registries of hardening.py and deployment.py have in common.   *)
(* Each keeps, per identity, an append-only history of immutable records:  *)
(* a dictionary keyed by (identity, version), modelled by the set of its   *)
(* values.  The histories are read sorted by version, hence by their last  *)
(* element.  Every time is the caller's: no registry has a clock.          *)
(***************************************************************************)
EXTENDS Integers

CONSTANT MaxTime  \* the bound on every timestamp

ASSUME MaxTimeAssumption == MaxTime \in Nat

Times == 0 .. MaxTime

\* x is history[-1] of the history S.
IsLast(x, S) == x \in S /\ \A y \in S : y.version =< x.version

\* x may be appended to S: versions start at 1 and are contiguous, and the times
\* of registration never go back.  Presenting a registered record again returns
\* it, and one in its place is refused: neither continues S.
Continues(x, S) ==
  IF S = {}
    THEN x.version = 1
    ELSE \E last \in S : /\ IsLast(last, S)
                         /\ x.version = last.version + 1
                         /\ last.registeredAt =< x.registeredAt
================================================================================
