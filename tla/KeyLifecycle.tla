----------------------------- MODULE KeyLifecycle ------------------------------
(***************************************************************************)
(* The registry of an institution's KMS/HSM key references and of their    *)
(* lifecycle states (hardening.py, class InstitutionCryptoKeyRegistry).    *)
(* tenant stands for the pair (institution_id, tenant_id); a digest is     *)
(* modelled by the content it identifies.  Every time is the caller's: a   *)
(* key may be introduced, retired or disabled as of a past or a future     *)
(* time.                                                                   *)
(***************************************************************************)
EXTENDS VersionedHistory

CONSTANT KeyRefs  \* the key references callers present

\* What InstitutionCryptoKeyReference.__post_init__ requires.
WellFormedRef(k) ==
  /\ k.version \in Nat \ {0}
  /\ k.notBefore \in Times /\ k.registeredAt \in Times /\ k.notAfter \in Nat
  /\ k.notBefore < k.notAfter
  /\ k.registeredAt =< k.notAfter

ASSUME KeyRefsAssumption == \A k \in KeyRefs : WellFormedRef(k)

VARIABLES
  keys,   \* _keys
  states  \* _states: [key, version, status, effectiveAt]

lifecycleVars == <<keys, states>>

LifecycleInit == keys = {} /\ states = {}

SameScope(k, e) == k.tenant = e.tenant /\ k.purpose = e.purpose

\* history and lifecycle.
History(k) == {e \in keys : SameScope(e, k)}
Lifecycle(k) == {s \in states : s.key = k}

\* A mutant of the registration: lifecycle versions count from 0.
RegisterFromZero(k) ==
  /\ Continues(k, History(k))
  /\ keys' = keys \cup {k}
  /\ states' = states \cup {[key |-> k, version |-> 0, status |-> "active",
                             effectiveAt |-> k.registeredAt]}

\* register.  Presenting a registered reference again changes nothing.
Register(k) ==
  /\ Continues(k, History(k))
  /\ \A e \in History(k) : e.keyId # k.keyId
  /\ keys' = keys \cup {k}
  /\ states' = states \cup {[key |-> k, version |-> 1, status |-> "active",
                             effectiveAt |-> k.registeredAt]}

Statuses == {"active", "retired", "disabled"}

\* A mutant of _ALLOWED_KEY_TRANSITIONS: a retired key can be taken back.
RevivableTransitions ==
  [active |-> {"retired", "disabled"}, retired |-> {"active", "disabled"}, disabled |-> {}]

\* _ALLOWED_KEY_TRANSITIONS.
AllowedTransitions ==
  [active |-> {"retired", "disabled"}, retired |-> {"disabled"}, disabled |-> {}]

\* transition: the next lifecycle version of a registered key, not effective
\* before the previous one.  It may take effect before signatures already made.
Transition(k, status, at) ==
  \E last \in Lifecycle(k) :
    /\ IsLast(last, Lifecycle(k))
    /\ status \in AllowedTransitions[last.status]
    /\ last.effectiveAt =< at
    /\ states' = states \cup {[key |-> k, version |-> last.version + 1,
                               status |-> status, effectiveAt |-> at]}
    /\ UNCHANGED keys

LifecycleNext ==
  \/ \E k \in KeyRefs : Register(k)
  \/ \E k \in keys, status \in Statuses, at \in Times : Transition(k, status, at)

LifecycleSpec == LifecycleInit /\ [][LifecycleNext]_lifecycleVars

--------------------------------------------------------------------------------
Effective(k, t) == {s \in Lifecycle(k) : s.effectiveAt =< t}

\* status_at(k, at=t) is defined and is the given status.
StatusAt(k, t, status) ==
  \E s \in Effective(k, t) : IsLast(s, Effective(k, t)) /\ s.status = status

Introduced(k, t) == {e \in History(k) : e.notBefore =< t}

\* A mutant of current_key: fall back to the newest key that is still usable.
NewestUsable(k, t) ==
  LET usable == {e \in Introduced(k, t) : t < e.notAfter /\ StatusAt(e, t, "active")}
  IN  IsLast(k, usable)

\* current_key(..., now=t) returns k: the newest introduced reference, and no
\* older one when it is expired, retired, disabled or not yet effective.
IsCurrent(k, t) ==
  /\ IsLast(k, Introduced(k, t))
  /\ t < k.notAfter
  /\ StatusAt(k, t, "active")

--------------------------------------------------------------------------------
StateType == [key : KeyRefs, version : Nat \ {0}, status : Statuses, effectiveAt : Times]

LifecycleTypeOK ==
  /\ keys \subseteq KeyRefs
  /\ states \subseteq StateType

Rank == [active |-> 0, retired |-> 1, disabled |-> 2]

KeysOrdered ==
  \A k, e \in keys : SameScope(k, e) =>
    /\ k.version = e.version \/ k.keyId = e.keyId => k = e
    /\ k.version < e.version => k.registeredAt =< e.registeredAt

KeysContiguous ==
  \A k \in keys : \A n \in 1 .. k.version : \E e \in History(k) : e.version = n

StatesOrdered ==
  \A s, r \in states : s.key = r.key =>
    /\ s.version = r.version => s = r
    /\ s.version < r.version => s.effectiveAt =< r.effectiveAt

StatesContiguous ==
  \A s \in states : \A n \in 1 .. s.version : \E r \in Lifecycle(s.key) : r.version = n

\* Version numbers identify the keys of a scope and the states of a key, without
\* gaps, key ids are never reused by a rotation, and neither history goes back in
\* time: sorting by version is sorting by time (register, transition).
HistoriesOrdered ==
  KeysOrdered /\ KeysContiguous /\ StatesOrdered /\ StatesContiguous

\* Of a step: the status a registered key has at a time is not weaker after the
\* step than the one it had before at that time, or at an earlier one.
StatusesOnlyWeaken ==
  \A k \in keys, t \in Times, a \in Statuses :
    StatusAt(k, t, a) =>
      \A u \in t .. MaxTime, b \in Statuses : StatusAt(k, u, b)' => Rank[a] =< Rank[b]

\* Of a step: where a reference was current at a time, no older one of its scope
\* is current after the step at that time, or at a later one.
NoOlderKeyBecomesCurrent ==
  \A k \in keys, t \in Times :
    IsCurrent(k, t) =>
      \A u \in t .. MaxTime : \A e \in keys' :
        SameScope(k, e) /\ IsCurrent(e, u)' => k.version =< e.version

\* "monotonic key lifecycle" (README): whatever is recorded, and as of whatever
\* past or future time, a key never regains a status it had lost (transition,
\* status_at).
StatusNeverRecovers == [][StatusesOnlyWeaken]_lifecycleVars

\* Rotation is one way: once a reference was the current key at some represented
\* time, an older reference of the scope is never the current key at that time
\* or later, even after the newer one is retired, disabled or expired
\* (current_key).
CurrentKeyNeverRollsBack == [][NoOlderKeyBecomesCurrent]_lifecycleVars
================================================================================
