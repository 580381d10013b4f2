------------------------------ MODULE SigningKeys ------------------------------
(***************************************************************************)
(* The registry of public verification keys and of their revocations       *)
(* (signing.py, class SigningKeyRegistry).  A digest identifies the exact  *)
(* content of an artefact, so it is modelled by the artefact itself, and   *)
(* a dictionary by the set of its values.  keyId stands for the pair       *)
(* (institution_id, key_id), the identity under which a key is stored.     *)
(* Every time is an argument of the caller: the registry has no clock.     *)
(***************************************************************************)
EXTENDS Integers

CONSTANTS
  KeyRecords,  \* the key records callers present, several may share a keyId
  MaxTime,     \* the bound on every timestamp
  Forever      \* the valid_until of a key that does not expire (None)

Times == 0 .. MaxTime

\* What VerificationKeyRecord.__post_init__ requires of a record.
WellFormedKey(k) ==
  /\ k.validFrom \in Times
  /\ k.registeredAt \in Times
  /\ k.registeredAt =< k.validFrom
  /\ k.validUntil # Forever => /\ k.validUntil \in Nat
                               /\ k.validFrom < k.validUntil

ASSUME MaxTimeAssumption == MaxTime \in Nat
ASSUME KeyRecordsAssumption == \A k \in KeyRecords : WellFormedKey(k)

VARIABLES
  keys,        \* _keys: the registered key records
  revocations  \* _revocations: what was revoked, and from which time on

keyVars == <<keys, revocations>>

KeysInit ==
  /\ keys = {}
  /\ revocations = {}

\* A mutant of the registry: the last registration of an identity wins.
OverwriteKey(k) ==
  /\ keys' = {e \in keys : e.keyId # k.keyId} \cup {k}
  /\ UNCHANGED revocations

\* register_key: a key id is immutable, and registering it again is idempotent.
RegisterKey(k) ==
  /\ \A e \in keys : e.keyId = k.keyId => e = k
  /\ keys' = keys \cup {k}
  /\ UNCHANGED revocations

\* revoke_key: bound to the registered content, once per key id, and never
\* before the key becomes valid (it may lie before signatures already made).
RevokeKey(k, at) ==
  /\ k \in keys
  /\ k.validFrom =< at
  /\ \A r \in revocations :
        r.key.keyId = k.keyId => r = [key |-> k, revokedAt |-> at]
  /\ revocations' = revocations \cup {[key |-> k, revokedAt |-> at]}
  /\ UNCHANGED keys

KeysNext ==
  \E k \in KeyRecords :
    \/ RegisterKey(k)
    \/ \E at \in Times : RevokeKey(k, at)

KeysSpec == KeysInit /\ [][KeysNext]_keyVars

\* assert_key_active.
ActiveAt(k, t) ==
  /\ k.validFrom =< t
  /\ k.validUntil # Forever => t < k.validUntil
  /\ \A r \in revocations : r.key.keyId = k.keyId => t < r.revokedAt
================================================================================
