------------------------------ MODULE ConfigChain ------------------------------
(***************************************************************************)
(* The signed chain of configuration changes of each tenant (hardening.py, *)
(* class ConfigurationChangeRegistry), over the key registry of            *)
(* KeyLifecycle.  Changes are signed by their owners at any moment, in any *)
(* number and against any previous change, and presented to the registry   *)
(* later, in any order, while keys are rotated, retired and disabled.      *)
(***************************************************************************)
EXTENDS KeyLifecycle, FiniteSets

CONSTANTS
  Requests,  \* the change requests callers draw up
  None,      \* the absence of a digest
  MaxSigned  \* a bound on the changes signed

\* ConfigurationChangeRequest.__post_init__.
WellFormedRequest(r) ==
  /\ r.sequence \in Nat \ {0}
  /\ r.previousConf # r.proposedConf
  /\ r.proposedConf # None
  /\ r.requestedAt \in Times /\ r.effectiveAt \in Times
  /\ r.requestedAt =< r.effectiveAt

ASSUME RequestsAssumption == \A r \in Requests : WellFormedRequest(r)

VARIABLES
  signed,   \* SignedConfigurationChange: [request, previous, key, signedAt]
  changes,  \* _changes: those that were appended
  latest    \* _latest_object_digest

chainVars == <<signed, changes, latest>>
vars == <<lifecycleVars, chainVars>>

ObjectOf(r) == <<r.tenant, r.object>>
ObjectKeys == {ObjectOf(r) : r \in Requests}

Init ==
  /\ LifecycleInit
  /\ signed = {}
  /\ changes = {}
  /\ latest = [o \in ObjectKeys |-> None]

--------------------------------------------------------------------------------
\* sign_configuration_change, with artifact_time = signed_at = now: the signing
\* key is the tenant's current configuration-signing key.  previous is the
\* digest of any change signed so far, absent exactly for sequence 1.
Sign(r, previous, k, at) ==
  /\ k.tenant = r.tenant
  /\ k.purpose = "config_signing"
  /\ r.requestedAt =< at
  /\ at =< r.effectiveAt
  /\ IsCurrent(k, at)
  /\ r.sequence = 1 <=> previous = None
  /\ Cardinality(signed) < MaxSigned
  /\ signed' = signed \cup {[request |-> r, previous |-> previous, key |-> k, signedAt |-> at]}
  /\ UNCHANGED <<lifecycleVars, changes, latest>>

\* verify_signed_configuration_change: the key is judged by its state, as it is
\* recorded now, at the signing time.
Verifies(c, now) ==
  /\ c.signedAt =< now
  /\ c.key \in keys
  /\ c.key.tenant = c.request.tenant
  /\ c.key.purpose = "config_signing"
  /\ StatusAt(c.key, c.signedAt, "active")
  /\ c.key.notBefore =< c.signedAt
  /\ c.signedAt < c.key.notAfter

ChainOf(r) == {c \in changes : c.request.tenant = r.tenant}
IsHead(c, S) == c \in S /\ \A d \in S : d.request.sequence =< c.request.sequence

\* Mutants of append: the previous change digest, or the order of the signing
\* times, is not compared.
ExtendsBySequence(c) ==
  LET chain == ChainOf(c.request) IN
  IF chain = {}
    THEN c.request.sequence = 1
    ELSE \E head \in chain : /\ IsHead(head, chain)
                             /\ c.request.sequence = head.request.sequence + 1
                             /\ head.signedAt =< c.signedAt

ExtendsAtAnyTime(c) ==
  LET chain == ChainOf(c.request) IN
  IF chain = {}
    THEN c.request.sequence = 1 /\ c.previous = None
    ELSE \E head \in chain : /\ IsHead(head, chain)
                             /\ c.request.sequence = head.request.sequence + 1
                             /\ c.previous = head

\* The chain grows at its head: next sequence number, the head's own digest, and
\* not signed before the head.
Extends(c) ==
  LET chain == ChainOf(c.request) IN
  IF chain = {}
    THEN c.request.sequence = 1 /\ c.previous = None
    ELSE \E head \in chain : /\ IsHead(head, chain)
                             /\ c.request.sequence = head.request.sequence + 1
                             /\ c.previous = head
                             /\ head.signedAt =< c.signedAt

\* A mutant of append: the object's current configuration is not compared.
AnyConfiguration(r) == TRUE

\* The object is unknown to the registry, or is in the state the change departs from.
FromCurrentConfiguration(r) ==
  latest[ObjectOf(r)] # None => r.previousConf = latest[ObjectOf(r)]

\* A mutant of append: a disabled key may still activate what it signed.
EffectiveOnly(c, now) == c.request.effectiveAt =< now

MayActivate(c, now) ==
  /\ ~ StatusAt(c.key, now, "disabled")
  /\ c.request.effectiveAt =< now

\* append.  A change that is already in the chain is returned unchanged.
AppendChange(c, now) ==
  /\ \A d \in ChainOf(c.request) : d.request.sequence # c.request.sequence
  /\ Verifies(c, now)
  /\ MayActivate(c, now)
  /\ Extends(c)
  /\ FromCurrentConfiguration(c.request)
  /\ changes' = changes \cup {c}
  /\ latest' = [latest EXCEPT ![ObjectOf(c.request)] = c.request.proposedConf]
  /\ UNCHANGED <<lifecycleVars, signed>>

Next ==
  \/ LifecycleNext /\ UNCHANGED chainVars
  \/ \E r \in Requests, previous \in signed \cup {None}, k \in keys, at \in Times :
        Sign(r, previous, k, at)
  \/ \E c \in signed, now \in Times : AppendChange(c, now)

Spec == Init /\ [][Next]_vars

--------------------------------------------------------------------------------
TypeOK ==
  /\ LifecycleTypeOK
  /\ changes \subseteq signed
  /\ \A c \in signed :
        /\ c = [request |-> c.request, previous |-> c.previous, key |-> c.key,
                signedAt |-> c.signedAt]
        /\ c.request \in Requests /\ c.key \in keys /\ c.signedAt \in Times
        /\ c.previous \in signed \cup {None}
  /\ latest \in [ObjectKeys -> {None} \cup {r.proposedConf : r \in Requests}]

\* The chain of a tenant is one list: no gap, no fork, every change carries the
\* digest of the one before it, and signing times follow the list, whatever was
\* signed, against what, and in whatever order it was presented (append).
OneChainPerTenant ==
  \A c, d \in changes : c.request.tenant = d.request.tenant =>
    /\ c.request.sequence = d.request.sequence => c = d
    /\ d.request.sequence = c.request.sequence + 1 => d.previous = c
    /\ c.request.sequence < d.request.sequence =>
         /\ c.signedAt =< d.signedAt
         /\ \E e \in changes : e.request.tenant = c.request.tenant
                              /\ e.request.sequence = c.request.sequence + 1

\* Along a chain the signing key is never an older one than before: a change
\* signed ahead with a key since rotated out cannot be appended behind one
\* signed with the newer key.  No check compares key versions; it follows from
\* the digest link, the signing times and the choice of the current key.
SigningKeyNeverRollsBack ==
  \A c, d \in changes :
    c.request.tenant = d.request.tenant /\ c.request.sequence < d.request.sequence
      => c.key.version =< d.key.version

\* The cached configuration of an object is what replaying the chain gives, and
\* every change of the object departs from what the previous one left.
LatestIsReplay ==
  \A o \in ObjectKeys :
    LET history == {c \in changes : ObjectOf(c.request) = o} IN
    /\ history = {} => latest[o] = None
    /\ \A c \in history :
         /\ IsHead(c, history) => latest[o] = c.request.proposedConf
         /\ \A d \in history : IsHead(d, {e \in history : e.request.sequence < c.request.sequence})
              => c.request.previousConf = d.request.proposedConf

\* Of a step: what it appends was effective before its key was disabled, and
\* signed before its key was retired, as far as the registry knows by then.
OnlyUsableKeysActivate ==
  \A c \in changes' \ changes : \A s \in Lifecycle(c.key) :
    /\ s.status = "disabled" => c.request.effectiveAt < s.effectiveAt
    /\ s.status = "retired" => c.signedAt < s.effectiveAt

\* Once a key is recorded as disabled from some time on, no change it signed is
\* activated any more unless that change was effective before that time; and a
\* change signed from the retirement on is not activated at all (append).
DisabledKeyActivatesNothing == [][OnlyUsableKeysActivate]_vars

\* The refinement mapping: the list of a tenant is its chain C read in the order of
\* the sequence numbers, and an object's configuration is the cached one.
Length(C) == IF C = {} THEN 0 ELSE (CHOOSE c \in C : IsHead(c, C)).request.sequence

At(C, n) == CHOOSE c \in C : c.request.sequence = n

Entry(r) == [object |-> ObjectOf(r), from |-> r.previousConf, to |-> r.proposedConf]

ListOf(C) == [n \in 1 .. Length(C) |-> Entry(At(C, n).request)]

TenantChain(t) == {c \in changes : c.request.tenant = t}

Log == INSTANCE ConfigLog WITH
  Objects <- ObjectKeys,
  Configurations <- (UNION {{r.previousConf, r.proposedConf} : r \in Requests}) \ {None},
  None <- None,
  log <- [t \in {x[1] : x \in ObjectKeys} |-> ListOf(TenantChain(t))],
  conf <- latest

\* Signed ahead, out of order, against any predecessor and with keys that come and
\* go, the changes that are appended are those of one growing list per tenant, in
\* which every change departs from the configuration its object is in
\* (ConfigurationChangeRegistry).
ImplementsLog == Log!Spec
================================================================================
