---------------------------- MODULE HardeningProofs ----------------------------
(***************************************************************************)
(* Proofs about hardening.py: the key registry (KeyLifecycle), the signed  *)
(* configuration chain over it (ConfigChain) and its list (ConfigLog), and *)
(* the encrypted evidence over the key and the isolation registries        *)
(* (TenantEvidence); for every set of key references, requests, policies   *)
(* and tenants and every bound on time.                                    *)
(***************************************************************************)
EXTENDS ConfigChain, TenantEvidence, SequenceTheorems, TLAPS

(***************************************************************************)
(* The key registry.  The inductive invariant adds to the two invariants   *)
(* the runs check what relates the states to the keys they are about and   *)
(* the order of the statuses of a key.                                     *)
(***************************************************************************)

\* Every lifecycle state is about a registered key.
StatesBound == \A s \in states : s.key \in keys

\* Along the lifecycle of a key the status weakens with every version.
StatesRanked ==
  \A s, r \in states :
    s.key = r.key /\ s.version < r.version => Rank[s.status] < Rank[r.status]

LifecycleInv ==
  LifecycleTypeOK /\ HistoriesOrdered /\ StatesBound /\ StatesRanked

\* The types of the fields of a reference, from the assumption on KeyRefs.
LEMMA RefFields ==
  ASSUME NEW k \in KeyRefs
  PROVE  /\ k.version \in Nat /\ k.version >= 1
         /\ k.notBefore \in Int /\ k.notAfter \in Int /\ k.registeredAt \in Int
         /\ k.registeredAt \in Times
  BY KeyRefsAssumption, MaxTimeAssumption DEF WellFormedRef, Times

\* A reference that may be registered is new: its version is one more than the
\* last of its scope, so no registered key has it.
LEMMA SuccessorIsNew ==
  ASSUME LifecycleTypeOK, NEW k \in KeyRefs, Continues(k, History(k))
  PROVE  /\ k \notin keys
         /\ \A e \in keys : SameScope(e, k) => /\ e.version < k.version
                                               /\ e # k
<1>1. ASSUME NEW e \in keys, SameScope(e, k) PROVE e.version < k.version
  <2>1. e \in History(k)
    BY <1>1 DEF History
  <2>2. PICK last \in History(k) : IsLast(last, History(k)) /\ k.version = last.version + 1
    BY <2>1 DEF Continues
  <2>3. e.version =< last.version
    BY <2>1, <2>2 DEF IsLast
  <2>4. last \in KeyRefs /\ e \in KeyRefs
    BY <1>1 DEF LifecycleTypeOK, History
  <2> QED BY <2>2, <2>3, <2>4, RefFields
<1>2. \A e \in keys : SameScope(e, k) => e # k
  BY <1>1, RefFields
<1>3. k \notin keys
  BY <1>2 DEF SameScope
<1> QED BY <1>1, <1>2, <1>3

\* A transition adds the state after the last one, weaker and not earlier.
LEMMA TransitionExtends ==
  ASSUME LifecycleInv, NEW k \in keys, NEW status \in Statuses, NEW at \in Times,
         Transition(k, status, at)
  PROVE  \E last \in states, s \in StateType :
           /\ last.key = k /\ s.key = k
           /\ s.version = last.version + 1
           /\ \A r \in states : r.key = k => r.version =< last.version
           /\ last.effectiveAt =< s.effectiveAt
           /\ Rank[last.status] < Rank[s.status]
           /\ states' = states \cup {s}
           /\ keys' = keys
<1>1. PICK last \in Lifecycle(k) :
        /\ IsLast(last, Lifecycle(k))
        /\ status \in AllowedTransitions[last.status]
        /\ last.effectiveAt =< at
        /\ states' = states \cup {[key |-> k, version |-> last.version + 1,
                                   status |-> status, effectiveAt |-> at]}
        /\ UNCHANGED keys
  BY DEF Transition
<1> DEFINE s == [key |-> k, version |-> last.version + 1, status |-> status,
                 effectiveAt |-> at]
<1>2. last \in states /\ last.key = k /\ last \in StateType
  BY <1>1 DEF Lifecycle, LifecycleInv, LifecycleTypeOK
<1>3. s \in StateType
  BY <1>2 DEF LifecycleInv, LifecycleTypeOK, StateType
<1>4. \A r \in states : r.key = k => r.version =< last.version
  BY <1>1 DEF IsLast, Lifecycle
<1>5. Rank[last.status] < Rank[status]
  BY <1>1, <1>2 DEF AllowedTransitions, Rank, StateType, Statuses
<1> QED BY <1>1, <1>2, <1>3, <1>4, <1>5

LEMMA LifecycleInit_Inv == LifecycleInit => LifecycleInv
  BY DEF LifecycleInit, LifecycleInv, LifecycleTypeOK, HistoriesOrdered, KeysOrdered,
         KeysContiguous, StatesOrdered, StatesContiguous, StatesBound, StatesRanked

LEMMA Register_Inv ==
  ASSUME LifecycleInv, NEW k \in KeyRefs, Register(k)
  PROVE  LifecycleInv'
<1> DEFINE s == [key |-> k, version |-> 1, status |-> "active",
                 effectiveAt |-> k.registeredAt]
<1> USE DEF LifecycleInv, HistoriesOrdered
<1>1. keys' = keys \cup {k} /\ states' = states \cup {s}
  BY DEF Register
<1>2. /\ k \notin keys
      /\ \A e \in keys : SameScope(e, k) => e.version < k.version /\ e # k
  BY SuccessorIsNew DEF Register
<1>3. /\ \A e \in keys : SameScope(e, k) => e.keyId # k.keyId
      /\ \A e \in keys : SameScope(e, k) => e.registeredAt =< k.registeredAt
  <2>1. \A e \in keys : SameScope(e, k) => e.keyId # k.keyId
    BY DEF Register, History
  <2>2. ASSUME NEW e \in keys, SameScope(e, k) PROVE e.registeredAt =< k.registeredAt
    <3>1. e \in History(k)
      BY <2>2 DEF History
    <3>2. PICK last \in History(k) :
            IsLast(last, History(k)) /\ last.registeredAt =< k.registeredAt
      BY <3>1 DEF Register, Continues
    <3>3. last \in keys /\ SameScope(e, last) /\ e.version =< last.version
      BY <2>2, <3>1, <3>2 DEF IsLast, History, SameScope
    <3>4. e \in KeyRefs /\ last \in KeyRefs
      BY <2>2, <3>3 DEF LifecycleTypeOK
    <3>5. e.registeredAt =< last.registeredAt
      <4>1. CASE e.version = last.version
        BY <2>2, <3>3, <3>4, <4>1, RefFields DEF KeysOrdered
      <4>2. CASE e.version < last.version
        BY <2>2, <3>3, <4>2 DEF KeysOrdered
      <4> QED BY <3>3, <3>4, <4>1, <4>2, RefFields
    <3> QED BY <3>2, <3>4, <3>5, RefFields
  <2> QED BY <2>1, <2>2
<1>4. \A r \in states : r.key # k
  BY <1>2 DEF StatesBound
<1>5. s \in StateType
  BY RefFields DEF StateType, Statuses
<1>6. LifecycleTypeOK'
  BY <1>1, <1>5 DEF LifecycleTypeOK, StateType
<1>7. KeysOrdered'
  <2> SUFFICES ASSUME NEW a \in keys', NEW b \in keys', SameScope(a, b)
               PROVE  /\ a.version = b.version \/ a.keyId = b.keyId => a = b
                      /\ a.version < b.version => a.registeredAt =< b.registeredAt
    BY DEF KeysOrdered, SameScope
  <2>1. CASE a \in keys /\ b \in keys
    BY <2>1 DEF KeysOrdered
  <2>2. CASE a = k /\ b = k
    BY <2>2, RefFields
  <2>3. CASE a \in keys /\ b = k
    BY <1>2, <1>3, <2>3, RefFields DEF LifecycleTypeOK
  <2>4. CASE a = k /\ b \in keys
    <3>1. SameScope(b, k)
      BY <2>4 DEF SameScope
    <3>2. b.version < k.version /\ b.keyId # k.keyId
      BY <1>2, <1>3, <2>4, <3>1
    <3>3. b \in KeyRefs
      BY <2>4 DEF LifecycleTypeOK
    <3> QED BY <2>4, <3>2, <3>3, RefFields
  <2> QED BY <1>1, <2>1, <2>2, <2>3, <2>4
<1>8. KeysContiguous'
  <2> SUFFICES ASSUME NEW a \in keys', NEW n \in 1 .. a.version
               PROVE  \E e \in keys' : SameScope(e, a) /\ e.version = n
    BY DEF KeysContiguous, History, SameScope
  <2>1. CASE a \in keys
    BY <1>1, <2>1 DEF KeysContiguous, History
  <2>2. CASE a = k
    <3>1. CASE n = k.version
      BY <1>1, <2>2, <3>1 DEF SameScope
    <3>2. CASE n # k.version
      <4>1. n < k.version /\ n >= 1
        BY <2>2, <3>2, RefFields
      <4>2. History(k) # {}
        BY <4>1 DEF Register, Continues
      <4>3. PICK last \in History(k) : k.version = last.version + 1
        BY <4>2 DEF Register, Continues
      <4>4. last \in keys /\ SameScope(last, k) /\ last \in KeyRefs
        BY <4>3 DEF History, LifecycleTypeOK
      <4>5. n \in 1 .. last.version
        BY <2>2, <4>1, <4>3, <4>4, RefFields
      <4>6. PICK e \in History(last) : e.version = n
        BY <4>4, <4>5 DEF KeysContiguous
      <4> QED BY <1>1, <2>2, <4>4, <4>6 DEF History, SameScope
    <3> QED BY <3>1, <3>2
  <2> QED BY <1>1, <2>1, <2>2
<1>9. StatesOrdered'
  BY <1>1, <1>4, <1>5 DEF StatesOrdered, StateType
<1>10. StatesContiguous'
  <2> SUFFICES ASSUME NEW r \in states', NEW n \in 1 .. r.version
               PROVE  \E q \in states' : q.key = r.key /\ q.version = n
    BY DEF StatesContiguous, Lifecycle
  <2>1. CASE r \in states
    BY <1>1, <2>1 DEF StatesContiguous, Lifecycle
  <2>2. CASE r = s
    BY <1>1, <2>2
  <2> QED BY <1>1, <2>1, <2>2
<1>11. StatesBound' /\ StatesRanked'
  BY <1>1, <1>4 DEF StatesBound, StatesRanked
<1> QED BY <1>6, <1>7, <1>8, <1>9, <1>10, <1>11

LEMMA Transition_Inv ==
  ASSUME LifecycleInv, NEW k \in keys, NEW status \in Statuses, NEW at \in Times,
         Transition(k, status, at)
  PROVE  LifecycleInv'
<1> USE DEF LifecycleInv, HistoriesOrdered
<1>1. PICK last \in states, s \in StateType :
        /\ last.key = k /\ s.key = k
        /\ s.version = last.version + 1
        /\ \A r \in states : r.key = k => r.version =< last.version
        /\ last.effectiveAt =< s.effectiveAt
        /\ Rank[last.status] < Rank[s.status]
        /\ states' = states \cup {s}
        /\ keys' = keys
  BY TransitionExtends
<1>2. \A r \in states : r.version \in Nat /\ r.effectiveAt \in Int
                         /\ Rank[r.status] \in Int
  BY MaxTimeAssumption DEF LifecycleTypeOK, StateType, Rank, Statuses, Times
<1>3. s.version \in Nat /\ s.effectiveAt \in Int /\ Rank[s.status] \in Int
  BY MaxTimeAssumption DEF StateType, Rank, Statuses, Times
<1>4. LifecycleTypeOK' /\ StatesBound' /\ KeysOrdered' /\ KeysContiguous'
  BY <1>1 DEF LifecycleTypeOK, StatesBound, KeysOrdered, KeysContiguous, History
<1>5. \A r \in states : r.key = k => /\ r.version < s.version
                                     /\ r.effectiveAt =< s.effectiveAt
                                     /\ Rank[r.status] < Rank[s.status]
  <2> SUFFICES ASSUME NEW r \in states, r.key = k
               PROVE  /\ r.version < s.version
                      /\ r.effectiveAt =< s.effectiveAt
                      /\ Rank[r.status] < Rank[s.status]
    OBVIOUS
  <2>1. r.version =< last.version
    BY <1>1
  <2>2. CASE r.version = last.version
    BY <1>1, <1>2, <1>3, <2>2 DEF StatesOrdered
  <2>3. CASE r.version < last.version
    BY <1>1, <1>2, <1>3, <2>3 DEF StatesOrdered, StatesRanked
  <2> QED BY <1>2, <2>1, <2>2, <2>3
<1>6. StatesOrdered' /\ StatesRanked'
  BY <1>1, <1>2, <1>3, <1>5 DEF StatesOrdered, StatesRanked
<1>7. StatesContiguous'
  <2> SUFFICES ASSUME NEW r \in states', NEW n \in 1 .. r.version
               PROVE  \E q \in states' : q.key = r.key /\ q.version = n
    BY DEF StatesContiguous, Lifecycle
  <2>1. CASE r \in states
    BY <1>1, <2>1 DEF StatesContiguous, Lifecycle
  <2>2. CASE r = s /\ n = s.version
    BY <1>1, <2>2
  <2>3. CASE r = s /\ n # s.version
    <3>1. n \in 1 .. last.version
      BY <1>1, <1>2, <1>3, <2>3
    <3> QED BY <1>1, <2>3, <3>1 DEF StatesContiguous, Lifecycle
  <2> QED BY <1>1, <2>1, <2>2, <2>3
<1> QED BY <1>4, <1>6, <1>7

LEMMA LifecycleNext_Inv == LifecycleInv /\ [LifecycleNext]_lifecycleVars => LifecycleInv'
<1> SUFFICES ASSUME LifecycleInv, [LifecycleNext]_lifecycleVars PROVE LifecycleInv'
  OBVIOUS
<1>1. ASSUME NEW k \in KeyRefs, Register(k) PROVE LifecycleInv'
  BY <1>1, Register_Inv
<1>2. ASSUME NEW k \in keys, NEW status \in Statuses, NEW at \in Times,
             Transition(k, status, at)
      PROVE  LifecycleInv'
  BY <1>2, Transition_Inv
<1>3. CASE UNCHANGED lifecycleVars
  BY <1>3 DEF lifecycleVars, LifecycleInv, LifecycleTypeOK, HistoriesOrdered, KeysOrdered,
              KeysContiguous, StatesOrdered, StatesContiguous, StatesBound, StatesRanked,
              History, Lifecycle
<1> QED BY <1>1, <1>2, <1>3 DEF LifecycleNext

LEMMA LifecycleInvariant == LifecycleSpec => []LifecycleInv
<1>1. LifecycleInit => LifecycleInv
  BY LifecycleInit_Inv
<1>2. LifecycleInv /\ [LifecycleNext]_lifecycleVars => LifecycleInv'
  BY LifecycleNext_Inv
<1> QED BY <1>1, <1>2, PTL DEF LifecycleSpec

\* The registries only ever hold references that were presented, and states of
\* the declared shape (register, transition).
THEOREM LifecycleTypeCorrect == LifecycleSpec => []LifecycleTypeOK
<1>1. LifecycleInv => LifecycleTypeOK
  BY DEF LifecycleInv
<1> QED BY <1>1, LifecycleInvariant, PTL

\* The versions of a scope and the states of a key are numbered 1, 2, 3, ... each
\* once, in the order of their times (register, transition).
THEOREM HistoriesAreOrdered == LifecycleSpec => []HistoriesOrdered
<1>1. LifecycleInv => HistoriesOrdered
  BY DEF LifecycleInv
<1> QED BY <1>1, LifecycleInvariant, PTL

\* No step takes a key or a state away.
LEMMA RegistryGrows ==
  ASSUME LifecycleInv, [LifecycleNext]_lifecycleVars
  PROVE  keys \subseteq keys' /\ states \subseteq states'
<1>1. ASSUME NEW k \in KeyRefs, Register(k)
      PROVE  keys \subseteq keys' /\ states \subseteq states'
  BY <1>1 DEF Register
<1>2. ASSUME NEW k \in keys, NEW status \in Statuses, NEW at \in Times,
             Transition(k, status, at)
      PROVE  keys \subseteq keys' /\ states \subseteq states'
  BY <1>2 DEF Transition
<1> QED BY <1>1, <1>2 DEF LifecycleNext, lifecycleVars

\* A key never regains a status it lost, at any represented time, for any number
\* of keys and any bound on time: the last state in force at t is still in force
\* at u >= t after the step, so the last one in force then is that state or a
\* later, weaker one (transition, status_at).
THEOREM StatusIsMonotone == LifecycleSpec => StatusNeverRecovers
<1>1. ASSUME LifecycleInv, LifecycleInv', [LifecycleNext]_lifecycleVars
      PROVE  StatusesOnlyWeaken
  <2> SUFFICES ASSUME NEW k \in keys, NEW t \in Times, NEW a \in Statuses,
                      StatusAt(k, t, a),
                      NEW u \in t .. MaxTime, NEW b \in Statuses, StatusAt(k, u, b)'
               PROVE  Rank[a] =< Rank[b]
    BY DEF StatusesOnlyWeaken
  <2>1. PICK s \in states : s.key = k /\ s.effectiveAt =< t /\ s.status = a
    BY DEF StatusAt, Effective, Lifecycle
  <2>2. PICK r \in states' :
          /\ r.key = k /\ r.effectiveAt =< u /\ r.status = b
          /\ \A q \in states' : q.key = k /\ q.effectiveAt =< u => q.version =< r.version
    BY DEF StatusAt, Effective, Lifecycle, IsLast
  <2>3. s \in states'
    BY <1>1, RegistryGrows
  <2>4. s \in StateType /\ r \in StateType
    BY <1>1, <2>2, <2>3 DEF LifecycleInv, LifecycleTypeOK, StateType
  <2>5. s.version =< r.version
    BY <2>1, <2>2, <2>3, <2>4, MaxTimeAssumption DEF StateType, Times
  <2>6. CASE s.version = r.version
    <3>1. s = r
      BY <1>1, <2>1, <2>2, <2>3, <2>6 DEF LifecycleInv, HistoriesOrdered, StatesOrdered
    <3> QED BY <2>1, <2>2, <3>1 DEF Rank, Statuses
  <2>7. CASE s.version < r.version
    <3>1. Rank[s.status] < Rank[r.status]
      BY <1>1, <2>1, <2>2, <2>3, <2>7 DEF LifecycleInv, StatesRanked
    <3>2. s.status = a /\ r.status = b /\ a \in Statuses /\ b \in Statuses
      BY <2>1, <2>2
    <3> QED BY <3>1, <3>2 DEF Rank, Statuses
  <2> QED BY <2>4, <2>5, <2>6, <2>7 DEF StateType
<1> QED BY <1>1, LifecycleInvariant, PTL DEF LifecycleSpec, StatusNeverRecovers

\* Rotation never rolls back, for any number of versions with any validity
\* windows: the newer reference stays introduced, and the current key is the
\* newest introduced one (register, current_key).
THEOREM RotationIsOneWay == LifecycleSpec => CurrentKeyNeverRollsBack
<1>1. ASSUME LifecycleInv, LifecycleInv', [LifecycleNext]_lifecycleVars
      PROVE  NoOlderKeyBecomesCurrent
  <2> SUFFICES ASSUME NEW k \in keys, NEW t \in Times, IsCurrent(k, t),
                      NEW u \in t .. MaxTime, NEW e \in keys', SameScope(k, e),
                      IsCurrent(e, u)'
               PROVE  k.version =< e.version
    BY DEF NoOlderKeyBecomesCurrent
  <2>1. k \in KeyRefs /\ k \in keys' /\ k.notBefore =< t
    BY <1>1, RegistryGrows
    DEF LifecycleInv, LifecycleTypeOK, IsCurrent, IsLast, Introduced
  <2>2. k.notBefore =< u
    BY <2>1, RefFields, MaxTimeAssumption DEF Times
  <2>3. k \in Introduced(e, u)'
    BY <2>1, <2>2 DEF Introduced, History
  <2> QED BY <2>3 DEF IsCurrent, IsLast
<1> QED BY <1>1, LifecycleInvariant, PTL DEF LifecycleSpec, CurrentKeyNeverRollsBack

--------------------------------------------------------------------------------
(***************************************************************************)
(* The configuration chain.  The inductive invariant adds to the           *)
(* invariants the runs check what signing established about a change, and  *)
(* what its digest link says about the keys: that is why the order of the  *)
(* chain is an order of key versions although no step compares two.        *)
(***************************************************************************)

\* What signing established and no later step can undo.
SignedProperly ==
  \A c \in signed :
    /\ c.key.tenant = c.request.tenant
    /\ c.key.purpose = "config_signing"
    /\ c.key.notBefore =< c.signedAt
    /\ c.request.sequence = 1 <=> c.previous = None

\* A change not signed before the change it extends has no older key than it.
LinkKeepsKeyOrder ==
  \A c, d \in signed :
    /\ c.previous = d /\ c.previous # None
    /\ c.request.tenant = d.request.tenant
    /\ d.signedAt =< c.signedAt
    => d.key.version =< c.key.version

ChainInv ==
  /\ LifecycleInv /\ TypeOK
  /\ SignedProperly /\ LinkKeepsKeyOrder
  /\ OneChainPerTenant /\ SigningKeyNeverRollsBack /\ LatestIsReplay

\* The types of the fields of a signed change.
LEMMA SignedFields ==
  ASSUME TypeOK, NEW c \in signed
  PROVE  /\ c.request \in Requests
         /\ c.request.sequence \in Nat /\ c.request.sequence >= 1
         /\ c.request.proposedConf # None
         /\ c.signedAt \in Int
         /\ c.key \in keys /\ c.key \in KeyRefs
         /\ c.key.version \in Nat /\ c.key.notBefore \in Int
<1>1. c.request \in Requests /\ c.key \in keys /\ c.signedAt \in Times
  BY DEF TypeOK
<1>2. c.key \in KeyRefs
  BY <1>1 DEF TypeOK, LifecycleTypeOK
<1>3. WellFormedRequest(c.request)
  BY <1>1, RequestsAssumption
<1> QED BY <1>1, <1>2, <1>3, RefFields, MaxTimeAssumption DEF WellFormedRequest, Times

\* What a step that leaves the chain alone preserves.
ChainUnchanged == changes' = changes /\ latest' = latest

LEMMA ChainKept ==
  ASSUME OneChainPerTenant, SigningKeyNeverRollsBack, LatestIsReplay, ChainUnchanged
  PROVE  OneChainPerTenant' /\ SigningKeyNeverRollsBack' /\ LatestIsReplay'
<1>1. OneChainPerTenant'
  BY DEF OneChainPerTenant, ChainUnchanged
<1>2. SigningKeyNeverRollsBack'
  BY DEF SigningKeyNeverRollsBack, ChainUnchanged
<1>3. LatestIsReplay'
  BY DEF LatestIsReplay, ChainUnchanged, IsHead
<1> QED BY <1>1, <1>2, <1>3

\* The state before a key step and after it differ only in the key registry,
\* which grows.
LEMMA KeyStep_Inv ==
  ASSUME ChainInv, [LifecycleNext]_lifecycleVars, UNCHANGED chainVars
  PROVE  ChainInv'
<1> USE DEF ChainInv
<1>1. LifecycleInv'
  BY LifecycleNext_Inv
<1>2. keys \subseteq keys'
  BY RegistryGrows
<1>3. signed' = signed /\ changes' = changes /\ latest' = latest
  BY DEF chainVars
<1>4. TypeOK'
  BY <1>1, <1>2, <1>3 DEF TypeOK, LifecycleInv
<1>5. SignedProperly' /\ LinkKeepsKeyOrder'
  BY <1>3 DEF SignedProperly, LinkKeepsKeyOrder
<1>6. ChainUnchanged
  BY <1>3 DEF ChainUnchanged
<1> QED BY <1>1, <1>4, <1>5, <1>6, ChainKept

LEMMA Sign_Inv ==
  ASSUME ChainInv, NEW r \in Requests, NEW previous \in signed \cup {None},
         NEW k \in keys, NEW at \in Times, Sign(r, previous, k, at)
  PROVE  ChainInv'
<1> DEFINE c == [request |-> r, previous |-> previous, key |-> k, signedAt |-> at]
<1> USE DEF ChainInv
<1>1. /\ signed' = signed \cup {c}
      /\ keys' = keys /\ states' = states /\ changes' = changes /\ latest' = latest
  BY DEF Sign, lifecycleVars
<1>2. LifecycleInv'
  BY <1>1 DEF LifecycleInv, LifecycleTypeOK, HistoriesOrdered, KeysOrdered,
              KeysContiguous, StatesOrdered, StatesContiguous, StatesBound, StatesRanked,
              History, Lifecycle
<1>3. /\ k.tenant = r.tenant /\ k.purpose = "config_signing" /\ k.notBefore =< at
      /\ r.sequence = 1 <=> previous = None
  BY DEF Sign, IsCurrent, IsLast, Introduced
<1>4. TypeOK'
  BY <1>1, <1>2 DEF TypeOK, LifecycleInv
<1>5. SignedProperly'
  BY <1>1, <1>3 DEF SignedProperly
<1>6. ASSUME NEW d \in signed, previous = d, r.tenant = d.request.tenant, d.signedAt =< at
      PROVE  d.key.version =< k.version
  <2>1. d.key \in keys /\ d.key.notBefore \in Int /\ d.signedAt \in Int
    BY SignedFields
  <2>2. d.key.notBefore =< at /\ SameScope(d.key, k)
    BY <1>3, <1>6, <2>1, MaxTimeAssumption DEF SignedProperly, SameScope, Times
  <2>3. d.key \in Introduced(k, at)
    BY <2>1, <2>2 DEF Introduced, History
  <2> QED BY <2>3 DEF Sign, IsCurrent, IsLast
<1>7. LinkKeepsKeyOrder'
  <2> SUFFICES ASSUME NEW a \in signed', NEW b \in signed',
                      a.previous = b, a.previous # None, a.request.tenant = b.request.tenant,
                      b.signedAt =< a.signedAt
               PROVE  b.key.version =< a.key.version
    BY DEF LinkKeepsKeyOrder
  <2>1. CASE a \in signed /\ b \in signed
    BY <2>1 DEF LinkKeepsKeyOrder
  <2>2. CASE a = c /\ b \in signed
    BY <1>6, <2>2
  <2>3. CASE b = c /\ b \notin signed /\ a \in signed
    <3>1. a.previous \in signed \cup {None}
      BY <2>3 DEF TypeOK
    <3> QED BY <2>3, <3>1
  <2>4. CASE a = c /\ b = c
    BY <2>4, RefFields DEF LifecycleInv, LifecycleTypeOK
  <2> QED BY <1>1, <2>1, <2>2, <2>3, <2>4
<1>8. ChainUnchanged
  BY <1>1 DEF ChainUnchanged
<1> QED BY <1>2, <1>4, <1>5, <1>7, <1>8, ChainKept

\* A change that may be appended stands behind every change of its chain, and
\* its predecessor is the one it carries the digest of.
LEMMA AppendedAtHead ==
  ASSUME ChainInv, NEW c \in signed, NEW now \in Times, AppendChange(c, now)
  PROVE  \A d \in changes : d.request.tenant = c.request.tenant =>
           /\ d.request.sequence < c.request.sequence
           /\ d.signedAt =< c.signedAt
           /\ d.key.version =< c.key.version
           /\ c.request.sequence = d.request.sequence + 1 => c.previous = d
           /\ \E e \in changes \cup {c} : /\ e.request.tenant = d.request.tenant
                                         /\ e.request.sequence = d.request.sequence + 1
<1> USE DEF ChainInv
<1> SUFFICES ASSUME NEW d \in changes, d.request.tenant = c.request.tenant
             PROVE  /\ d.request.sequence < c.request.sequence
                    /\ d.signedAt =< c.signedAt
                    /\ d.key.version =< c.key.version
                    /\ c.request.sequence = d.request.sequence + 1 => c.previous = d
                    /\ \E e \in changes \cup {c} :
                          /\ e.request.tenant = d.request.tenant
                          /\ e.request.sequence = d.request.sequence + 1
  OBVIOUS
<1>1. PICK head \in ChainOf(c.request) :
        /\ IsHead(head, ChainOf(c.request))
        /\ c.request.sequence = head.request.sequence + 1
        /\ c.previous = head
        /\ head.signedAt =< c.signedAt
  <2>1. d \in ChainOf(c.request)
    BY DEF ChainOf
  <2> QED BY <2>1 DEF AppendChange, Extends
<1>2. /\ head \in changes /\ head \in signed /\ d \in signed
      /\ head.request.tenant = c.request.tenant
      /\ d.request.sequence =< head.request.sequence
  BY <1>1 DEF ChainOf, IsHead, TypeOK
<1>3. /\ d.request.sequence \in Nat /\ head.request.sequence \in Nat
      /\ d.signedAt \in Int /\ head.signedAt \in Int /\ c.signedAt \in Int
      /\ d.key.version \in Nat /\ head.key.version \in Nat /\ c.key.version \in Nat
      /\ head.request.sequence >= 1
  BY <1>2, SignedFields
<1>4. head.key.version =< c.key.version
  <2>1. c.previous # None
    BY <1>1, <1>3 DEF SignedProperly
  <2> QED BY <1>1, <1>2, <2>1 DEF LinkKeepsKeyOrder
<1>5. CASE d.request.sequence = head.request.sequence
  <2>1. d = head
    BY <1>2, <1>5 DEF OneChainPerTenant
  <2> QED BY <1>1, <1>2, <1>3, <1>4, <2>1
<1>6. CASE d.request.sequence < head.request.sequence
  <2>1. d.signedAt =< head.signedAt /\ d.key.version =< head.key.version
    BY <1>2, <1>6 DEF OneChainPerTenant, SigningKeyNeverRollsBack
  <2>2. \E e \in changes : /\ e.request.tenant = d.request.tenant
                          /\ e.request.sequence = d.request.sequence + 1
    BY <1>2, <1>6 DEF OneChainPerTenant
  <2> QED BY <1>1, <1>3, <1>4, <1>6, <2>1, <2>2
<1> QED BY <1>2, <1>3, <1>5, <1>6

\* The head of the history of an object under a change that goes behind it.
LEMMA Append_Latest ==
  ASSUME ChainInv, NEW c \in signed, NEW now \in Times, AppendChange(c, now)
  PROVE  LatestIsReplay'
<1> USE DEF ChainInv
<1>1. /\ changes' = changes \cup {c}
      /\ latest' = [latest EXCEPT ![ObjectOf(c.request)] = c.request.proposedConf]
      /\ latest[ObjectOf(c.request)] # None
           => c.request.previousConf = latest[ObjectOf(c.request)]
  BY DEF AppendChange, FromCurrentConfiguration
<1>2. \A d \in changes : /\ d \in signed /\ d.request.sequence \in Nat
                         /\ d.request.proposedConf # None
  BY SignedFields DEF TypeOK
<1>3. c.request.sequence \in Nat /\ c.request.proposedConf # None
      /\ ObjectOf(c.request) \in ObjectKeys
  BY SignedFields DEF ObjectKeys
<1>4. \A d \in changes : ObjectOf(d.request) = ObjectOf(c.request)
                         => d.request.sequence < c.request.sequence
  BY AppendedAtHead DEF ObjectOf
<1> SUFFICES ASSUME NEW o \in ObjectKeys
             PROVE  LET history == {d \in changes' : ObjectOf(d.request) = o} IN
                    /\ history = {} => latest'[o] = None
                    /\ \A d \in history :
                         /\ IsHead(d, history) => latest'[o] = d.request.proposedConf
                         /\ \A e \in history :
                              IsHead(e, {f \in history : f.request.sequence < d.request.sequence})
                                => d.request.previousConf = e.request.proposedConf
  BY DEF LatestIsReplay, IsHead
<1> DEFINE old == {d \in changes : ObjectOf(d.request) = o}
           history == {d \in changes' : ObjectOf(d.request) = o}
           Before(d, H) == {f \in H : f.request.sequence < d.request.sequence}
<1>5. /\ old = {} => latest[o] = None
      /\ \A d \in old :
           /\ IsHead(d, old) => latest[o] = d.request.proposedConf
           /\ \A e \in old : IsHead(e, Before(d, old))
                             => d.request.previousConf = e.request.proposedConf
  BY DEF LatestIsReplay
<1>6. latest \in [ObjectKeys -> {None} \cup {r.proposedConf : r \in Requests}]
  BY DEF TypeOK
<1>7. CASE o # ObjectOf(c.request)
  <2>1. history = old /\ latest'[o] = latest[o]
    BY <1>1, <1>6, <1>7
  <2> QED BY <1>5, <2>1
<1>8. CASE o = ObjectOf(c.request)
  <2>1. history = old \cup {c} /\ latest'[o] = c.request.proposedConf
    BY <1>1, <1>6, <1>8
  <2>2. \A d \in old : d.request.sequence < c.request.sequence
                       /\ d.request.sequence \in Nat
    BY <1>2, <1>4, <1>8
  <2>3. Before(c, history) = old
    BY <1>3, <2>1, <2>2
  <2>4. \A d \in old : Before(d, history) = Before(d, old)
    BY <1>3, <2>1, <2>2
  <2>5. \A d \in history : IsHead(d, history) => d = c
    BY <1>3, <2>1, <2>2 DEF IsHead
  <2>6. ASSUME NEW d \in history, NEW e \in history, IsHead(e, Before(d, history))
        PROVE  d.request.previousConf = e.request.proposedConf
    <3>1. CASE d \in old
      <4>1. IsHead(e, Before(d, old))
        BY <2>4, <2>6, <3>1
      <4>2. e \in old
        BY <4>1 DEF IsHead
      <4> QED BY <1>5, <3>1, <4>1, <4>2
    <3>2. CASE d = c
      <4>1. IsHead(e, old)
        BY <2>3, <2>6, <3>2
      <4>2. e \in old /\ latest[o] = e.request.proposedConf
        BY <1>5, <4>1 DEF IsHead
      <4>3. latest[o] # None
        BY <1>2, <4>2
      <4> QED BY <1>1, <1>8, <3>2, <4>2, <4>3
    <3> QED BY <2>1, <3>1, <3>2
  <2> QED BY <2>1, <2>5, <2>6
<1> QED BY <1>7, <1>8

LEMMA Append_Inv ==
  ASSUME ChainInv, NEW c \in signed, NEW now \in Times, AppendChange(c, now)
  PROVE  ChainInv'
<1> USE DEF ChainInv
<1>1. /\ changes' = changes \cup {c}
      /\ latest' = [latest EXCEPT ![ObjectOf(c.request)] = c.request.proposedConf]
      /\ signed' = signed /\ keys' = keys /\ states' = states
  BY DEF AppendChange, lifecycleVars
<1>2. LifecycleInv'
  BY <1>1 DEF LifecycleInv, LifecycleTypeOK, HistoriesOrdered, KeysOrdered,
              KeysContiguous, StatesOrdered, StatesContiguous, StatesBound, StatesRanked,
              History, Lifecycle
<1>3. TypeOK'
  <2>1. c.request \in Requests
    BY SignedFields
  <2> QED BY <1>1, <1>2, <2>1 DEF TypeOK, LifecycleInv
<1>4. SignedProperly' /\ LinkKeepsKeyOrder'
  BY <1>1 DEF SignedProperly, LinkKeepsKeyOrder
<1>5. \A d \in changes : d.request.sequence \in Nat
  BY SignedFields DEF TypeOK
<1>6. c.request.sequence \in Nat /\ c.key.version \in Nat /\ c.signedAt \in Int
  BY SignedFields
<1>7. OneChainPerTenant'
  <2> SUFFICES ASSUME NEW a \in changes', NEW b \in changes',
                      a.request.tenant = b.request.tenant
               PROVE  /\ a.request.sequence = b.request.sequence => a = b
                      /\ b.request.sequence = a.request.sequence + 1 => b.previous = a
                      /\ a.request.sequence < b.request.sequence =>
                           /\ a.signedAt =< b.signedAt
                           /\ \E e \in changes' :
                                /\ e.request.tenant = a.request.tenant
                                /\ e.request.sequence = a.request.sequence + 1
    BY DEF OneChainPerTenant
  <2>1. CASE a \in changes /\ b \in changes
    BY <1>1, <2>1 DEF OneChainPerTenant
  <2>2. CASE a \in changes /\ b = c
    BY <1>1, <1>5, <1>6, <2>2, AppendedAtHead
  <2>3. CASE a = c /\ b \in changes
    BY <1>1, <1>5, <1>6, <2>3, AppendedAtHead
  <2>4. CASE a = c /\ b = c
    BY <1>6, <2>4
  <2> QED BY <1>1, <2>1, <2>2, <2>3, <2>4
<1>8. SigningKeyNeverRollsBack'
  <2> SUFFICES ASSUME NEW a \in changes', NEW b \in changes',
                      a.request.tenant = b.request.tenant,
                      a.request.sequence < b.request.sequence
               PROVE  a.key.version =< b.key.version
    BY DEF SigningKeyNeverRollsBack
  <2>1. CASE a \in changes /\ b \in changes
    BY <2>1 DEF SigningKeyNeverRollsBack
  <2>2. CASE a \in changes /\ b = c
    BY <2>2, AppendedAtHead
  <2>3. CASE a = c
    BY <1>1, <1>5, <1>6, <2>3, AppendedAtHead
  <2> QED BY <1>1, <2>1, <2>2, <2>3
<1>9. LatestIsReplay'
  BY Append_Latest
<1> QED BY <1>2, <1>3, <1>4, <1>7, <1>8, <1>9

LEMMA ChainInit_Inv == Init => ChainInv
<1> SUFFICES ASSUME Init PROVE ChainInv
  OBVIOUS
<1>1. LifecycleInv
  BY LifecycleInit_Inv DEF Init
<1>2. TypeOK
  BY <1>1 DEF Init, TypeOK, LifecycleInv
<1>3. LatestIsReplay
  BY DEF Init, LatestIsReplay
<1> QED BY <1>1, <1>2, <1>3 DEF ChainInv, Init, SignedProperly, LinkKeepsKeyOrder,
         OneChainPerTenant, SigningKeyNeverRollsBack

LEMMA ChainNext_Inv == ChainInv /\ [Next]_vars => ChainInv'
<1> SUFFICES ASSUME ChainInv, [Next]_vars PROVE ChainInv'
  OBVIOUS
<1>1. CASE LifecycleNext /\ UNCHANGED chainVars
  BY <1>1, KeyStep_Inv
<1>2. ASSUME NEW r \in Requests, NEW previous \in signed \cup {None}, NEW k \in keys,
             NEW at \in Times, Sign(r, previous, k, at)
      PROVE  ChainInv'
  BY <1>2, Sign_Inv
<1>3. ASSUME NEW c \in signed, NEW now \in Times, AppendChange(c, now) PROVE ChainInv'
  BY <1>3, Append_Inv
<1>4. CASE UNCHANGED vars
  BY <1>4, KeyStep_Inv DEF vars
<1> QED BY <1>1, <1>2, <1>3, <1>4 DEF Next

LEMMA ChainInvariant == Spec => []ChainInv
<1>1. Init => ChainInv
  BY ChainInit_Inv
<1>2. ChainInv /\ [Next]_vars => ChainInv'
  BY ChainNext_Inv
<1> QED BY <1>1, <1>2, PTL DEF Spec

\* Whatever is signed and appended, the registry holds changes that were signed,
\* with registered keys, and every digest in them resolves.
THEOREM ChainTypeCorrect == Spec => []TypeOK
<1>1. ChainInv => TypeOK
  BY DEF ChainInv
<1> QED BY <1>1, ChainInvariant, PTL

\* The changes of a tenant form one list without gap or fork (append).
THEOREM ChainIsOneList == Spec => []OneChainPerTenant
<1>1. ChainInv => OneChainPerTenant
  BY DEF ChainInv
<1> QED BY <1>1, ChainInvariant, PTL

\* Along the chain of a tenant the signing keys are never rolled back, for any
\* number of changes, keys and rotations (sign_configuration_change, append).
THEOREM ChainNeverRollsBackKeys == Spec => []SigningKeyNeverRollsBack
<1>1. ChainInv => SigningKeyNeverRollsBack
  BY DEF ChainInv
<1> QED BY <1>1, ChainInvariant, PTL

\* The cached configuration of an object agrees with the chain (append).
THEOREM CacheAgreesWithChain == Spec => []LatestIsReplay
<1>1. ChainInv => LatestIsReplay
  BY DEF ChainInv
<1> QED BY <1>1, ChainInvariant, PTL

\* A key stops activating configuration when it is disabled, and what it signs
\* when it is retired, at whatever time either is recorded (append).
THEOREM DisablementIsFinal == Spec => DisabledKeyActivatesNothing
<1>1. ASSUME ChainInv, ChainInv', [Next]_vars PROVE OnlyUsableKeysActivate
  <2> USE <1>1 DEF ChainInv
  <2> SUFFICES ASSUME NEW c \in changes' \ changes, NEW s \in Lifecycle(c.key)
               PROVE  /\ s.status = "disabled" => c.request.effectiveAt < s.effectiveAt
                      /\ s.status = "retired" => c.signedAt < s.effectiveAt
    BY DEF OnlyUsableKeysActivate
  <2>1. PICK now \in Times : c \in signed /\ AppendChange(c, now)
    BY DEF Next, vars, chainVars, Sign, AppendChange
  <2>2. /\ StatusAt(c.key, c.signedAt, "active")
        /\ ~ StatusAt(c.key, now, "disabled")
        /\ c.request.effectiveAt =< now
    BY <2>1 DEF AppendChange, Verifies, MayActivate
  <2>3. /\ s \in states /\ s.key = c.key
        /\ s.version \in Nat /\ s.effectiveAt \in Int
        /\ c.signedAt \in Int /\ c.request.effectiveAt \in Int /\ now \in Int
    BY <2>1, SignedFields, RequestsAssumption, MaxTimeAssumption
    DEF Lifecycle, LifecycleInv, LifecycleTypeOK, StateType, WellFormedRequest, Times
  <2>4. \A r \in states : r.key = c.key =>
          /\ r.version \in Nat /\ r.status \in Statuses
          /\ r.version = s.version => r = s
          /\ r.version < s.version => Rank[r.status] < Rank[s.status]
          /\ s.version < r.version => Rank[s.status] < Rank[r.status]
    BY <2>3 DEF LifecycleInv, LifecycleTypeOK, StateType, HistoriesOrdered, StatesOrdered,
                StatesRanked
  <2>5. ASSUME s.status = "disabled", s.effectiveAt =< c.request.effectiveAt PROVE FALSE
    <3>1. \A r \in Lifecycle(c.key) : r.version =< s.version
      BY <2>3, <2>4, <2>5 DEF Lifecycle, Rank, Statuses
    <3>2. s \in Effective(c.key, now)
      BY <2>2, <2>3, <2>5 DEF Effective
    <3>3. StatusAt(c.key, now, "disabled")
      BY <2>5, <3>1, <3>2 DEF StatusAt, IsLast, Effective
    <3> QED BY <2>2, <3>3
  <2>6. ASSUME s.status = "retired", s.effectiveAt =< c.signedAt PROVE FALSE
    <3>1. PICK r \in Effective(c.key, c.signedAt) :
            IsLast(r, Effective(c.key, c.signedAt)) /\ r.status = "active"
      BY <2>2 DEF StatusAt
    <3>2. s \in Effective(c.key, c.signedAt)
      BY <2>6 DEF Effective
    <3>3. r \in states /\ r.key = c.key /\ s.version =< r.version
      BY <3>1, <3>2 DEF Effective, Lifecycle, IsLast
    <3> QED BY <2>3, <2>4, <2>6, <3>1, <3>3 DEF Rank
  <2> QED BY <2>3, <2>5, <2>6
<1> QED BY <1>1, ChainInvariant, PTL DEF Spec, DisabledKeyActivatesNothing

--------------------------------------------------------------------------------
(***************************************************************************)
(* The configuration registry implements ConfigLog: reading the set of     *)
(* appended changes by sequence number gives one list per tenant, and a    *)
(* step of the registry appends to one list or leaves all of them alone.   *)
(***************************************************************************)

\* A set of changes that can be read as a list.
Sound(C) ==
  /\ \A c \in C : c.request.sequence \in Nat \ {0}
  /\ \A c, d \in C : c.request.sequence = d.request.sequence => c = d
  /\ \A c \in C : \A n \in 1 .. c.request.sequence : \E d \in C : d.request.sequence = n
  /\ C # {} => \E h \in C : IsHead(h, C)

\* The change c goes behind the head of C.
Behind(c, C) ==
  IF C = {} THEN c.request.sequence = 1
            ELSE \E h \in C : IsHead(h, C) /\ c.request.sequence = h.request.sequence + 1

LEMMA LengthOfHead ==
  ASSUME NEW C, Sound(C), NEW h \in C, IsHead(h, C)
  PROVE  Length(C) = h.request.sequence
<1>1. PICK g \in C : g = (CHOOSE c \in C : IsHead(c, C)) /\ IsHead(g, C)
  OBVIOUS
<1>2. h.request.sequence \in Nat /\ g.request.sequence \in Nat
  BY DEF Sound
<1>3. h.request.sequence = g.request.sequence
  BY <1>1, <1>2 DEF IsHead
<1> QED BY <1>1, <1>3 DEF Length

LEMMA LengthType ==
  ASSUME NEW C, Sound(C)
  PROVE  Length(C) \in Nat
<1>1. CASE C = {}
  BY <1>1 DEF Length
<1>2. CASE C # {}
  <2>1. PICK h \in C : IsHead(h, C)
    BY <1>2 DEF Sound
  <2> QED BY <2>1, LengthOfHead DEF Sound
<1> QED BY <1>1, <1>2

\* Every place of the list is taken, by one change.
LEMMA Places ==
  ASSUME NEW C, Sound(C)
  PROVE  /\ \A n \in 1 .. Length(C) : At(C, n) \in C /\ At(C, n).request.sequence = n
         /\ \A c \in C : c.request.sequence \in 1 .. Length(C) /\ At(C, c.request.sequence) = c
<1>1. ASSUME NEW n \in 1 .. Length(C)
      PROVE  At(C, n) \in C /\ At(C, n).request.sequence = n
  <2>1. C # {}
    BY DEF Length
  <2>2. PICK h \in C : IsHead(h, C)
    BY <2>1 DEF Sound
  <2>3. \E d \in C : d.request.sequence = n
    BY <2>2, LengthOfHead DEF Sound
  <2> QED BY <2>3 DEF At
<1>2. ASSUME NEW c \in C
      PROVE  c.request.sequence \in 1 .. Length(C) /\ At(C, c.request.sequence) = c
  <2>1. PICK h \in C : IsHead(h, C)
    BY DEF Sound
  <2>2. c.request.sequence \in 1 .. Length(C)
    BY <2>1, LengthOfHead DEF Sound, IsHead
  <2>3. At(C, c.request.sequence) \in C /\ At(C, c.request.sequence).request.sequence = c.request.sequence
    BY DEF At
  <2> QED BY <2>2, <2>3 DEF Sound
<1> QED BY <1>1, <1>2

LEMMA BehindIsNext ==
  ASSUME NEW C, Sound(C), NEW c, Behind(c, C)
  PROVE  c.request.sequence = Length(C) + 1
<1>1. CASE C = {}
  BY <1>1 DEF Behind, Length
<1>2. CASE C # {}
  BY <1>2, LengthOfHead DEF Behind
<1> QED BY <1>1, <1>2

LEMMA BehindIsSound ==
  ASSUME NEW C, Sound(C), NEW c, Behind(c, C)
  PROVE  Sound(C \cup {c}) /\ IsHead(c, C \cup {c})
<1>1. c.request.sequence = Length(C) + 1 /\ Length(C) \in Nat
  BY BehindIsNext, LengthType
<1>2. \A d \in C : d.request.sequence \in 1 .. Length(C)
  BY Places
<1>3. IsHead(c, C \cup {c})
  BY <1>1, <1>2 DEF IsHead
<1>4. \A d \in C \cup {c} : d.request.sequence \in Nat \ {0}
  BY <1>1, <1>2
<1>5. \A d, e \in C \cup {c} : d.request.sequence = e.request.sequence => d = e
  BY <1>1, <1>2 DEF Sound
<1>6. ASSUME NEW d \in C \cup {c}, NEW n \in 1 .. d.request.sequence
      PROVE  \E e \in C \cup {c} : e.request.sequence = n
  <2>1. CASE d \in C
    BY <2>1 DEF Sound
  <2>2. CASE d = c /\ n = c.request.sequence
    BY <2>2
  <2>3. CASE d = c /\ n # c.request.sequence
    <3>1. n \in 1 .. Length(C)
      BY <1>1, <2>3
    <3> QED BY <3>1, Places
  <2> QED BY <2>1, <2>2, <2>3
<1> QED BY <1>3, <1>4, <1>5, <1>6 DEF Sound

Entries == {Entry(r) : r \in Requests}

LEMMA ListType ==
  ASSUME NEW C, Sound(C), \A c \in C : c.request \in Requests
  PROVE  ListOf(C) \in Seq(Entries) /\ Len(ListOf(C)) = Length(C)
<1>1. Length(C) \in Nat
  BY LengthType
<1>2. ListOf(C) \in [1 .. Length(C) -> Entries]
  BY Places DEF ListOf, Entries
<1>3. ListOf(C) \in Seq(Entries)
  BY <1>1, <1>2
<1> QED BY <1>1, <1>2, <1>3, LenProperties

\* Putting a change behind the head appends its entry to the list.
LEMMA ListGrows ==
  ASSUME NEW C, Sound(C), \A d \in C : d.request \in Requests,
         NEW c, c.request \in Requests, Behind(c, C)
  PROVE  ListOf(C \cup {c}) = Append(ListOf(C), Entry(c.request))
<1> DEFINE D == C \cup {c}
           s == ListOf(C)
           t == ListOf(D)
           e == Entry(c.request)
<1>1. Sound(D) /\ IsHead(c, D)
  BY BehindIsSound
<1>2. Length(C) \in Nat /\ Length(D) = Length(C) + 1 /\ c.request.sequence = Length(C) + 1
  BY <1>1, BehindIsNext, LengthOfHead, LengthType
<1>3. /\ s \in Seq(Entries) /\ Len(s) = Length(C)
      /\ t \in Seq(Entries) /\ Len(t) = Length(D)
      /\ e \in Entries
  BY <1>1, ListType DEF Entries
<1>4. /\ Append(s, e) \in Seq(Entries)
      /\ Len(Append(s, e)) = Length(C) + 1
      /\ \A n \in 1 .. Length(C) : Append(s, e)[n] = s[n]
      /\ Append(s, e)[Length(C) + 1] = e
  BY <1>3, AppendProperties
<1>5. ASSUME NEW n \in 1 .. Length(C) PROVE t[n] = s[n]
  <2>1. At(C, n) \in C /\ At(C, n).request.sequence = n
    BY Places
  <2>2. At(D, n) = At(C, n)
    BY <1>1, <2>1, Places
  <2>3. n \in 1 .. Length(D)
    BY <1>2
  <2> QED BY <2>2, <2>3 DEF ListOf
<1>6. t[Length(C) + 1] = e
  <2>1. At(D, Length(C) + 1) = c
    BY <1>1, <1>2, Places
  <2>2. Length(C) + 1 \in 1 .. Length(D)
    BY <1>2
  <2> QED BY <2>1, <2>2 DEF ListOf
<1>7. t = Append(s, e)
  <2> HIDE DEF s, t, e
  <2>1. Len(t) = Len(Append(s, e)) /\ Len(t) = Length(C) + 1
    BY <1>2, <1>3, <1>4
  <2>2. ASSUME NEW n \in 1 .. Len(t) PROVE t[n] = Append(s, e)[n]
    <3>1. CASE n = Length(C) + 1
      BY <1>4, <1>6, <3>1
    <3>2. CASE n \in 1 .. Length(C)
      BY <1>4, <1>5, <3>2
    <3>3. n \in 1 .. (Length(C) + 1)
      BY <2>1
    <3>4. n = Length(C) + 1 \/ n \in 1 .. Length(C)
      BY <1>2, <3>3
    <3> QED BY <3>1, <3>2, <3>4
  <2> QED BY <1>3, <1>4, <2>1, <2>2, SeqEqual
<1> QED BY <1>7

--------------------------------------------------------------------------------
\* The chain of every tenant can be read as a list.
ListInv == ChainInv /\ \A x \in ObjectKeys : Sound(TenantChain(x[1]))

\* What appending a change does to the chains.
LEMMA AppendToChain ==
  ASSUME ListInv, NEW c \in signed, NEW now \in Times, AppendChange(c, now)
  PROVE  /\ ObjectOf(c.request) \in ObjectKeys /\ ObjectOf(c.request)[1] = c.request.tenant
         /\ Behind(c, TenantChain(c.request.tenant))
         /\ TenantChain(c.request.tenant)' = TenantChain(c.request.tenant) \cup {c}
         /\ \A u : u # c.request.tenant => TenantChain(u)' = TenantChain(u)
<1>1. c.request \in Requests
  BY SignedFields DEF ListInv, ChainInv
<1>2. changes' = changes \cup {c}
  BY DEF AppendChange
<1>3. Behind(c, TenantChain(c.request.tenant))
  BY DEF AppendChange, Extends, Behind, ChainOf, TenantChain
<1> QED BY <1>1, <1>2, <1>3 DEF TenantChain, ObjectOf, ObjectKeys

LEMMA ListNext_Inv == ListInv /\ [Next]_vars => ListInv'
<1> SUFFICES ASSUME ListInv, [Next]_vars PROVE ListInv'
  OBVIOUS
<1>1. ChainInv'
  BY ChainNext_Inv DEF ListInv
<1>2. CASE changes' = changes
  BY <1>1, <1>2 DEF ListInv, TenantChain
<1>3. ASSUME NEW c \in signed, NEW now \in Times, AppendChange(c, now)
      PROVE  \A x \in ObjectKeys : Sound(TenantChain(x[1])')
  <2> SUFFICES ASSUME NEW x \in ObjectKeys PROVE Sound(TenantChain(x[1])')
    OBVIOUS
  <2>1. CASE x[1] = c.request.tenant
    BY <1>3, <2>1, AppendToChain, BehindIsSound DEF ListInv
  <2>2. CASE x[1] # c.request.tenant
    BY <1>3, <2>2, AppendToChain DEF ListInv
  <2> QED BY <2>1, <2>2
<1>4. ASSUME NEW c \in signed, NEW now \in Times, AppendChange(c, now) PROVE ListInv'
  BY <1>1, <1>3, <1>4 DEF ListInv, TenantChain
<1> QED BY <1>2, <1>4 DEF Next, vars, chainVars, Sign

LEMMA ListInvariant == Spec => []ListInv
<1>1. Init => ListInv
  <2> SUFFICES ASSUME Init PROVE ListInv
    OBVIOUS
  <2>1. \A u : TenantChain(u) = {}
    BY DEF Init, TenantChain
  <2> QED BY <2>1, ChainInit_Inv DEF ListInv, Sound
<1> QED BY <1>1, ListNext_Inv, PTL DEF Spec

\* A step of the registry appends one change to the list of one tenant, from the
\* configuration its object is in, or changes neither.
LEMMA StepOfLog == ListInv /\ [Next]_vars => [Log!Next]_(Log!logVars)
<1> SUFFICES ASSUME ListInv, [Next]_vars PROVE [Log!Next]_(Log!logVars)
  OBVIOUS
<1>1. CASE changes' = changes /\ latest' = latest
  BY <1>1 DEF Log!logVars, TenantChain
<1>2. ASSUME NEW c \in signed, NEW now \in Times, AppendChange(c, now)
      PROVE  Log!Next
  <2> DEFINE r == c.request
             x == ObjectOf(r)
             Ts == {o[1] : o \in ObjectKeys}
             L == [t \in Ts |-> ListOf(TenantChain(t))]
             M == [t \in Ts |-> ListOf(TenantChain(t)')]
  <2>1. /\ x \in ObjectKeys /\ x[1] = r.tenant
        /\ Behind(c, TenantChain(r.tenant))
        /\ TenantChain(r.tenant)' = TenantChain(r.tenant) \cup {c}
        /\ \A u : u # r.tenant => TenantChain(u)' = TenantChain(u)
    BY <1>2, AppendToChain
  <2>2. r \in Requests /\ WellFormedRequest(r)
    BY SignedFields, RequestsAssumption DEF ListInv, ChainInv
  <2>3. /\ latest' = [latest EXCEPT ![x] = r.proposedConf]
        /\ latest[x] # None => r.previousConf = latest[x]
    BY <1>2 DEF AppendChange, FromCurrentConfiguration
  <2>4. M = [L EXCEPT ![x[1]] = Append(@, Entry(r))]
    <3>1. \A d \in TenantChain(r.tenant) : d.request \in Requests
      BY SignedFields DEF ListInv, ChainInv, TypeOK, TenantChain
    <3>2. ListOf(TenantChain(r.tenant) \cup {c}) = Append(ListOf(TenantChain(r.tenant)), Entry(r))
      BY <2>1, <2>2, <3>1, ListGrows DEF ListInv
    <3>3. \A t \in Ts : M[t] = IF t = x[1] THEN Append(L[t], Entry(r)) ELSE L[t]
      BY <2>1, <3>2
    <3> QED BY <2>1, <3>3
  <2>5. Log!Change(x, r.previousConf, r.proposedConf)
    BY <2>2, <2>3, <2>4 DEF Log!Change, Log!Tenants, WellFormedRequest, Entry
  <2>6. \A d \in {r.previousConf, r.proposedConf} \ {None} :
          d \in (UNION {{q.previousConf, q.proposedConf} : q \in Requests}) \ {None}
    <3>1. {r.previousConf, r.proposedConf} \in {{q.previousConf, q.proposedConf} : q \in Requests}
      BY <2>2
    <3> HIDE DEF r
    <3> QED BY <3>1
  <2>7. r.proposedConf # None
    BY <2>2 DEF WellFormedRequest
  <2> QED BY <2>1, <2>5, <2>6, <2>7 DEF Log!Next
<1> QED BY <1>1, <1>2 DEF Next, vars, chainVars, Sign

\* The registry implements the abstract log of configurations
\* (ConfigurationChangeRegistry).
THEOREM ChainImplementsLog == Spec => ImplementsLog
<1>1. Init => Log!Init
  <2> SUFFICES ASSUME Init PROVE Log!Init
    OBVIOUS
  <2>1. \A u : ListOf(TenantChain(u)) = <<>>
    BY DEF Init, TenantChain, ListOf, Length
  <2> QED BY <2>1 DEF Init, Log!Init, Log!Tenants
<1> QED BY <1>1, ListInvariant, StepOfLog, PTL DEF Spec, ImplementsLog, Log!Spec

--------------------------------------------------------------------------------
(***************************************************************************)
(* The encrypted evidence.  Whatever the registries come to hold, what an  *)
(* envelope was made with stays registered, and its key had begun its      *)
(* lifecycle by the time of encryption: only a later state can then change *)
(* the status the key is read to have had.                                 *)
(***************************************************************************)

\* Profiles bind registered policies.
ProfilesBound == \A f \in profiles : f.policies \subseteq policies

\* What encryption established about an envelope and no later step can undo.
EnvelopesBound ==
  \A e \in envelopes :
    /\ EvidenceKey(e.key)
    /\ e.profile \in profiles /\ e.profile.policies \subseteq policies
    /\ e.encryptedAt \in Times
    /\ \E s \in states : s.key = e.key /\ s.effectiveAt =< e.encryptedAt

EvidenceInv == LifecycleInv /\ ProfilesBound /\ EnvelopesBound

\* No step of the isolation registry forgets a policy or a profile.
LEMMA IsolationGrows ==
  ASSUME [IsolationNext]_isolationVars
  PROVE  policies \subseteq policies' /\ profiles \subseteq profiles'
BY DEF IsolationNext, isolationVars, RegisterPolicy, RegisterProfile

\* A profile that is current after the registries grew was current before.
LEMMA CurrentProfileWasCurrent ==
  ASSUME policies \subseteq policies', profiles \subseteq profiles',
         NEW f \in profiles, f.policies \subseteq policies, ProfileCurrent(f)'
  PROVE  ProfileCurrent(f)
<1>1. IsLast(f, ProfileHistory(f.tenant))
  BY DEF ProfileCurrent, ProfileHistory, IsLast
<1>2. \A p \in f.policies : PolicyCurrent(p)
  BY DEF ProfileCurrent, PolicyCurrent, PolicyHistory, IsLast
<1> QED BY <1>1, <1>2 DEF ProfileCurrent

LEMMA Evidence_Key ==
  ASSUME EvidenceInv, [LifecycleNext]_lifecycleVars, UNCHANGED <<isolationVars, envelopes>>
  PROVE  EvidenceInv'
<1>1. LifecycleInv' /\ keys \subseteq keys' /\ states \subseteq states'
  BY LifecycleNext_Inv, RegistryGrows DEF EvidenceInv
<1>2. ProfilesBound' /\ EnvelopesBound'
  BY <1>1 DEF EvidenceInv, ProfilesBound, EnvelopesBound, EvidenceKey, isolationVars
<1> QED BY <1>1, <1>2 DEF EvidenceInv

LEMMA Evidence_Isolation ==
  ASSUME EvidenceInv, IsolationNext, UNCHANGED <<lifecycleVars, envelopes>>
  PROVE  EvidenceInv'
<1>1. LifecycleInv'
  BY LifecycleNext_Inv DEF EvidenceInv
<1>2. policies \subseteq policies' /\ profiles \subseteq profiles'
  BY IsolationGrows
<1>3. ProfilesBound'
  BY <1>2 DEF EvidenceInv, ProfilesBound, IsolationNext, RegisterPolicy, RegisterProfile,
              ProfileType
<1>4. EnvelopesBound'
  BY <1>2 DEF EvidenceInv, EnvelopesBound, EvidenceKey, lifecycleVars
<1> QED BY <1>1, <1>3, <1>4 DEF EvidenceInv

LEMMA Evidence_Encrypt ==
  ASSUME EvidenceInv, NEW subject \in Subjects, NEW f \in profiles, NEW k \in keys,
         NEW at \in Times, Encrypt(subject, f, k, at)
  PROVE  EvidenceInv'
<1> DEFINE e == [tenant |-> f.tenant, subject |-> subject, profile |-> f,
                 key |-> k, encryptedAt |-> at]
<1>1. /\ UNCHANGED <<lifecycleVars, isolationVars>>
      /\ envelopes' = envelopes \cup {e}
      /\ EvidenceKey(k) /\ IsCurrent(k, at)
  BY DEF Encrypt
<1>2. LifecycleInv'
  BY <1>1, LifecycleNext_Inv DEF EvidenceInv
<1>3. UNCHANGED <<keys, states, policies, profiles>>
  BY <1>1 DEF lifecycleVars, isolationVars
<1>4. ProfilesBound'
  BY <1>3 DEF EvidenceInv, ProfilesBound
<1>5. \E s \in states : s.key = k /\ s.effectiveAt =< at
  BY <1>1 DEF IsCurrent, StatusAt, Effective, Lifecycle
<1>6. f.policies \subseteq policies
  BY DEF EvidenceInv, ProfilesBound
<1>7. EnvelopesBound'
  BY <1>1, <1>3, <1>5, <1>6 DEF EvidenceInv, EnvelopesBound, EvidenceKey
<1> QED BY <1>2, <1>4, <1>7 DEF EvidenceInv

LEMMA EvidenceNext_Inv == EvidenceInv /\ [EvidenceNext]_evidenceVars => EvidenceInv'
<1> SUFFICES ASSUME EvidenceInv, [EvidenceNext]_evidenceVars PROVE EvidenceInv'
  OBVIOUS
<1>1. CASE LifecycleNext /\ UNCHANGED <<isolationVars, envelopes>>
  BY <1>1, Evidence_Key
<1>2. CASE IsolationNext /\ UNCHANGED <<lifecycleVars, envelopes>>
  BY <1>2, Evidence_Isolation
<1>3. ASSUME NEW subject \in Subjects, NEW f \in profiles, NEW k \in keys,
             NEW at \in Times, Encrypt(subject, f, k, at)
      PROVE  EvidenceInv'
  BY <1>3, Evidence_Encrypt
<1>4. CASE UNCHANGED evidenceVars
  BY <1>4, Evidence_Key DEF evidenceVars
<1> QED BY <1>1, <1>2, <1>3, <1>4 DEF EvidenceNext

LEMMA EvidenceInvariant == EvidenceSpec => []EvidenceInv
<1>1. EvidenceInit => EvidenceInv
  BY LifecycleInit_Inv
  DEF EvidenceInit, IsolationInit, EvidenceInv, ProfilesBound, EnvelopesBound
<1> QED BY <1>1, EvidenceNext_Inv, PTL DEF EvidenceSpec

\* What may be used as current evidence can be opened, although the currency check
\* asks neither for the key's purpose nor for the registration of the profile's
\* policies (assert_encrypted_evidence_current, decrypt_governance_evidence).
THEOREM EvidenceOpens == EvidenceSpec => []CurrentEvidenceOpens
<1>1. EvidenceInv => CurrentEvidenceOpens
  BY DEF EvidenceInv, EnvelopesBound, CurrentEvidenceOpens, EvidenceCurrent, Decryptable
<1> QED BY <1>1, EvidenceInvariant, PTL

\* No registration of a policy or of a profile closes an envelope that opens
\* (register_policy, register_profile, decrypt_governance_evidence).
THEOREM IsolationDriftKeepsHistory == EvidenceSpec => DriftKeepsHistory
<1>1. ASSUME EvidenceInv, [EvidenceNext]_evidenceVars
      PROVE  UNCHANGED lifecycleVars =>
               \A e \in envelopes, t \in Times : Decryptable(e, t) => Decryptable(e, t)'
  <2> SUFFICES ASSUME UNCHANGED lifecycleVars, NEW e \in envelopes, NEW t \in Times,
                      Decryptable(e, t)
               PROVE  Decryptable(e, t)'
    OBVIOUS
  <2>1. policies \subseteq policies' /\ profiles \subseteq profiles'
    BY <1>1, IsolationGrows DEF EvidenceNext, Encrypt, evidenceVars, isolationVars
  <2>2. UNCHANGED <<keys, states>>
    BY <1>1 DEF lifecycleVars
  <2>3. KeyGoodAtEncryption(e)' /\ EvidenceKey(e.key)' /\ ~ StatusAt(e.key, t, "disabled")'
    BY <1>1, <2>2
    DEF Decryptable, KeyGoodAtEncryption, EvidenceKey, StatusAt, Effective, Lifecycle
  <2> QED BY <1>1, <2>1, <2>3 DEF Decryptable
<1> QED BY <1>1, EvidenceInvariant, PTL DEF EvidenceSpec, DriftKeepsHistory

\* A key that, as recorded after a step, was active at a time when its lifecycle
\* had begun was so as recorded before: nothing is weaker than active.
LEMMA ActiveWasActive ==
  ASSUME LifecycleInv', states \subseteq states', NEW k, NEW t \in Times,
         NEW r \in states, r.key = k, r.effectiveAt =< t, StatusAt(k, t, "active")'
  PROVE  StatusAt(k, t, "active")
<1>1. PICK s \in states' : /\ s.key = k /\ s.effectiveAt =< t /\ s.status = "active"
                           /\ \A y \in Effective(k, t)' : y.version =< s.version
  BY DEF StatusAt, IsLast, Effective, Lifecycle
<1>2. r \in Effective(k, t)'
  BY DEF Effective, Lifecycle
<1>3. /\ s.version \in Nat /\ r.version \in Nat /\ r.status \in Statuses
      /\ r.version = s.version => s = r
      /\ r.version < s.version => Rank[r.status] < Rank[s.status]
  BY <1>1, <1>2
  DEF LifecycleInv, LifecycleTypeOK, StateType, HistoriesOrdered, StatesOrdered, StatesRanked
<1>4. s = r
  BY <1>1, <1>2, <1>3 DEF Rank, Statuses
<1>5. Effective(k, t) \subseteq Effective(k, t)'
  BY DEF Effective, Lifecycle
<1>6. s \in Effective(k, t)
  BY <1>4 DEF Effective, Lifecycle
<1> QED BY <1>1, <1>5, <1>6 DEF StatusAt, IsLast

\* A key recorded as disabled by a time is so at that time and later after a step.
LEMMA DisabledStaysDisabled ==
  ASSUME LifecycleInv', states \subseteq states', NEW k, NEW t \in Int, NEW u \in Int, t =< u,
         StatusAt(k, t, "disabled")
  PROVE  StatusAt(k, u, "disabled")'
<1>1. PICK s \in states : s.key = k /\ s.effectiveAt =< t /\ s.status = "disabled"
  BY DEF StatusAt, IsLast, Effective, Lifecycle
<1>2. s \in Effective(k, u)'
  <2>1. s.effectiveAt \in Int
    BY <1>1, MaxTimeAssumption DEF LifecycleInv, LifecycleTypeOK, StateType, Times
  <2> QED BY <1>1, <2>1 DEF Effective, Lifecycle
<1>3. ASSUME NEW y \in Effective(k, u)' PROVE y.version =< s.version
  <2>1. y \in states' /\ y.key = k
    BY DEF Effective, Lifecycle
  <2>2. /\ s.version \in Nat /\ y.version \in Nat /\ y.status \in Statuses
        /\ s.version < y.version => Rank[s.status] < Rank[y.status]
    BY <1>1, <2>1 DEF LifecycleInv, LifecycleTypeOK, StateType, StatesRanked
  <2> QED BY <1>1, <2>2 DEF Rank, Statuses
<1> QED BY <1>1, <1>2, <1>3 DEF StatusAt, IsLast

\* Whatever is recorded, and as of whatever time, evidence never becomes current at
\* a time at which, or before which, it was not: neither a rotation, nor a state
\* of its key, nor a policy or a profile revives it
\* (assert_encrypted_evidence_current, transition, register_profile).
THEOREM LostCurrencyStaysLost == EvidenceSpec => CurrencyIsLostForGood
<1>1. ASSUME EvidenceInv, EvidenceInv', [EvidenceNext]_evidenceVars
      PROVE  \A e \in envelopes : \A t \in e.encryptedAt .. MaxTime : \A u \in t .. MaxTime :
               EvidenceCurrent(e, u)' => EvidenceCurrent(e, t)
  <2> SUFFICES ASSUME NEW e \in envelopes, NEW t \in e.encryptedAt .. MaxTime,
                      NEW u \in t .. MaxTime, EvidenceCurrent(e, u)'
               PROVE  EvidenceCurrent(e, t)
    OBVIOUS
  <2>1. policies \subseteq policies' /\ profiles \subseteq profiles'
    BY <1>1, IsolationGrows DEF EvidenceNext, Encrypt, evidenceVars, isolationVars
  <2>2. keys \subseteq keys' /\ states \subseteq states'
    <3>1. [LifecycleNext]_lifecycleVars
      BY <1>1 DEF EvidenceNext, Encrypt, evidenceVars
    <3> QED BY <1>1, <3>1, RegistryGrows DEF EvidenceInv
  <2>3. /\ EvidenceKey(e.key) /\ e.profile \in profiles /\ e.profile.policies \subseteq policies
        /\ e.encryptedAt \in Times
    BY <1>1 DEF EvidenceInv, EnvelopesBound
  <2>4. ProfileCurrent(e.profile)
    BY <1>1, <2>1, <2>3, CurrentProfileWasCurrent DEF EvidenceCurrent
  <2>5. PICK r \in states : r.key = e.key /\ r.effectiveAt =< e.encryptedAt
    BY <1>1 DEF EvidenceInv, EnvelopesBound
  <2>6. KeyGoodAtEncryption(e)
    <3>1. StatusAt(e.key, e.encryptedAt, "active")'
      BY <1>1 DEF EvidenceCurrent, KeyGoodAtEncryption
    <3>2. StatusAt(e.key, e.encryptedAt, "active")
      BY <1>1, <2>2, <2>3, <2>5, <3>1, ActiveWasActive DEF EvidenceInv
    <3> QED BY <1>1, <3>2 DEF EvidenceCurrent, KeyGoodAtEncryption
  <2>7. ~ StatusAt(e.key, t, "disabled")
    <3>1. t \in Int /\ u \in Int /\ t =< u
      BY <2>3, MaxTimeAssumption DEF Times
    <3>2. ~ StatusAt(e.key, u, "disabled")'
      BY <1>1 DEF EvidenceCurrent
    <3> QED BY <1>1, <2>2, <3>1, <3>2, DisabledStaysDisabled DEF EvidenceInv
  <2>8. e.encryptedAt =< t /\ e.key \in keys
    BY <2>3, MaxTimeAssumption DEF EvidenceKey, Times
  <2> QED BY <2>4, <2>6, <2>7, <2>8 DEF EvidenceCurrent
<1> QED BY <1>1, EvidenceInvariant, PTL DEF EvidenceSpec, CurrencyIsLostForGood
================================================================================
