---------------------------- MODULE AssuranceProofs ----------------------------
(***************************************************************************)
(* Proofs about Assurance, for every set of identities, references and     *)
(* times.  No later registration is compared with the packages: that they  *)
(* verify for ever rests on a package closing its scope, so that every     *)
(* reference it could be extended by is already answered for.              *)
(***************************************************************************)
EXTENDS Assurance, FiniteSetTheorems, TLAPS

\* A package is closed: it verifies, and its scope is answered for in full.
PackagesClosed == \A p \in packages : Verifies(p) /\ Closed(p.scope)

LEMMA AnsweredForGood ==
  ASSUME NEW p \in packages, PackagesClosed,
         Of(assertions, p.scope)' = Of(assertions, p.scope),
         Of(entries, p.scope)' = Of(entries, p.scope)
  PROVE  Verifies(p)' /\ Closed(p.scope)'
<1>1. Verifies(p) /\ Closed(p.scope)
  BY DEF PackagesClosed
<1>2. Summaries(p.scope)' = Summaries(p.scope)
  BY DEF Summaries
<1>3. Contents(p.id, p.scope, p.at)' = Contents(p.id, p.scope, p.at)
  BY <1>2 DEF Contents
<1>4. Verifies(p)'
  BY <1>1, <1>3 DEF Verifies
<1>5. Closed(p.scope)'
  BY <1>1 DEF Closed
<1> QED BY <1>4, <1>5

LEMMA PackagesClosed_Next == PackagesClosed /\ [Next]_vars => PackagesClosed'
<1> SUFFICES ASSUME PackagesClosed, [Next]_vars PROVE PackagesClosed'
  OBVIOUS
<1>1. CASE UNCHANGED <<assertions, entries, packages>>
  BY <1>1, AnsweredForGood DEF PackagesClosed, Of
<1>2. ASSUME NEW s \in scopes, NEW at \in Times, NEW ref \in Required(s), NEW id \in AssertionIds,
             NEW applicable \in BOOLEAN, RegisterApplicability(id, s, ref, applicable, at)
      PROVE  PackagesClosed'
  <2> DEFINE a == [id |-> id, scope |-> s, ref |-> ref, applicable |-> applicable, at |-> at]
  <2>1. /\ assertions' = assertions \cup {a} /\ a.scope = s
        /\ entries' = entries /\ packages' = packages
    BY <1>2 DEF RegisterApplicability
  <2> HIDE DEF a
  <2>2. ASSUME NEW p \in packages PROVE s # p.scope
    BY <1>2 DEF RegisterApplicability, Undecided, Answers, PackagesClosed, Closed, Refs, Of
  <2>3. \A p \in packages : /\ Of(assertions, p.scope)' = Of(assertions, p.scope)
                            /\ Of(entries, p.scope)' = Of(entries, p.scope)
    BY <2>1, <2>2 DEF Of
  <2> QED BY <2>1, <2>3, AnsweredForGood DEF PackagesClosed
<1>3. ASSUME NEW s \in scopes, NEW at \in Times, NEW ref \in Required(s), NEW id \in EntryIds,
             NEW a \in assertions, NEW c \in Coverages, NEW used \in SUBSET evidence,
             RegisterEntry(id, s, ref, a, c, used, at)
      PROVE  PackagesClosed'
  <2> DEFINE e == [id |-> id, scope |-> s, ref |-> ref, assertion |-> a, coverage |-> c,
                   evidence |-> used, at |-> at]
  <2>1. /\ entries' = entries \cup {e} /\ e.scope = s
        /\ assertions' = assertions /\ packages' = packages
    BY <1>3 DEF RegisterEntry
  <2> HIDE DEF e
  <2>2. ASSUME NEW p \in packages PROVE s # p.scope
    BY <1>3 DEF RegisterEntry, Unmapped, Answers, PackagesClosed, Closed, Refs, Of
  <2>3. \A p \in packages : /\ Of(assertions, p.scope)' = Of(assertions, p.scope)
                            /\ Of(entries, p.scope)' = Of(entries, p.scope)
    BY <2>1, <2>2 DEF Of
  <2> QED BY <2>1, <2>3, AnsweredForGood DEF PackagesClosed
<1>4. ASSUME NEW id \in PackageIds, NEW s \in scopes, NEW at \in Times, RegisterPackage(id, s, at)
      PROVE  PackagesClosed'
  <2>1. /\ packages' = packages \cup {Contents(id, s, at)} /\ Closed(s)
        /\ UNCHANGED <<assertions, entries>>
    BY <1>4 DEF RegisterPackage
  <2>2. \A p \in packages : Verifies(p)' /\ Closed(p.scope)'
    BY <2>1, AnsweredForGood DEF Of
  <2>3. \A t : Closed(t)' = Closed(t)
    BY <2>1 DEF Closed, Of
  <2>4. \A t : Contents(id, t, at)' = Contents(id, t, at)
    BY <2>1 DEF Contents, Summaries, Of
  <2>5. ASSUME NEW p, p = Contents(id, s, at) PROVE Verifies(p)' /\ Closed(p.scope)'
    <3>1. p.id = id /\ p.scope = s /\ p.at = at
      BY <2>5 DEF Contents
    <3> QED BY <2>1, <2>3, <2>4, <2>5, <3>1 DEF Verifies
  <2> QED BY <2>1, <2>2, <2>5 DEF PackagesClosed
<1>5. CASE UNCHANGED vars
  BY <1>1, <1>5 DEF vars
<1>6. ASSUME NEW id \in ProfileIds, NEW v \in 1 .. MaxVersion, NEW f \in Frameworks,
             NEW refs \in ReferenceSets, NEW at \in Times, RegisterProfile(id, v, f, refs, at)
      PROVE  PackagesClosed'
  BY <1>1, <1>6 DEF RegisterProfile
<1>7. ASSUME NEW id \in ScopeIds, NEW v \in 1 .. MaxVersion, NEW bound \in SUBSET profiles,
             NEW at \in Times, RegisterScope(id, v, bound, at)
      PROVE  PackagesClosed'
  BY <1>1, <1>7 DEF RegisterScope
<1>8. ASSUME NEW id \in EvidenceIds, NEW s \in scopes, NEW at \in Times,
             RegisterEvidence(id, s, at)
      PROVE  PackagesClosed'
  BY <1>1, <1>8 DEF RegisterEvidence
<1> QED BY <1>2, <1>3, <1>4, <1>5, <1>6, <1>7, <1>8 DEF Next

\* A registered package verifies for ever, whatever is registered afterwards
\* (verify_package).
THEOREM PackagesVerifyForEver == Spec => []PackagesVerify
<1>1. Init => PackagesClosed
  BY DEF Init, PackagesClosed
<1>2. PackagesClosed => PackagesVerify
  BY DEF PackagesClosed, PackagesVerify
<1> QED BY <1>1, <1>2, PackagesClosed_Next, PTL DEF Spec

--------------------------------------------------------------------------------
\* The types and bindings that the times of the components rest on.
ComponentsBound ==
  /\ \A p \in profiles : p.at \in Int
  /\ \A s \in scopes : /\ s.at \in Int /\ s.profiles \subseteq profiles
                       /\ \A p \in s.profiles : p.at =< s.at
  /\ \A a \in assertions : a.scope \in scopes /\ a.at \in Int /\ a.scope.at =< a.at
  /\ \A u \in evidence : u.scope \in scopes /\ u.at \in Int /\ u.scope.at =< u.at
  /\ \A e \in entries : /\ e.assertion \in assertions /\ e.assertion.scope = e.scope
                        /\ e.evidence \subseteq evidence /\ e.at \in Int
                        /\ \A u \in e.evidence : u.scope = e.scope

TimesInv == ComponentsBound /\ NothingFromTheFuture

LEMMA TimesInv_Next == TimesInv /\ [Next]_vars => TimesInv'
<1> SUFFICES ASSUME TimesInv, [Next]_vars PROVE TimesInv'
  OBVIOUS
<1> USE DEF TimesInv, ComponentsBound, NothingFromTheFuture, Times
<1>1. ASSUME NEW id \in ProfileIds, NEW v \in 1 .. MaxVersion, NEW f \in Frameworks,
             NEW refs \in ReferenceSets, NEW at \in Times, RegisterProfile(id, v, f, refs, at)
      PROVE  TimesInv'
  BY <1>1 DEF RegisterProfile
<1>2. ASSUME NEW id \in ScopeIds, NEW v \in 1 .. MaxVersion, NEW bound \in SUBSET profiles,
             NEW at \in Times, RegisterScope(id, v, bound, at)
      PROVE  TimesInv'
  BY <1>2 DEF RegisterScope
<1>3. ASSUME NEW id \in EvidenceIds, NEW s \in scopes, NEW at \in Times,
             RegisterEvidence(id, s, at)
      PROVE  TimesInv'
  BY <1>3 DEF RegisterEvidence
<1>4. ASSUME NEW s \in scopes, NEW at \in Times, NEW ref \in Required(s), NEW id \in AssertionIds,
             NEW applicable \in BOOLEAN, RegisterApplicability(id, s, ref, applicable, at)
      PROVE  TimesInv'
  BY <1>4 DEF RegisterApplicability
<1>5. ASSUME NEW s \in scopes, NEW at \in Times, NEW ref \in Required(s), NEW id \in EntryIds,
             NEW a \in assertions, NEW c \in Coverages, NEW used \in SUBSET evidence,
             RegisterEntry(id, s, ref, a, c, used, at)
      PROVE  TimesInv'
  <2> DEFINE e == [id |-> id, scope |-> s, ref |-> ref, assertion |-> a, coverage |-> c,
                   evidence |-> used, at |-> at]
  <2>1. /\ entries' = entries \cup {e}
        /\ UNCHANGED <<profiles, scopes, assertions, evidence, packages>>
    BY <1>5 DEF RegisterEntry
  <2>2. /\ e.assertion \in assertions /\ e.assertion.scope = e.scope
        /\ e.evidence \subseteq evidence /\ e.at \in Int
        /\ \A u \in e.evidence : u.scope = e.scope /\ e.scope.at =< u.at /\ u.at =< e.at
        /\ \A p \in e.scope.profiles : p.at =< e.assertion.at
    BY <1>5 DEF RegisterEntry, EvidenceUsable
  <2> HIDE DEF e
  <2> QED BY <2>1, <2>2
<1>6. ASSUME NEW id \in PackageIds, NEW s \in scopes, NEW at \in Times, RegisterPackage(id, s, at)
      PROVE  TimesInv'
  <2> DEFINE k == Contents(id, s, at)
  <2>1. /\ packages' = packages \cup {k}
        /\ UNCHANGED <<profiles, scopes, assertions, evidence, entries>>
    BY <1>6 DEF RegisterPackage
  <2>2. \A x \in {k.scope} \cup k.assertions \cup k.evidence \cup k.entries : x.at =< k.at
    BY <1>6 DEF RegisterPackage, LatestComponentBefore, Contents, Of
  <2> HIDE DEF k
  <2> QED BY <2>1, <2>2
<1>7. CASE UNCHANGED vars
  BY <1>7 DEF vars
<1> HIDE DEF TimesInv, ComponentsBound, NothingFromTheFuture, Times
<1> QED BY <1>1, <1>2, <1>3, <1>4, <1>5, <1>6, <1>7 DEF Next

\* Nothing mapped or packaged rests on evidence, a decision or a profile of a later
\* time (register_scope, register_entry, build_evidence_package).
THEOREM NothingRestsOnTheFuture == Spec => []NothingFromTheFuture
<1>1. Init => TimesInv
  BY DEF Init, TimesInv, ComponentsBound, NothingFromTheFuture
<1>2. TimesInv => NothingFromTheFuture
  BY DEF TimesInv
<1> QED BY <1>1, <1>2, TimesInv_Next, PTL DEF Spec

--------------------------------------------------------------------------------
\* The number of registered versions bounds each of them: the next one is the
\* latest, whose profiles were current when it was registered.
VersionsBounded ==
  /\ IsFiniteSet(scopes)
  /\ \A s \in scopes : /\ s.version \in Nat /\ s.at \in Int
                       /\ s.version =< Cardinality(Named(scopes, s.id))
  /\ \A s \in scopes : s.profiles \subseteq profiles
  /\ \A p \in profiles : p.version \in Nat

CatalogueInv == VersionsBounded /\ CatalogueNeverRollsBack

LEMMA CatalogueInv_Next == CatalogueInv /\ [Next]_vars => CatalogueInv'
<1> SUFFICES ASSUME CatalogueInv, [Next]_vars PROVE CatalogueInv'
  OBVIOUS
<1> USE DEF CatalogueInv
<1>1. CASE UNCHANGED scopes /\ profiles \subseteq profiles' /\ \A p \in profiles' : p.version \in Nat
  BY <1>1 DEF VersionsBounded, CatalogueNeverRollsBack, Named
<1>2. ASSUME NEW id \in ProfileIds, NEW v \in 1 .. MaxVersion, NEW f \in Frameworks,
             NEW refs \in ReferenceSets, NEW at \in Times, RegisterProfile(id, v, f, refs, at)
      PROVE  CatalogueInv'
  BY <1>1, <1>2 DEF RegisterProfile, VersionsBounded
<1>3. ASSUME NEW id \in ScopeIds, NEW v \in 1 .. MaxVersion, NEW bound \in SUBSET profiles,
             NEW at \in Times, RegisterScope(id, v, bound, at)
      PROVE  CatalogueInv'
  <2> DEFINE s == [id |-> id, version |-> v, profiles |-> bound, at |-> at]
             history == Named(scopes, id)
  <2>1. /\ scopes' = scopes \cup {s} /\ profiles' = profiles
        /\ s.id = id /\ s.version = v /\ s.profiles = bound /\ s.at = at
        /\ v = Cardinality(history) + 1
        /\ \A h \in history : h.at =< at
        /\ \A p \in bound : ProfileCurrent(p)
    BY <1>3 DEF RegisterScope, Follows
  <2>2. IsFiniteSet(history) /\ Cardinality(history) \in Nat
    BY FS_Subset, FS_CardinalityType DEF VersionsBounded, Named
  <2>3. \A h \in history : h.version =< Cardinality(history) /\ h \in scopes /\ h.id = id
    BY DEF VersionsBounded, Named
  <2>4. s \notin history
    BY <2>1, <2>2, <2>3
  <2> HIDE DEF s
  <2>5. Named(scopes', id) = history \cup {s}
    BY <2>1 DEF Named
  <2>6. Cardinality(Named(scopes', id)) = Cardinality(history) + 1
    BY <2>2, <2>4, <2>5, FS_AddElement
  <2>7. \A u : u # id => Named(scopes', u) = Named(scopes, u)
    BY <2>1 DEF Named
  <2>8. IsFiniteSet(scopes')
    BY <2>1, FS_AddElement DEF VersionsBounded
  <2>9. \A t \in scopes' : /\ t.version \in Nat /\ t.at \in Int
                           /\ t.version =< Cardinality(Named(scopes', t.id))
    <3>1. v \in Nat /\ at \in Int
      BY <2>1, <2>2 DEF Times
    <3>2. s.version =< Cardinality(Named(scopes', s.id))
      BY <2>1, <2>2, <2>6
    <3>3. ASSUME NEW t \in scopes PROVE t.version =< Cardinality(Named(scopes', t.id))
      <4>1. CASE t.id = id
        BY <2>2, <2>6, <4>1 DEF VersionsBounded
      <4>2. CASE t.id # id
        BY <2>7, <4>2 DEF VersionsBounded
      <4> QED BY <4>1, <4>2
    <3> QED BY <2>1, <3>1, <3>2, <3>3 DEF VersionsBounded
  <2>10. VersionsBounded'
    BY <2>1, <2>8, <2>9 DEF VersionsBounded
  <2>11. CatalogueNeverRollsBack'
    <3> SUFFICES ASSUME NEW a \in scopes', NEW b \in scopes', a.id = b.id, a.version < b.version
                 PROVE  /\ a.at =< b.at
                        /\ \A p \in a.profiles, q \in b.profiles :
                              p.id = q.id => p.version =< q.version
      BY DEF CatalogueNeverRollsBack
    <3>1. CASE a \in scopes /\ b \in scopes
      BY <3>1 DEF CatalogueNeverRollsBack
    <3>2. CASE a \in scopes /\ b = s
      <4>1. a.at =< b.at
        BY <2>1, <3>2 DEF Named
      <4>2. \A p \in a.profiles, q \in b.profiles : p.id = q.id => p.version =< q.version
        BY <2>1, <3>2 DEF VersionsBounded, ProfileCurrent, Named
      <4> QED BY <4>1, <4>2
    <3>3. CASE a = s
      <4>1. b.version =< v
        <5>1. CASE b = s
          BY <2>1, <2>2, <5>1
        <5>2. CASE b \in history
          BY <2>1, <2>2, <2>3, <5>2 DEF VersionsBounded
        <5>3. b = s \/ (b \in scopes /\ b.id = id)
          BY <2>1, <3>3
        <5> QED BY <5>1, <5>2, <5>3 DEF Named
      <4>2. v < b.version
        BY <2>1, <3>3
      <4>3. b.version \in Nat /\ v \in Nat
        BY <2>1, <2>2, <2>9
      <4> QED BY <4>1, <4>2, <4>3
    <3> QED BY <2>1, <3>1, <3>2, <3>3
  <2> QED BY <2>10, <2>11
<1>4. CASE UNCHANGED <<profiles, scopes>>
  BY <1>1, <1>4 DEF VersionsBounded
<1> QED BY <1>2, <1>3, <1>4 DEF Next, vars, RegisterEvidence, RegisterApplicability,
        RegisterEntry, RegisterPackage

\* The catalogue a scope answers to is never rolled back, although no two scopes
\* are ever compared (register_scope).
THEOREM CatalogueIsMonotone == Spec => []CatalogueNeverRollsBack
<1>1. Init => CatalogueInv
  BY FS_EmptySet DEF Init, CatalogueInv, VersionsBounded, CatalogueNeverRollsBack
<1>2. CatalogueInv => CatalogueNeverRollsBack
  BY DEF CatalogueInv
<1> QED BY <1>1, <1>2, CatalogueInv_Next, PTL DEF Spec

--------------------------------------------------------------------------------
\* What is looked up before it is registered is there once: a framework in a scope,
\* a decision and an entry for a reference of a scope.
OneEach ==
  /\ \A p \in profiles : p.refs \in ReferenceSets
  /\ \A s \in scopes : /\ s.profiles \subseteq profiles
                       /\ \A p, q \in s.profiles : p.framework = q.framework => p = q
  /\ \A a, b \in assertions : a.scope = b.scope /\ a.ref = b.ref => a = b
  /\ \A e, f \in entries : e.scope = f.scope /\ e.ref = f.ref => e = f

\* An entry answers for a reference of its scope as was decided for that reference.
EntriesMatch ==
  \A e \in entries :
    /\ e.ref \in Required(e.scope)
    /\ e.assertion \in assertions
    /\ e.assertion.scope = e.scope /\ e.assertion.ref = e.ref
    /\ e.coverage \in Coverages
    /\ e.coverage = "not_applicable" <=> ~ e.assertion.applicable
    /\ \A u \in e.evidence : u.scope = e.scope

PackagesOfScopes == \A k \in packages : k.scope \in scopes

AnswersInv == OneEach /\ EntriesMatch /\ PackagesOfScopes

LEMMA AnswersInv_Next == AnswersInv /\ [Next]_vars => AnswersInv'
<1> SUFFICES ASSUME AnswersInv, [Next]_vars PROVE AnswersInv'
  OBVIOUS
<1> USE DEF AnswersInv
<1>1. ASSUME NEW id \in ProfileIds, NEW v \in 1 .. MaxVersion, NEW f \in Frameworks,
             NEW refs \in ReferenceSets, NEW at \in Times, RegisterProfile(id, v, f, refs, at)
      PROVE  AnswersInv'
  BY <1>1 DEF RegisterProfile, OneEach, EntriesMatch, PackagesOfScopes
<1>2. ASSUME NEW id \in ScopeIds, NEW v \in 1 .. MaxVersion, NEW bound \in SUBSET profiles,
             NEW at \in Times, RegisterScope(id, v, bound, at)
      PROVE  AnswersInv'
  BY <1>2 DEF RegisterScope, OneEach, EntriesMatch, PackagesOfScopes
<1>3. ASSUME NEW id \in EvidenceIds, NEW s \in scopes, NEW at \in Times,
             RegisterEvidence(id, s, at)
      PROVE  AnswersInv'
  BY <1>3 DEF RegisterEvidence, OneEach, EntriesMatch, PackagesOfScopes
<1>4. ASSUME NEW s \in scopes, NEW at \in Times, NEW ref \in Required(s), NEW id \in AssertionIds,
             NEW applicable \in BOOLEAN, RegisterApplicability(id, s, ref, applicable, at)
      PROVE  AnswersInv'
  <2> DEFINE a == [id |-> id, scope |-> s, ref |-> ref, applicable |-> applicable, at |-> at]
  <2>1. /\ assertions' = assertions \cup {a}
        /\ a.scope = s /\ a.ref = ref
        /\ UNCHANGED <<profiles, scopes, evidence, entries, packages>>
    BY <1>4 DEF RegisterApplicability
  <2>2. \A b \in assertions : ~ (b.scope = s /\ b.ref = ref)
    BY <1>4 DEF RegisterApplicability, Undecided, Answers
  <2> HIDE DEF a
  <2>3. OneEach'
    BY <2>1, <2>2 DEF OneEach
  <2> QED BY <2>1, <2>3 DEF EntriesMatch, PackagesOfScopes
<1>5. ASSUME NEW s \in scopes, NEW at \in Times, NEW ref \in Required(s), NEW id \in EntryIds,
             NEW a \in assertions, NEW c \in Coverages, NEW used \in SUBSET evidence,
             RegisterEntry(id, s, ref, a, c, used, at)
      PROVE  AnswersInv'
  <2> DEFINE e == [id |-> id, scope |-> s, ref |-> ref, assertion |-> a, coverage |-> c,
                   evidence |-> used, at |-> at]
  <2>1. /\ entries' = entries \cup {e}
        /\ e.scope = s /\ e.ref = ref
        /\ UNCHANGED <<profiles, scopes, assertions, evidence, packages>>
    BY <1>5 DEF RegisterEntry
  <2>2. \A f \in entries : ~ (f.scope = s /\ f.ref = ref)
    BY <1>5 DEF RegisterEntry, Unmapped, Answers
  <2>3. /\ e.ref \in Required(e.scope)
        /\ e.assertion \in assertions
        /\ e.assertion.scope = e.scope /\ e.assertion.ref = e.ref
        /\ e.coverage \in Coverages
        /\ e.coverage = "not_applicable" <=> ~ e.assertion.applicable
        /\ \A u \in e.evidence : u.scope = e.scope
    BY <1>5 DEF RegisterEntry, CoverageMatches, EvidenceUsable
  <2> HIDE DEF e
  <2>4. OneEach'
    BY <2>1, <2>2 DEF OneEach
  <2>5. EntriesMatch'
    BY <2>1, <2>3 DEF EntriesMatch
  <2> QED BY <2>1, <2>4, <2>5 DEF PackagesOfScopes
<1>6. ASSUME NEW id \in PackageIds, NEW s \in scopes, NEW at \in Times, RegisterPackage(id, s, at)
      PROVE  AnswersInv'
  BY <1>6 DEF RegisterPackage, Contents, OneEach, EntriesMatch, PackagesOfScopes
<1>7. CASE UNCHANGED vars
  BY <1>7 DEF vars, OneEach, EntriesMatch, PackagesOfScopes
<1> HIDE DEF AnswersInv
<1> QED BY <1>1, <1>2, <1>3, <1>4, <1>5, <1>6, <1>7 DEF Next

\* The entries of a framework are as many as the references of its profile: one for
\* each of them, and none for another.
LEMMA EntryPerReference ==
  ASSUME AnswersInv, NEW s \in scopes, Closed(s), NEW p \in s.profiles
  PROVE  LET own == {e \in Of(entries, s) : e.ref[1] = p.framework}
         IN  IsFiniteSet(own) /\ Cardinality(own) = Cardinality(p.refs)
<1> DEFINE own == {e \in Of(entries, s) : e.ref[1] = p.framework}
           f == [e \in own |-> e.ref[2]]
<1>1. \A e \in own : e.ref[2] \in p.refs /\ e.ref = <<p.framework, e.ref[2]>>
  <2> SUFFICES ASSUME NEW e \in own PROVE e.ref[2] \in p.refs /\ e.ref = <<p.framework, e.ref[2]>>
    OBVIOUS
  <2>1. e.ref \in Required(s)
    BY DEF AnswersInv, EntriesMatch, Of
  <2>2. PICK q \in s.profiles : e.ref \in {q.framework} \X q.refs
    BY <2>1 DEF Required
  <2>3. q = p
    BY <2>2 DEF AnswersInv, OneEach
  <2> QED BY <2>2, <2>3
<1>2. \A e, g \in own : f[e] = f[g] => e = g
  BY <1>1 DEF AnswersInv, OneEach, Of
<1>3. \A r \in p.refs : \E e \in own : f[e] = r
  <2> SUFFICES ASSUME NEW r \in p.refs PROVE \E e \in own : f[e] = r
    OBVIOUS
  <2>1. <<p.framework, r>> \in Required(s)
    BY DEF Required
  <2>2. PICK e \in Of(entries, s) : e.ref = <<p.framework, r>>
    BY <2>1 DEF Closed, Refs
  <2> QED BY <2>2
<1>4. f \in Injection(own, p.refs) /\ f \in Surjection(own, p.refs)
  BY <1>1, <1>2, <1>3 DEF Injection, Surjection, IsInjective
<1>5. IsFiniteSet(p.refs)
  BY ReferencesAssumption DEF AnswersInv, OneEach
<1> HIDE DEF own, f
<1>6. IsFiniteSet(own) /\ Cardinality(own) = Cardinality(p.refs)
  BY <1>4, <1>5, FS_Injection
<1> QED BY <1>6 DEF own

\* The numbers of elements of four disjoint parts add up.
LEMMA FourParts ==
  ASSUME NEW S, IsFiniteSet(S), NEW A \in SUBSET S, NEW B \in SUBSET S, NEW C \in SUBSET S,
         NEW D \in SUBSET S, S = (A \cup B) \cup (C \cup D),
         A \cap B = {}, C \cap D = {}, (A \cup B) \cap (C \cup D) = {}
  PROVE  Cardinality(A) + Cardinality(B) + Cardinality(C) + Cardinality(D) = Cardinality(S)
<1>1. IsFiniteSet(A) /\ IsFiniteSet(B) /\ IsFiniteSet(C) /\ IsFiniteSet(D)
  BY FS_Subset
<1>2. /\ IsFiniteSet(A \cup B)
      /\ Cardinality(A \cup B) = Cardinality(A) + Cardinality(B) - Cardinality({})
  BY <1>1, FS_Union
<1>3. /\ IsFiniteSet(C \cup D)
      /\ Cardinality(C \cup D) = Cardinality(C) + Cardinality(D) - Cardinality({})
  BY <1>1, FS_Union
<1>4. Cardinality(S) = Cardinality(A \cup B) + Cardinality(C \cup D) - Cardinality({})
  BY <1>2, <1>3, FS_Union
<1>5. Cardinality({}) = 0
  BY FS_EmptySet
<1>6. /\ Cardinality(A) \in Nat /\ Cardinality(B) \in Nat
      /\ Cardinality(C) \in Nat /\ Cardinality(D) \in Nat
  BY <1>1, FS_CardinalityType
<1> QED BY <1>2, <1>3, <1>4, <1>5, <1>6

\* The counts of a scope that is answered for in full add up to what is required.
LEMMA CountsAddUp ==
  ASSUME AnswersInv, NEW s \in scopes, Closed(s), NEW x \in Summaries(s)
  PROVE  x.count["supported"] + x.count["partial"] + x.count["gap"]
           + x.count["not_applicable"] = x.required
<1>1. PICK p \in s.profiles :
        x = [framework |-> p.framework, required |-> Cardinality(p.refs),
             count |-> [c \in Coverages |->
                          Cardinality({e \in Of(entries, s) :
                                         e.ref[1] = p.framework /\ e.coverage = c})]]
  BY DEF Summaries
<1> DEFINE own == {e \in Of(entries, s) : e.ref[1] = p.framework}
           part(c) == {e \in Of(entries, s) : e.ref[1] = p.framework /\ e.coverage = c}
<1>2. /\ x.required = Cardinality(p.refs)
      /\ x.count["supported"] = Cardinality(part("supported"))
      /\ x.count["partial"] = Cardinality(part("partial"))
      /\ x.count["gap"] = Cardinality(part("gap"))
      /\ x.count["not_applicable"] = Cardinality(part("not_applicable"))
  BY <1>1 DEF Coverages
<1>3. IsFiniteSet(own) /\ Cardinality(own) = Cardinality(p.refs)
  BY EntryPerReference
<1>4. own = (part("supported") \cup part("partial")) \cup (part("gap") \cup part("not_applicable"))
  BY DEF AnswersInv, EntriesMatch, Of, Coverages
<1>5. /\ part("supported") \cap part("partial") = {}
      /\ part("gap") \cap part("not_applicable") = {}
      /\ (part("supported") \cup part("partial")) \cap (part("gap") \cup part("not_applicable")) = {}
  OBVIOUS
<1>6. \A c : part(c) \in SUBSET own
  OBVIOUS
<1> HIDE DEF own, part
<1>7. Cardinality(part("supported")) + Cardinality(part("partial")) + Cardinality(part("gap"))
        + Cardinality(part("not_applicable")) = Cardinality(own)
  BY <1>3, <1>4, <1>5, <1>6, FourParts
<1> QED BY <1>2, <1>3, <1>7

\* For a reference of a scope that is answered for in full there is one entry and
\* one decision, the one the entry names.
LEMMA OneAnswer ==
  ASSUME AnswersInv, NEW s, Closed(s), NEW ref \in Required(s)
  PROVE  \E e \in Of(entries, s) :
           /\ {e} = Answers(Of(entries, s), s, ref)
           /\ {e.assertion} = Answers(Of(assertions, s), s, ref)
           /\ e.coverage = "not_applicable" <=> ~ e.assertion.applicable
<1>1. PICK e \in Of(entries, s) : e.ref = ref
  BY DEF Closed, Refs
<1>2. e \in entries /\ e.scope = s
  BY DEF Of
<1>3. {e} = Answers(Of(entries, s), s, ref)
  BY <1>1, <1>2 DEF Answers, Of, AnswersInv, OneEach
<1>4. {e.assertion} = Answers(Of(assertions, s), s, ref)
  BY <1>1, <1>2 DEF Answers, Of, AnswersInv, OneEach, EntriesMatch
<1> QED BY <1>2, <1>3, <1>4 DEF AnswersInv, EntriesMatch

\* A package answers for every reference exactly once, as was decided, and its
\* counts add up (register_applicability, register_entry, build_evidence_package).
THEOREM PackagesAreWhole == Spec => []NothingCherryPicked
<1>1. Init => PackagesClosed /\ AnswersInv
  BY DEF Init, PackagesClosed, AnswersInv, OneEach, EntriesMatch, PackagesOfScopes
<1>2. PackagesClosed /\ AnswersInv => NothingCherryPicked
  <2> SUFFICES ASSUME PackagesClosed, AnswersInv, NEW k \in packages
               PROVE  /\ \A x \in k.summaries : \A counted \in {x.count} :
                           counted["supported"] + counted["partial"] + counted["gap"]
                             + counted["not_applicable"] = x.required
                      /\ \A p \in k.scope.profiles : \A r \in p.refs :
                           \E e \in k.entries :
                             /\ {e} = Answers(k.entries, k.scope, <<p.framework, r>>)
                             /\ {e.assertion} = Answers(k.assertions, k.scope, <<p.framework, r>>)
                             /\ e.coverage = "not_applicable" <=> ~ e.assertion.applicable
                      /\ \A x \in k.evidence : x.scope = k.scope
    BY DEF NothingCherryPicked
  <2> DEFINE s == k.scope
  <2>1. s \in scopes /\ Closed(s)
    BY DEF AnswersInv, PackagesOfScopes, PackagesClosed
  <2>2. /\ k.summaries = Summaries(s)
        /\ k.entries = Of(entries, s) /\ k.assertions = Of(assertions, s)
        /\ k.evidence = UNION {e.evidence : e \in Of(entries, s)}
    BY DEF PackagesClosed, Verifies, Contents
  <2>3. \A x \in k.summaries : x.count["supported"] + x.count["partial"] + x.count["gap"]
                                + x.count["not_applicable"] = x.required
    BY <2>1, <2>2, CountsAddUp
  <2>4. \A p \in s.profiles : \A r \in p.refs : <<p.framework, r>> \in Required(s)
    BY DEF Required
  <2>5. \A x \in k.evidence : x.scope = s
    BY <2>2 DEF Of, AnswersInv, EntriesMatch
  <2> QED BY <2>1, <2>2, <2>3, <2>4, <2>5, OneAnswer
<1> QED BY <1>1, <1>2, PackagesClosed_Next, AnswersInv_Next, PTL DEF Spec
================================================================================
