------------------------------- MODULE Assurance -------------------------------
(***************************************************************************)
(* AssuranceEvidenceRegistry (assurance.py): the references of a framework *)
(* version that an assurance scope must answer for, what was decided and   *)
(* mapped for each of them, and the packages assembled from all of it.     *)
(* Every key and lookup is per institution, so one institution is          *)
(* modelled; a digest is the content it stands for; the framework version  *)
(* is pinned by the framework.  A retry with the same content changes      *)
(* nothing, one with another content is refused.                           *)
(***************************************************************************)
EXTENDS Integers, FiniteSets

CONSTANTS
  ProfileIds, Frameworks,
  ReferenceSets,  \* the references a mapping profile may list
  ScopeIds,
  AssertionIds, EvidenceIds, EntryIds, PackageIds,
  MaxVersion,     \* the bound on versions of a profile and of a scope
  MaxTime         \* the bound on every timestamp

Times == 0 .. MaxTime

ASSUME ReferencesAssumption ==
  \A refs \in ReferenceSets : refs # {} /\ IsFiniteSet(refs)

VARIABLES
  profiles,    \* AssuranceMappingProfile
  scopes,      \* AssuranceScope, with the profiles it binds
  assertions,  \* AssuranceApplicabilityAssertion
  evidence,    \* AssuranceEvidenceReference
  entries,     \* AssuranceCrosswalkEntry
  packages     \* AssuranceEvidencePackage

vars == <<profiles, scopes, assertions, evidence, entries, packages>>

Init ==
  /\ profiles = {} /\ scopes = {} /\ assertions = {}
  /\ evidence = {} /\ entries = {} /\ packages = {}

Named(pool, id) == {x \in pool : x.id = id}

\* Versions are contiguous and not registered before an earlier one.
Follows(history, version, at) ==
  /\ version = Cardinality(history) + 1
  /\ \A h \in history : h.at =< at

--------------------------------------------------------------------------------
\* register_mapping_profile.
RegisterProfile(id, version, framework, refs, at) ==
  LET history == Named(profiles, id) IN
  /\ Follows(history, version, at)
  /\ \A h \in history : h.framework = framework
  /\ profiles' = profiles \cup
       {[id |-> id, version |-> version, framework |-> framework, refs |-> refs, at |-> at]}
  /\ UNCHANGED <<scopes, assertions, evidence, entries, packages>>

\* A mutant of the check: a profile that was superseded still counts.
RegisteredProfile(p) == p \in profiles

\* assert_mapping_profile_current.
ProfileCurrent(p) == \A h \in Named(profiles, p.id) : h.version =< p.version

\* register_scope.
RegisterScope(id, version, bound, at) ==
  /\ Follows(Named(scopes, id), version, at)
  /\ bound # {}
  /\ \A p, q \in bound : p.framework = q.framework => p = q
  /\ \A p \in bound : ProfileCurrent(p) /\ p.at =< at
  /\ scopes' = scopes \cup {[id |-> id, version |-> version, profiles |-> bound, at |-> at]}
  /\ UNCHANGED <<profiles, assertions, evidence, entries, packages>>

\* assert_scope_current.
ScopeCurrent(s) ==
  /\ \A t \in Named(scopes, s.id) : t.version =< s.version
  /\ \A p \in s.profiles : ProfileCurrent(p)

\* _required_reference_profile.
Required(s) == UNION {{p.framework} \X p.refs : p \in s.profiles}

Answers(pool, s, ref) == {x \in pool : x.scope = s /\ x.ref = ref}

\* A mutant of register_applicability: what was decided is not looked up.
NeverDecided(s, ref) == TRUE

Undecided(s, ref) == Answers(assertions, s, ref) = {}

\* register_applicability.  A scope that is no longer current still takes it.
RegisterApplicability(id, s, ref, applicable, at) ==
  /\ ref \in Required(s)
  /\ at >= s.at
  /\ Named(assertions, id) = {}
  /\ Undecided(s, ref)
  /\ assertions' = assertions \cup
       {[id |-> id, scope |-> s, ref |-> ref, applicable |-> applicable, at |-> at]}
  /\ UNCHANGED <<profiles, scopes, evidence, entries, packages>>

\* register_evidence.
RegisterEvidence(id, s, at) ==
  /\ at >= s.at
  /\ Named(evidence, id) = {}
  /\ evidence' = evidence \cup {[id |-> id, scope |-> s, at |-> at]}
  /\ UNCHANGED <<profiles, scopes, assertions, entries, packages>>

\* AssuranceCrosswalkEntry: exactly a reference that is supported, also in part,
\* carries evidence.
Coverages == {"supported", "partial", "gap", "not_applicable"}
CarriesEvidence(coverage) == coverage \in {"supported", "partial"}

\* A mutant of register_entry: the times of the evidence are not compared.
EvidenceOfScope(used, s, at) == \A e \in used : e.scope = s

EvidenceUsable(used, s, at) == \A e \in used : e.scope = s /\ e.at =< at

\* A mutant of register_entry: another entry for the reference is not looked for.
NeverMapped(s, ref) == TRUE

Unmapped(s, ref) == Answers(entries, s, ref) = {}

\* A mutant of register_entry: an applicable reference may be mapped as if it
\* were not.
OnlyOneWay(a, coverage) == a.applicable \/ coverage = "not_applicable"

CoverageMatches(a, coverage) == a.applicable <=> coverage # "not_applicable"

\* register_entry.
RegisterEntry(id, s, ref, a, coverage, used, at) ==
  /\ ref \in Required(s)
  /\ a.scope = s /\ a.ref = ref
  /\ at >= a.at
  /\ CoverageMatches(a, coverage)
  /\ CarriesEvidence(coverage) <=> used # {}
  /\ EvidenceUsable(used, s, at)
  /\ Named(entries, id) = {}
  /\ Unmapped(s, ref)
  /\ entries' = entries \cup
       {[id |-> id, scope |-> s, ref |-> ref, assertion |-> a, coverage |-> coverage,
         evidence |-> used, at |-> at]}
  /\ UNCHANGED <<profiles, scopes, assertions, evidence, packages>>

--------------------------------------------------------------------------------
Of(pool, s) == {x \in pool : x.scope = s}
Refs(pool) == {x.ref : x \in pool}

\* _coverage_summaries.
Summaries(s) ==
  {[framework |-> p.framework, required |-> Cardinality(p.refs),
    count |-> [c \in Coverages |->
                 Cardinality({e \in Of(entries, s) : e.ref[1] = p.framework /\ e.coverage = c})]] :
    p \in s.profiles}

\* What a package of a scope holds, as the registry stands.
Contents(id, s, at) ==
  [id |-> id, scope |-> s, assertions |-> Of(assertions, s), entries |-> Of(entries, s),
   evidence |-> UNION {e.evidence : e \in Of(entries, s)}, summaries |-> Summaries(s), at |-> at]

\* A mutant of the package: the references without an entry are not missed.
EverythingAsserted(s) == Refs(Of(assertions, s)) = Required(s)

\* Every required reference, and no other, has an assertion and an entry.
Closed(s) == Refs(Of(assertions, s)) = Required(s) /\ Refs(Of(entries, s)) = Required(s)

\* A mutant of the package: the times of what it holds are not compared.
AfterScope(s, at) == at >= s.at

LatestComponentBefore(s, at) ==
  /\ at >= s.at
  /\ \A x \in Of(assertions, s) \cup Of(entries, s) : x.at =< at
  /\ \A e \in Of(entries, s) : \A used \in e.evidence : used.at =< at

\* register_package, of what build_evidence_package makes at that time.
RegisterPackage(id, s, at) ==
  /\ Named(packages, id) = {}
  /\ ScopeCurrent(s)
  /\ Closed(s)
  /\ LatestComponentBefore(s, at)
  /\ packages' = packages \cup {Contents(id, s, at)}
  /\ UNCHANGED <<profiles, scopes, assertions, evidence, entries>>

\* verify_package: the package reproduces from what is registered now.
Verifies(p) == p = Contents(p.id, p.scope, p.at)

Next ==
  \/ \E id \in ProfileIds, v \in 1 .. MaxVersion, f \in Frameworks, refs \in ReferenceSets,
        at \in Times : RegisterProfile(id, v, f, refs, at)
  \/ \E id \in ScopeIds, v \in 1 .. MaxVersion, bound \in SUBSET profiles, at \in Times :
        RegisterScope(id, v, bound, at)
  \/ \E id \in EvidenceIds, s \in scopes, at \in Times : RegisterEvidence(id, s, at)
  \/ \E s \in scopes, at \in Times : \E ref \in Required(s) :
       \/ \E id \in AssertionIds, applicable \in BOOLEAN :
             RegisterApplicability(id, s, ref, applicable, at)
       \/ \E id \in EntryIds, a \in assertions, c \in Coverages, used \in SUBSET evidence :
             RegisterEntry(id, s, ref, a, c, used, at)
  \/ \E id \in PackageIds, s \in scopes, at \in Times : RegisterPackage(id, s, at)

Spec == Init /\ [][Next]_vars

--------------------------------------------------------------------------------
\* A package, once registered, verifies for ever: whatever is registered later,
\* for its scope, its references or its profiles, the package reproduces from the
\* registry (verify_package, "historical registered evidence").
PackagesVerify == \A p \in packages : Verifies(p)

\* A package answers for every reference of its profiles exactly once, with the
\* applicability that was confirmed for it, so that its counts add up without
\* FrameworkCoverageSummary having to refuse them; and it shows no evidence but
\* that of its own scope (build_evidence_package, "requires exactly one").
NothingCherryPicked ==
  \A k \in packages :
    /\ \A x \in k.summaries : \A counted \in {x.count} :
         counted["supported"] + counted["partial"] + counted["gap"]
           + counted["not_applicable"] = x.required
    /\ \A p \in k.scope.profiles : \A r \in p.refs :
         \E e \in k.entries :
           /\ {e} = Answers(k.entries, k.scope, <<p.framework, r>>)
           /\ {e.assertion} = Answers(k.assertions, k.scope, <<p.framework, r>>)
           /\ e.coverage = "not_applicable" <=> ~ e.assertion.applicable
    /\ \A x \in k.evidence : x.scope = k.scope

\* Nothing in a package, and nothing mapped for one, rests on what came later: the
\* profile is registered before the scope, the scope before the evidence and the
\* assertion, these before the entry, and all of it before the package
\* (register_scope, register_entry, build_evidence_package).
NothingFromTheFuture ==
  /\ \A e \in entries :
       /\ \A p \in e.scope.profiles : p.at =< e.assertion.at
       /\ \A used \in e.evidence : e.scope.at =< used.at /\ used.at =< e.at
  /\ \A k \in packages : \A x \in {k.scope} \cup k.assertions \cup k.evidence \cup k.entries :
       x.at =< k.at

\* The catalogue a scope answers to never rolls back: a later version of a scope
\* does not bind an earlier version of a profile than the version before it,
\* in whatever order profiles and scopes are registered, times being the caller's
\* (register_scope, assert_mapping_profile_current).
CatalogueNeverRollsBack ==
  \A s, t \in scopes : s.id = t.id /\ s.version < t.version =>
    /\ s.at =< t.at
    /\ \A p \in s.profiles, q \in t.profiles : p.id = q.id => p.version =< q.version
================================================================================
