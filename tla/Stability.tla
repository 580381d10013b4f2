------------------------------- MODULE Stability -------------------------------
(***************************************************************************)
(* The stable release baseline (stability.py, class StableReleaseRegistry) *)
(* over the production registry of Deployment: evidence that the release   *)
(* 1.0.0 is ready and can be reached from an 0.8.x release.  A baseline    *)
(* holds the artefacts whose digests it carries; of a readiness artefact   *)
(* whose content is fixed by its constructor only the time is kept.        *)
(***************************************************************************)
EXTENDS Deployment

CONSTANTS
  SourceVersions,  \* the release versions 0.8.x
  StableVersion    \* "1.0.0"

VARIABLE baselines  \* _baselines: StableReleaseBaseline

stabilityVars == <<vars, baselines>>

StabilityInit == Init /\ baselines = {}

\* A mutant of register_baseline: the target need only be registered.
TargetRegistered(m) == m \in releases

\* The target of a baseline must be reference-ready, its source only registered.
TargetReady(m) == ReferenceReady(m)

\* _assert_chronology.  What the review, the scope and the upgrade path are about
\* is the target release; the public surface is generated under a policy.
Chronological(b) ==
  /\ b.source.registeredAt =< b.target.registeredAt
  /\ b.policyAt =< b.surfaceAt
  /\ \A at \in {b.pathAt, b.reviewAt, b.scopeAt} : b.target.registeredAt =< at
  /\ \A at \in {b.policyAt, b.surfaceAt, b.pathAt, b.reviewAt, b.scopeAt,
                b.target.registeredAt} : at =< b.assembledAt

BaselineType == [source : releases, target : releases, policyAt : Times, surfaceAt : Times,
                 pathAt : Times, reviewAt : Times, scopeAt : Times, assembledAt : Times]

\* register_baseline.  Baselines are kept by their release version, which is
\* always the stable one: there is one for all tenants, and it is never replaced.
\* SupportedUpgradePath refuses a source that is the target.
RegisterBaseline(b) ==
  /\ baselines = {}
  /\ b.source.name[2] \in SourceVersions
  /\ b.target.name[2] = StableVersion
  /\ b.source # b.target
  /\ b.source.tenant = b.target.tenant
  /\ TargetReady(b.target)
  /\ Chronological(b)
  /\ baselines' = {b}
  /\ UNCHANGED vars

\* assert_baseline_current, of the releases and the upgrade path of the baseline.
BaselineCurrent(b) == b \in baselines /\ b.source \in releases /\ ReferenceReady(b.target)

StabilityNext ==
  \/ Next /\ UNCHANGED baselines
  \/ \E b \in BaselineType : RegisterBaseline(b)

StabilitySpec == StabilityInit /\ [][StabilityNext]_stabilityVars

--------------------------------------------------------------------------------
\* A baseline rests on one history: its target follows its source in the release
\* sequence of their tenant, which register_baseline never compares (times may be
\* equal, and a source needs no currency); all it rests on, through the target
\* and the target's worker, existed by the time it was assembled; and while it is
\* current its target is the newest release, so that the source is superseded.
BaselineRestsOnOneHistory ==
  \A b \in baselines :
    /\ b.source.tenant = b.target.tenant /\ b.source.version < b.target.version
    /\ \A part \in {b.source, b.target, b.target.isolation, b.target.worker.egress,
                    b.source.worker.egress} : part.registeredAt =< b.assembledAt
    /\ BaselineCurrent(b) =>
         /\ \A m \in ReleaseHistory(b.target.tenant) : m.version =< b.target.version
         /\ ~ ReferenceReady(b.source)
================================================================================
