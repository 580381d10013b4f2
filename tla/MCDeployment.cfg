\* A production release while the evidence it binds drifts.
SPECIFICATION StabilitySpec
CONSTANTS
  MaxTime = 1
  RlsPolicies <- MCRlsPolicies
  Tenants <- MCTenants
  Environments = {"production", "test"}
  MaxProfiles = 2
  EgressPolicies <- MCEgress
  WorkerIds = {"w"}
  CheckpointIds = {"c1", "c2"}
  ReleaseNames <- MCNames
  RestorePoints = {"p"}
  MaxVersions = 2
  MaxReleases = 2
  SourceVersions = {"0.8.1"}
  StableVersion = "1.0.0"
INVARIANTS
  NothingFromTheFuture
  OneRuntimePerRelease
  BaselineRestsOnOneHistory
PROPERTY
  IneligibleForGood
CHECK_DEADLOCK FALSE
CONSTRAINT InTurn
