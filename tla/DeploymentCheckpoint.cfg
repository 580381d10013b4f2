\* A release whose recovery checkpoint was taken before its isolation profile.
SPECIFICATION StabilitySpec
CONSTANTS
  MaxTime = 1
  RlsPolicies <- MCRlsPolicies
  Tenants <- MCTenants
  Environments = {"production", "test"}
  MaxProfiles = 2
  EgressPolicies <- MCEgress
  WorkerIds = {"w"}
  CheckpointIds = {"c1", "c2"}
  ReleaseNames <- MCNames
  RestorePoints = {"p"}
  MaxVersions = 2
  MaxReleases = 1
  SourceVersions = {"0.8.1"}
  StableVersion = "1.0.0"
INVARIANT CheckpointIsCurrent
CONSTRAINT InTurn
CHECK_DEADLOCK FALSE
