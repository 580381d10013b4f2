\* Encrypted evidence while its keys and its isolation profile change.
SPECIFICATION EvidenceSpec
CONSTANTS
  MaxTime = 2
  KeyRefs <- MCKeyRefs
  RlsPolicies <- MCRlsPolicies
  Tenants <- MCTenants
  Environments = {"production"}
  MaxProfiles = 2
  Subjects = {"subject"}
  MaxEnvelopes = 2
INVARIANTS
  CurrentEvidenceOpens
PROPERTIES
  DriftKeepsHistory
  CurrencyIsLostForGood
CHECK_DEADLOCK FALSE
