\* The signed configuration chain of a tenant while its signing key is rotated.
SPECIFICATION Spec
CONSTANTS
  KeyRefs <- MCKeyRefs
  MaxTime = 2
  Requests <- MCRequests
  None = None
  MaxSigned = 3
INVARIANTS
  TypeOK
  OneChainPerTenant
  SigningKeyNeverRollsBack
  LatestIsReplay
PROPERTIES
  DisabledKeyActivatesNothing
  CurrentKeyNeverRollsBack
  ImplementsLog
CHECK_DEADLOCK FALSE
