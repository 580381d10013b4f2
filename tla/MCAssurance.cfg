\* Assurance packages over references decided, mapped and superseded in any order.
SPECIFICATION Spec
CONSTANTS
  ProfileIds = {"p", "q"}
  Frameworks = {"f", "g"}
  ReferenceSets <- MCReferenceSets
  ScopeIds = {"s"}
  AssertionIds = {"a1", "a2"}
  EvidenceIds = {"e1"}
  EntryIds = {"c1", "c2"}
  PackageIds = {"k1"}
  MaxVersion = 2
  MaxTime = 1
INVARIANTS
  PackagesVerify
  NothingCherryPicked
  NothingFromTheFuture
  CatalogueNeverRollsBack
CHECK_DEADLOCK FALSE
CONSTRAINT Small
