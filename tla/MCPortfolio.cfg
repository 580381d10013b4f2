\* A portfolio of two models while its third-party evidence is superseded.
SPECIFICATION PortfolioSpec
CONSTANTS
  ModelRecords <- MCModels
  ModelVersions <- MCVersions
  MaxTime = 1
  ProviderProfiles <- MCProfiles
  Services <- MCServices
  NotTested = NotTested
  Books <- MCBooks
  PortfolioPolicies <- MCPolicies
  MaxVersions = 2
  MaxAssessments = 1
  MaxPackages = 1
INVARIANTS
  BindingsNeverRollBack
  AssessedOnEvidenceOfItsTime
  ExposuresAddUp
PROPERTY
  StaleForGood
CHECK_DEADLOCK FALSE
CONSTRAINT Bounded
