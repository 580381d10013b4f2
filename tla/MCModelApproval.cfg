\* The chain from the risk decision to the approval of one model.
SPECIFICATION DossierSpec
CONSTANTS
  Records <- MCRecords
  Versions = {"v1", "v2"}
  Factors = {"impact", "autonomy"}
  Policies <- MCPolicies
  Ratings <- MCRatings
  TestPlans <- MCTestPlans
  Findings <- MCFindings
  People <- MCPeople
  NotClosed = NotClosed
  MaxDecisions = 2
  MaxPlans = 1
  MaxResolutions = 1
  MaxRequirements = 1
  MaxVotes = 2
  MaxApprovals = 1
  Waivers <- MCWaivers
  Revalidations = {"change"}
  NoRevalidation = NoRevalidation
  MaxExceptions = 1
  MaxDossiers = 1
INVARIANTS
  ApprovalsRestOnOneChain
  ApprovedMeansValidated
  ApprovedMeansIndependent
  DutiesFollowRisk
  CompleteDossierIsWhole
CHECK_DEADLOCK FALSE
CONSTRAINT InTurn
