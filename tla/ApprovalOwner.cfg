\* The owner rule when the record of the model changes between the steps.
SPECIFICATION DossierSpec
CONSTANTS
  Records <- MCRecords
  Versions = {"v1"}
  Factors = {"impact", "autonomy"}
  Policies <- MCPolicies
  Ratings <- MCRatings
  TestPlans <- MCTestPlans
  Findings <- MCFindings
  People <- MCPeople
  NotClosed = NotClosed
  MaxDecisions = 1
  MaxPlans = 1
  MaxResolutions = 1
  MaxRequirements = 1
  MaxVotes = 1
  MaxApprovals = 1
  Waivers <- MCWaivers
  Revalidations = {}
  NoRevalidation = NoRevalidation
  MaxExceptions = 0
  MaxDossiers = 0
INVARIANT OwnerDoesNotApprove
CHECK_DEADLOCK FALSE
