\* A material change of the risk policy under an unchanged model version.
SPECIFICATION DossierSpec
CONSTANTS
  KeyRecords <- PlainKeys
  MaxTime = 0
  Forever = Forever
  States <- StatesOfPolicyChange
  Drafts <- PolicyChange
  People <- MCPeople
  Roles <- MCRoles
  NoEvidence = NoEvidence
  MaxProposals = 1
  MaxRequirements = 1
  MaxVotes = 2
  MaxEnvelopes = 2
  MaxApprovals = 1
  MaxResolutions = 1
  MaxImplementations = 1
  OverlaySnapshots = {}
  GenAITriggers = {}
  GenAIDrafts = {}
  MaxSigned = 0
INVARIANT ApprovedAfterState
