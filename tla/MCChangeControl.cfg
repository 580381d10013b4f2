\* The authorization of a model change, from proposal to implementation.
SPECIFICATION DossierSpec
CONSTANTS
  KeyRecords <- MCKeys
  MaxTime = 1
  Forever = Forever
  States <- MCStates
  Drafts <- MCDrafts
  People <- MCPeople
  Roles <- MCRoles
  NoEvidence = NoEvidence
  MaxProposals = 2
  MaxRequirements = 2
  MaxVotes = 2
  MaxEnvelopes = 2
  MaxApprovals = 1
  MaxResolutions = 2
  MaxImplementations = 2
  OverlaySnapshots <- MCOverlays
  GenAITriggers = {"safety_policy"}
  GenAIDrafts <- MCGenAIDrafts
  MaxSigned = 1
INVARIANTS
  SeparationOfDuties
  SignaturesAttributable
  ImplementedAsAuthorized
  SignedDossierHoldsTogether
PROPERTIES
  RevokedKeysDecideNothing
CONSTRAINT InTurn
