\* The evaluation of a generative-AI model, its human oversight and its dossier.
SPECIFICATION Spec
CONSTANTS
  ModelVersions <- MCModelVersions
  Foundations <- MCFoundations
  Prompts <- MCPrompts
  Rags = {}
  UseCases <- MCUseCases
  GenAIMetricSets <- MCMetricSets
  Readings <- MCReadings
  None = None
  MaxTime = 2
  MaxPlans = 1
  MaxObservations = 2
  MaxAssessments = 1
  BaseDossiers <- MCBaseDossiers
  Reviewers = {"r"}
  ReviewRoles = {"human_reviewer", "developer"}
  GenAITriggers = {"safety_policy"}
  MaxOversights = 1
  MaxDecisions = 1
  MaxDossiers = 1
INVARIANTS
  EvaluationFailsClosed
  StateAgreesWithPath
  GenAIEvidenceNeverRepairs
  ReviewedWhereDemanded
CHECK_DEADLOCK FALSE
CONSTRAINT InTurn
