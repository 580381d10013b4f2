\* Monitoring assessments over observations mixed, delayed and left out.
SPECIFICATION Spec
CONSTANTS
  RiskDecisions <- MCRiskDecisions
  MetricSets <- MCMetricSets
  Schedules <- MCSchedules
  Readings <- MCReadings
  MaxTime = 3
  MaxPlans = 2
  MaxObservations = 3
  MaxAssessments = 2
  MaxRevalidations = 1
INVARIANTS
  ClearedOnEvidence
  AgeingNeverClears
  LateObservationsChangeNothing
  RevalidationNamesEveryReason
CHECK_DEADLOCK FALSE
CONSTRAINT Comparable
