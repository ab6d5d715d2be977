SPECIFICATION Spec
CONSTANTS
  Tests = {"first", "second"}
  Procs = {"api"}
  Api = "api"
  Owner <- MCOwner
  Erasable = {"ann"}
  MaxRecords = 2
  MaxStored = 4
  MaxFaults = 1
  Target <- MCTarget
  Page <- MCPage
  Doms <- MCDoms
  SeenFailures <- MCSeenFailures
  Missing <- MCMissing
  Diagnoses <- MCDiagnoses
  Answers <- MCAnswers
  Within <- MCWithin
  MAX_PAGE_ELEMENTS = 3
  Weights <- MCWeights
  HighThreshold = 80
  MediumThreshold = 50
  MinimumThreshold = 30
  AmbiguityThreshold = 5
  CloseEnough <- MCCloseEnough
  Selectors <- MCSelectors
  NoSelector <- MCNoSelector
  Overrides <- MCOverrides
  MaxHealing = 2
  MaxRetries = 1
  AllowRetry = TRUE
  AllowMedium = FALSE
  MinScore = 30
  MinHealing = 50
  Margin = 2
  BoostWeight = 15
  History <- MCHistory
INVARIANTS
  TriedIsOnThePage
  OnlyValidatedIsRemembered
  ErasedIsForgotten
  FailedCheckStands
CHECK_DEADLOCK FALSE
