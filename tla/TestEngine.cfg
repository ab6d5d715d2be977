\* Two executions, one after the other or at once, and a retry, in one browser slot; the pages of
\* MCTestEngine in any order, at any time; one fault of any kind.
SPECIFICATION Spec
CONSTANTS
  Calls = {t1, t2}
  Plan <- MCPlan
  Sites <- MCSites
  Tags <- MCTags
  Ids <- MCIds
  Names = {}
  Texts <- MCTexts
  Classes = {"btn"}
  Alike <- MCAlike
  Places = 3
  Threshold = 75
  MaxCandidates = 2
  MAX_BROWSERS = 1
  MAX_LEARNED = 2
  QuickHeal = TRUE
  MAX_RETRY_RUNS = 1
  Faults = {"overlap", "crash", "cancel", "retry"}
  MaxFaults = 1
INVARIANTS SlotsKept HealIsSafe NotAGuess PassMeansAllSteps
PROPERTIES CheckIsTheResult HealsAtOnce
SYMMETRY Symmetry
CHECK_DEADLOCK FALSE
