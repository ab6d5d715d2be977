\* Every fault, calls that overlap on one execution or repeat it, and a policy of its own: a type
\* healable and retryable, replacements with a poor history, scores below, at and beside the limits.
SPECIFICATION FairSpec
CONSTANTS
  Calls = {c1, c2}
  Executions = {e1}
  Selectors = {s1, s2}
  NoSelector = NoSelector
  Overrides <- HealableTimeout
  MaxHealing = 2
  MaxRetries = 2
  AllowRetry = TRUE
  AllowMedium = FALSE
  MinScore = 30
  MinHealing = 50
  Margin = 2
  BoostWeight = 15
  History <- PoorHistory
  SeenFailures = {"TIMEOUT", "ELEMENT_NOT_FOUND", "UNKNOWN"}
  Rankings <- MCRankings
  Scores = {20, 60, 90, 93}
  MaxCandidates = 2
  MaxRetryRuns = 1
  Faults = {"overlap", "crash", "outage", "cancel", "restart"}
  MaxFaults = 2

INVARIANTS TypeOK RecordIsHonest NoInvalidTransition WithinLimits
PROPERTIES NeverTriedTwice NeverOnAGuess EndsUnlessLost
CHECK_DEADLOCK FALSE
