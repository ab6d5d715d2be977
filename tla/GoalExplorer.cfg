SPECIFICATION FairExploration
CONSTANTS
  MaxRetries_LLM = 1
  MAX_RETRY_AFTER_S = 30
  Pages <- MCPages
  Start <- MCStart
  Url <- MCUrl
  PageAt <- MCPageAt
  Nodes <- MCNodes
  Leads <- MCLeads
  Shown <- MCShown
  Drift <- MCDrift
  GoalWords = {"reset"}
  Values = {"ann"}
  Decisions <- MCDecisions
  Replies <- MCReplies
  MaxSteps = 4
  MAX_BAD_ANSWERS = 1
  MAX_ELEMENTS = 5
INVARIANTS
  RecordingReplays
  StaysWithinGoal
PROPERTIES
  QuotaIsRespected
  ExplorationEnds
CHECK_DEADLOCK FALSE
