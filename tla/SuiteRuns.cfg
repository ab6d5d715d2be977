SPECIFICATION Spec
CONSTANTS
  Site = "plain"
  Goals <- MCGoals
  Htmls <- MCHtmls
  Others <- MCOthers
  Answers <- MCAnswers
  Recordings <- MCRecordings
  Blueprints <- MCBlueprints
  UserSteps <- MCUserSteps
  Outcomes = {"PASSED", "FAILED"}
  Named <- MCNamed
  DEEP_PAGES = 1
  Edits = {"trust", "quarantine", "edit", "delete", "save", "goal"}
  MaxRuns = 2
  MaxEdits = 1
  MaxFailed = 1
  Slug <- MCSlug
  AiSlug <- MCAiSlug
  PartOf = {}
  UnsafePaths = {"/logout"}
  MAX_FILLS = 2
  MAX_LISTED = 3
  LINK_PAGES = 2
  ROUTE_PAGES = 1
  MAX_AI_TESTS = 2
CHECK_DEADLOCK FALSE
INVARIANTS
  UnreviewedCannotFail
  EveryPathIsVisited
  GoalIsAccountedFor
  PlannerStaysOnThePage
