SPECIFICATION Spec
CONSTANTS
  Slots = {s1, s2}
  Pages <- MCPages
  Repos <- MCRepos
  ActiveScans = TRUE
  BRANCH_NAMES = 1
  MaxRequests = 4
  MaxDeploys = 2
SYMMETRY Symmetry
CHECK_DEADLOCK FALSE
INVARIANT SettledIsTrue
INVARIANT NoCheckDropped
INVARIANT NoSecondAfterAnswer
