\* The API and a worker; a rollback hook, or a Render hook that may find no commit to go back to; every
\* failure but a smoke test that outlasts the stale limit.  Version 1's page differs on every request.
SPECIFICATION Spec
CONSTANTS
  API = api
  Workers = {w1}
  MaxDeps = 2
  Commits = {k1}
  NoCommit = NoCommit
  MaxVersion = 2
  Dynamic = {1}
  DEPLOY_HEALTHY_CHECKS = 2
  Rollbacks = {"hook", "redeploy"}
  Faults = {"race", "die", "cancel", "crash", "outage"}
  MaxFaults = 1
INVARIANTS ResultFitsSteps RollbackIsVerified
PROPERTIES EndedIsFinal ChangeIsReal
CHECK_DEADLOCK FALSE
