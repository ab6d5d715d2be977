\* Under fairness: every failure, a site of one version.
SPECIFICATION FairSpec
CONSTANTS
  API = api
  Workers = {w1}
  MaxDeps = 2
  Commits = {k1}
  NoCommit = NoCommit
  MaxVersion = 1
  Dynamic = {}
  DEPLOY_HEALTHY_CHECKS = 1
  Rollbacks = {"hook", "redeploy"}
  Faults = {"race", "die", "cancel", "crash", "outage", "slow"}
  MaxFaults = 1
PROPERTIES DeploymentEnds
CHECK_DEADLOCK FALSE
