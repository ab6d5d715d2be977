\* Both modes, every fault; two pushes, two schedulers and two slots, two workers.
SPECIFICATION FairSpec
CONSTANTS
  MaxPush = 2
  Manuals = {}
  Schedulers = {s1, s2}
  MaxNow = 1
  MaxRuns = 4
  Workers = 2
  Modes = {"inline", "worker"}
  Faults = {"cancel", "restart", "die", "outage"}
  MaxFaults = 1
INVARIANTS StartedOnce NoPushForgotten
PROPERTIES WaitingPushRuns
CHECK_DEADLOCK FALSE
