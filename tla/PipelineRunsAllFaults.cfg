SPECIFICATION Spec
CONSTANTS
  w1 = w1
  w2 = w2
  Workers = {w1, w2}
  MaxRuns = 1
  NStages = 1
  MaxBeats = 2
  HeartbeatEvery = 1
  Stale = 2
  MaxFaults = 1
  Faults = {"kill", "outage", "late", "cancel", "delete"}
SYMMETRY WorkerSymmetry
INVARIANT TypeOK
INVARIANT ExecutedOnce
