SPECIFICATION Spec
CONSTANTS
  w1 = w1
  Workers = {w1}
  MaxRuns = 1
  NStages = 1
  MaxBeats = 2
  HeartbeatEvery = 1
  Stale = 2
  MaxFaults = 0
  Faults = {"cancel"}
SYMMETRY WorkerSymmetry
PROPERTY CancelledIsFinal
