\* One fault at any place.
CONSTANTS
  Workers = {w1, w2, w3}
  MaxStep = 2
  MaxSession = 2
  ChunkLen = 2
  ThresholdNum = 1
  ThresholdDen = 2
  SimilarVerdicts = {TRUE, FALSE}
  NoObs = NoObs
  NoCall = NoCall
  FaultBudget = 1
SPECIFICATION Spec
SYMMETRY WorkerSymmetry
INVARIANTS QueueRunsForward
PROPERTIES NoTimestepSkipped
CHECK_DEADLOCK FALSE
