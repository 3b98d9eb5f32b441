\* A fault-free network, every thread scheduled.
CONSTANTS
  Workers = {w1, w2}
  MaxStep = 3
  MaxSession = 1
  ChunkLen = 3
  SimilarVerdicts = {TRUE, FALSE}
  FaultBudget = 0
  ThresholdNum = 1
  ThresholdDen = 2
  NoObs = NoObs
  NoCall = NoCall
SPECIFICATION FairSpec
PROPERTIES MustGoAnswered StallsOnlyWithoutMustGo
