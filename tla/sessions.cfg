\* One client, any observations, calls abandoned at any point.
CONSTANTS
  Workers = {w1, w2}
  MaxStep = 1
  ChunkLen = 1
  MaxSession = 1
  SimilarVerdicts = {TRUE, FALSE}
  NoObs = NoObs
  NoCall = NoCall
SPECIFICATION FairSessions
INVARIANTS SessionsSafe
PROPERTIES HandlersFinish
CHECK_DEADLOCK FALSE
