CONSTANTS
  MetadataBufferSize = 2
  VideoModes = {TRUE}
  MaxFrames = 4
  MaxSessions = 1
  Strategies = {"sentry", "continuous", "corrections", "highlight", "episodic"}
  UploadEvery = 1
  NumEpisodes = 2
  RingFrames = 2
  RingBytes = 3
  MaxCaptures = 5
  MaxPushes = 1
SPECIFICATION FairRecording
INVARIANTS TakesSound NeedsPushSound SavedSound
PROPERTIES ShutdownEnds
CHECK_DEADLOCK FALSE
