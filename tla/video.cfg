CONSTANTS
  MetadataBufferSize = 1
  VideoModes = {TRUE}
  MaxFrames = 3
  MaxSessions = 2
  NumCameras = 2
  QueueSize = 2
SPECIFICATION FairVideo
INVARIANTS VideosMatch EncodersSound
PROPERTIES SaveEnds
CHECK_DEADLOCK FALSE
