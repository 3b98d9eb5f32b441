\* Three sessions, a metadata buffer of two, with and without video.
CONSTANTS
  MetadataBufferSize = 2
  VideoModes = {TRUE, FALSE}
  MaxFrames = 5
  MaxSessions = 3
SPECIFICATION Spec
INVARIANTS Bookkeeping DiskAgrees
PROPERTIES ImplementsLog
CHECK_DEADLOCK FALSE
