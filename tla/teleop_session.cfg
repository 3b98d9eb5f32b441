\* Two sessions of a few steps, with delayed and immediate starts.
SPECIFICATION Spec
CONSTANTS
  MaxFrames = 5
  MaxSessions = 2
  Paced = TRUE
INVARIANTS ExecutionSerialized FailureSurfaces LatestKept
PROPERTIES RequestNotStuck ExitEnds MailboxSpec
CHECK_DEADLOCK FALSE
