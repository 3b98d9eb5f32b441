\* One return of control, in both queue modes, with and without torch.compile.
CONSTANTS
  ChunkLen = 2
  QueueThreshold = 1
  WarmupInferences = 2
  MaxErrors = 2
  RtcModes <- Both
  CompileModes <- Both
  TeleopModes <- Both
  Multiplier = 2
  MaxHandovers = 1
  NoObs = NoObs
  NoAction = NoAction
SPECIFICATION FairSpec
INVARIANTS HandoverSafe PendingIsValid
PROPERTIES PlansMoveForward FailureStops RequestConsumed WarmupStallsOnlyFull
