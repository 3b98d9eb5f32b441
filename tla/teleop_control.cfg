\* The default debounce of two frames.
SPECIFICATION Spec
CONSTANTS
  ActivateFrames = 2
  DeactivateFrames = 2
  HomePose = 0
  Hands <- Places
  NoHand = NoHand
  MaxPose = 3
INVARIANTS StopsSendHome RunningNeedsRelease
PROPERTIES NoJump
